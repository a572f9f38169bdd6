----------------------------- MODULE TableRouter ----------------------------
(***************************************************************************)
(* The table filter in the style of MySQL's replication rules              *)
(* (pkg/filter/filter.go) and the router that has one such filter for each *)
(* of its rules (pkg/regexpr-router/regexpr_router.go).                    *)
(*                                                                         *)
(* A pattern is [re, items, hits]: a glob that goes into a trie, or a      *)
(* regular expression (written with ~ in front), known by the names it     *)
(* matches.  The lists of a filter are searched for any match, so they are *)
(* sets.  A filter does not change and its cache only repeats it.  Filter  *)
(* and router are case sensitive; the router is not shared between         *)
(* goroutines while rules are added, it has no lock.                       *)
(***************************************************************************)
EXTENDS Selector

CONSTANTS
    RuleSets,       \* the filters: [DoDBs, DoTables, IgnoreDBs, IgnoreTables]
    RouteRules,     \* the rules of the router: [schema, table, target]
    NoTable,        \* the table pattern of a rule for schemas
    MaxRoutes,      \* bound on the rules that are added
    RoutedTables    \* the <<schema, table>> to filter and to route

Plain(items) == [re |-> FALSE, items |-> items, hits |-> {}]
Regex(names) == [re |-> TRUE, items |-> <<>>, hits |-> names]

matchString(p, name) == p.re /\ name \in p.hits

-----------------------------------------------------------------------------
(* pkg/filter.                                                             *)

\* initSchemaRule and initTableRule: what a rule puts into the trie, as the
\* pattern of a schema, that of a table and the nodeEndRule.  A glob that goes
\* with a regular expression is inserted alone, as a schema.
SchemaEntries(DBs, allow) ==
    {[schema |-> p.items, table |-> <<>>, rule |-> [kind |-> "db", r |-> {}, allow |-> allow]] :
        p \in {q \in DBs : ~q.re}}

TableEntry(t, allow) ==
    CASE t.schema.re /\ ~t.table.re ->
            [schema |-> t.table.items, table |-> <<>>,
             rule |-> [kind |-> "only table", r |-> {}, allow |-> allow]]
      [] ~t.schema.re /\ t.table.re ->
            [schema |-> t.schema.items, table |-> <<>>,
             rule |-> [kind |-> "only db", r |-> t.table.hits, allow |-> allow]]
      [] ~t.schema.re /\ ~t.table.re ->
            [schema |-> t.schema.items, table |-> t.table.items,
             rule |-> [kind |-> "full", r |-> {}, allow |-> allow]]

TableEntries(TBs, allow) ==
    {TableEntry(t, allow) : t \in {u \in TBs : ~(u.schema.re /\ u.table.re)}}

\* New, with initRules.
FilterTrie(rules) ==
    FoldLeft(LAMBDA sel, e : InsertRule(sel, e.schema, e.table, e.rule, "append"),
             NewTrieSelector,
             SetToSeq(SchemaEntries(rules.DoDBs, TRUE)) \o SetToSeq(TableEntries(rules.DoTables, TRUE))
               \o SetToSeq(SchemaEntries(rules.IgnoreDBs, FALSE))
               \o SetToSeq(TableEntries(rules.IgnoreTables, FALSE)))

FindsKind(trie, schema, table, kind, allow) ==
    \E r \in Range(FindRules(trie, schema, table)) : r.kind = kind /\ r.allow = allow

matchDB(trie, DBs, schema, allow) ==
    \/ \E p \in DBs : matchString(p, schema)
    \/ FindsKind(trie, schema, <<>>, "db", allow)

\* matchTable.  The rules found in the trie need not come from the entry t
\* whose turn it is.
matchTable(trie, TBs, schema, table, allow) ==
    \E t \in TBs :
        \/ matchString(t.schema, schema) /\ matchString(t.table, table)
        \/ /\ ~t.table.re /\ matchString(t.schema, schema)
           /\ FindsKind(trie, table, <<>>, "only table", allow)
        \/ /\ ~(t.schema.re /\ ~t.table.re /\ schema \notin t.schema.hits)
           /\ \/ \E r \in Range(FindRules(trie, schema, <<>>)) :
                    r.kind = "only db" /\ r.allow = allow /\ table \in r.r
              \/ FindsKind(trie, schema, table, "full", allow)

filterOnSchemas(trie, rules, schema) ==
    CASE rules.DoDBs # {} -> matchDB(trie, rules.DoDBs, schema, TRUE)
      [] rules.DoDBs = {} /\ rules.IgnoreDBs # {} -> ~matchDB(trie, rules.IgnoreDBs, schema, FALSE)
      [] OTHER -> TRUE


filterOnTables(trie, rules, schema, table) ==
    \/ table = <<>>
    \/ matchTable(trie, rules.DoTables, schema, table, TRUE)
    \/ rules.DoTables = {} /\ ~matchTable(trie, rules.IgnoreTables, schema, table, FALSE)

\* Match; Apply keeps the tables that match.
MatchIn(trie, rules, schema, table) ==
    filterOnSchemas(trie, rules, schema) /\ filterOnTables(trie, rules, schema, table)

FilterMatch(rules, schema, table) == MatchIn(FilterTrie(rules), rules, schema, table)

-----------------------------------------------------------------------------
(* regexpr-router.                                                         *)

IsSchemaRule(rule) == rule.table = NoTable

\* The filter AddRule makes for a rule.
RouteFilter(rule) ==
    [DoDBs |-> {rule.schema}, IgnoreDBs |-> {}, IgnoreTables |-> {},
     DoTables |-> IF IsSchemaRule(rule) THEN {}
                  ELSE {[schema |-> rule.schema, table |-> rule.table]}]

\* Mutant: the filter of a table rule only has the schema.
MutRouteMatches(routes, schema, table) ==
    SelectSeq(routes, LAMBDA r : FilterMatch([RouteFilter(r) EXCEPT !.DoTables = {}], schema, table))

RouteMatches(routes, schema, table) ==
    SelectSeq(routes, LAMBDA r : FilterMatch(RouteFilter(r), schema, table))

\* Route: table rules come before schema rules, more than one rule is an error
\* and none leaves the names as they are.
TableRulesOf(matched) == SelectSeq(matched, LAMBDA r : ~IsSchemaRule(r))

Applied(matched, table) ==
    IF table = <<>> \/ TableRulesOf(matched) = <<>> THEN SelectSeq(matched, IsSchemaRule)
    ELSE TableRulesOf(matched)

Target(rules, schema, table) ==
    CASE Len(rules) > 1 -> [ok |-> FALSE]
      [] Len(rules) = 1 ->
            [ok |-> TRUE, schema |-> IF rules[1].target[1] = <<>> THEN schema ELSE rules[1].target[1],
             table |-> IF rules[1].target[2] = <<>> THEN table ELSE rules[1].target[2]]
      [] OTHER -> [ok |-> TRUE, schema |-> schema, table |-> table]

Route(matched, schema, table) == Target(Applied(matched, table), schema, table)

\* FetchExtendColumn: the rule whose extractors fill the extra columns.
ExtendRules(matched) ==
    IF TableRulesOf(matched) # <<>> THEN <<Head(TableRulesOf(matched))>>
    ELSE IF matched # <<>> THEN <<Head(matched)>> ELSE <<>>

VARIABLES
    ruleSet,    \* the rules of the filter
    routes      \* RouteTable.filters

routerVars == <<ruleSet, routes>>

NoRules == [DoDBs |-> {}, DoTables |-> {}, IgnoreDBs |-> {}, IgnoreTables |-> {}]

AddRoute ==
    /\ Len(routes) < MaxRoutes
    /\ \E r \in RouteRules : routes' = Append(routes, r)
    /\ UNCHANGED ruleSet

RouterNext == AddRoute

-----------------------------------------------------------------------------
(* What the patterns mean, rule by rule and without a trie.                *)

Means(p, name) == IF p.re THEN name \in p.hits ELSE Glob(p.items, name)
MeansTable(TBs, k) == \E t \in TBs : Means(t.schema, k[1]) /\ Means(t.table, k[2])
MeansDB(DBs, k) == \E p \in DBs : Means(p, k[1])

\* An entry of the list has the schema of the table and another one, likewise of
\* a regular expression for the schema and a glob for the table, has its name.
Lent(TBs, k) ==
    \E t, u \in TBs : /\ t.schema.re /\ ~t.table.re /\ u.schema.re /\ ~u.table.re
                     /\ Means(t.schema, k[1]) /\ Means(u.table, k[2])


\* The rules that mean a table.
RulesFor(k, ofSchemas) ==
    {i \in DOMAIN routes : /\ IsSchemaRule(routes[i]) = ofSchemas /\ Means(routes[i].schema, k[1])
                           /\ ofSchemas \/ Means(routes[i].table, k[2])}

\* A name, unless it is empty, in the place of another.
Renamed(target, name) == IF target = <<>> THEN name ELSE target

\* What is expected of a table that the rules in by mean, and that goes to
\* route by the rules that matched.
GoesWhere(by, matched, route, k) ==
    /\ route.ok <=> Cardinality(by) <= 1
    /\ route.ok /\ k[2] # <<>> => ExtendRules(matched) = Applied(matched, k[2])
    /\ by = {} => route.schema = k[1] /\ route.table = k[2]
    /\ \A i \in by : route.ok => /\ route.schema = Renamed(routes[i].target[1], k[1])
                                /\ route.table = Renamed(routes[i].target[2], k[2])

RoutedBy(matched, k) ==
    GoesWhere(IF k[2] # <<>> /\ RulesFor(k, FALSE) # {} THEN RulesFor(k, FALSE) ELSE RulesFor(k, TRUE),
              matched, Route(matched, k[1], k[2]), k)

\* A table goes where the one rule that means it says, schema and name, table
\* rules before schema rules; without one it stays, and more than one is an
\* error.  A row takes its extra columns from that same rule.
RouteMeaning == \A k \in RoutedTables : RoutedBy(RouteMatches(routes, k[1], k[2]), k)
=============================================================================
