---------------------------- MODULE BinlogFilter ----------------------------
(***************************************************************************)
(* The filter of binlog events (pkg/binlog-filter/filter.go) over a trie   *)
(* of rules.  Rules are added, updated and removed while other goroutines  *)
(* filter events: the trie's lock is dropped between the search of its     *)
(* cache and the walk.                                                     *)
(*                                                                         *)
(* A rule is [schema, table, events, hasSQL, sql, action]: patterns, a     *)
(* sequence of event types, whether it has a SQL pattern and the queries   *)
(* that one matches.  The filter is case sensitive and rules are valid.    *)
(***************************************************************************)
EXTENDS Selector

CONSTANTS
    FilterRules,    \* the rules that may be added
    Events,         \* the event types
    Queries,        \* the raw queries
    NoQuery,        \* an empty raw query
    Asked,          \* the <<schema, table>> that events are of
    Nobody          \* no call is waiting

\* ClassifyEvent.  The event types of one class are handled alike, so one or
\* two of each are enough; the null event is of no class.
ClassifyEvent(event) ==
    CASE event \in {"insert", "update"} -> "dml"
      [] event \in {"create table", "alter table"} -> "ddl"
      [] event \in {"drop table", "drop column"} -> "incompatible DDL"
      [] event = "null" -> "null"

\* matchEvent: whether the event type r of a rule settles the question, and how.
Settles(r, event) ==
    LET tp == ClassifyEvent(event)
        isDDL == tp \in {"ddl", "incompatible DDL"}
    IN \/ r \in {"all", "none", event}
       \/ r \in {"all ddl", "none ddl"} /\ isDDL
       \/ r \in {"all dml", "none dml"} /\ tp = "dml"
       \/ r = "incompatible ddl changes" /\ tp = "incompatible DDL"

matchEvent(event, events) ==
    LET settled == SelectSeq(events, LAMBDA r : Settles(r, event))
    IN settled # <<>> /\ Head(settled) \notin {"none", "none ddl", "none dml"}

\* What a match, or the lack of one, means for a rule of this action.
Judge(matched, action) ==
    CASE matched /\ action = "Ignore" -> "Ignore"
      [] matched /\ action = "Error" -> "Error"
      [] ~matched /\ action = "Do" -> "Ignore"
      [] OTHER -> "next"

\* One turn of Filter's loop: the event type, then the SQL pattern.
RuleVerdict(rule, event, query) ==
    LET byEvent == IF event = "null" THEN "next"
                   ELSE Judge(matchEvent(event, rule.events), rule.action)
        bySQL == IF query = NoQuery \/ ~rule.hasSQL THEN "next"
                 ELSE Judge(query \in rule.sql, rule.action)
    IN IF byEvent # "next" THEN byEvent ELSE bySQL

\* Mutant: a rule for events to keep does not stop the others.
MutDecide(rules, event, query) ==
    LET verdicts == {RuleVerdict(rules[i], event, query) : i \in {j \in DOMAIN rules : rules[j].action # "Do"}}
    IN IF "Ignore" \in verdicts THEN "Ignore" ELSE IF "Error" \in verdicts THEN "Error" ELSE "Do"

\* Filter's loop: the first rule that has a verdict decides.
Decide(rules, event, query) ==
    LET verdicts == SelectSeq([i \in DOMAIN rules |-> RuleVerdict(rules[i], event, query)],
                              LAMBDA v : v # "next")
    IN IF verdicts = <<>> THEN "Do" ELSE Head(verdicts)

VARIABLES
    filterSel,      \* the selector
    asking          \* the names a call of Match missed in the cache

filterVars == <<filterSel, asking>>

FilterInit == filterSel = NewTrieSelector /\ asking = Nobody

\* AddRule: a pattern that has a rule keeps it.
AddFilterRule ==
    /\ \E r \in FilterRules : filterSel' = InsertRule(filterSel, r.schema, r.table, r, "insert")
    /\ UNCHANGED asking

UpdateFilterRule ==
    /\ \E r \in FilterRules : filterSel' = InsertRule(filterSel, r.schema, r.table, r, "replace")
    /\ UNCHANGED asking

RemoveFilterRule ==
    /\ \E r \in FilterRules : filterSel' = RemoveRules(filterSel, r.schema, r.table)
    /\ UNCHANGED asking

\* Filter calls Match.  A hit is answered from the cache and changes nothing.
FilterMiss ==
    /\ asking = Nobody
    /\ \E k \in Asked : ~Cached(filterSel, k[1], k[2]) /\ asking' = k
    /\ UNCHANGED filterSel

FilterWalk ==
    /\ asking # Nobody
    /\ filterSel' \in CacheStates(filterSel, asking[1], asking[2])
    /\ asking' = Nobody

FilterNext ==
    AddFilterRule \/ UpdateFilterRule \/ RemoveFilterRule \/ FilterMiss \/ FilterWalk

-----------------------------------------------------------------------------
(* What Match returns to a call that starts now.                           *)

Answer(sel, k) ==
    IF Cached(sel, k[1], k[2]) THEN sel.cache[k] ELSE FindRules(sel, k[1], k[2])

\* Match returns the rules of exactly the patterns that match the names, each
\* once, from the cache as from the trie, whatever rules were added, replaced
\* and removed before, and whichever of them were refused.  "All matched rules"
\* (trie_selector.go:50) are those that a name outside ASCII can be found by.
MatchIsGlob ==
    \A k \in Asked : MatchesExactly(filterSel, k[1], k[2], Answer(filterSel, k), FilterRules)

\* The rules that mean a table: those of patterns for its schema alone, and
\* those of patterns for the table too.
SchemaRulesFor(k) ==
    UNION {Range(e[3]) : e \in {x \in Expected(filterSel, k[1], k[2]) : x[2] = <<>>}}
FilterRulesFor(k) == UNION {Range(e[3]) : e \in Expected(filterSel, k[1], k[2])}

Objections(rules, event, query) == {RuleVerdict(r, event, query) : r \in rules} \ {"next"}

\* An event is filtered out just when some rule that means its table objects to
\* it, and as the objecting rules say.  When some ignore it and others raise an
\* error, a rule for the schema decides before any rule for the table, and
\* between rules of one kind the order in the trie does: that an event is ignored
\* does not have the "highest priority" of filter.go:349 and 371.
FilterDecides ==
    \A k \in Asked, event \in Events, query \in Queries \cup {NoQuery} :
        LET all == Objections(FilterRulesFor(k), event, query)
            ofSchema == Objections(SchemaRulesFor(k), event, query)
            decision == Decide(Answer(filterSel, k), event, query)
        IN CASE all = {} -> decision = "Do"
             [] all # {} /\ ofSchema = {} -> decision \in all
             [] ofSchema # {} -> decision \in ofSchema
=============================================================================
