---------------------------- MODULE ColumnMapping ---------------------------
(***************************************************************************)
(* The mapping of column values of sharded tables                          *)
(* (pkg/column-mapping/column.go): a trie of rules, and a cache of what    *)
(* each table's rule comes to.  The cache has a lock of its own, so that a *)
(* rule changes in two steps (the cache is emptied, then the trie changes) *)
(* and a query that misses takes three.                                    *)
(*                                                                         *)
(* A digit is a character below 10.  A rule is [schema, table, column,     *)
(* expr, args]: args are the instance ID, the prefixes of the schema and   *)
(* of the table and the separator, each a name and empty when not used.    *)
(* Match is taken in one step: its own cache never changes its answer.     *)
(***************************************************************************)
EXTENDS Selector, Bitwise

CONSTANTS
    MappingRules,   \* the rules that may be added
    MappedTables,   \* <<schema, table>> of the rows
    Columns,        \* the columns of the rows
    Callers,        \* goroutines that handle rows
    Idle,           \* a caller or the writer with nothing to do
    Failed,         \* an error
    IdBits,         \* the bits of an ID below its sign, 63 in the code
    instanceIDBitSize, schemaIDBitSize, tableIDBitSize

\* Mutant: an origin ID may reach into the table's bits.
MutMaxOriginID == 2 ^ (IdBits - instanceIDBitSize - schemaIDBitSize - tableIDBitSize + 1)

\* SetPartitionRule, and the value the constants of the code start with.
MaxOriginID == 2 ^ (IdBits - instanceIDBitSize - schemaIDBitSize - tableIDBitSize)

\* strconv.ParseUint: a number of so many bits, or an error.
ParseUint(s, bits) ==
    LET n == FoldLeft(LAMBDA acc, d : 10 * acc + d, 0, s)
    IN IF s # <<>> /\ (\A i \in DOMAIN s : s[i] < 10) /\ n < 2 ^ bits THEN n ELSE Failed

\* computeID: the number behind the prefix, and 0 for the prefix alone.
computeID(name, prefix, sep, bits) ==
    LET p == prefix \o sep
    IN CASE name = prefix -> 0
         [] name # prefix /\ IsStrictPrefix(p, name) ->
                ParseUint(SubSeq(name, Len(p) + 1, Len(name)), bits)
         [] OTHER -> Failed

\* computePartitionID.  A part that is not used takes no bits: the parts that
\* follow move up.
Parts(schema, table, rule) ==
    <<IF instanceIDBitSize > 0 /\ rule.args[1] # <<>>
      THEN [bits |-> instanceIDBitSize, id |-> ParseUint(rule.args[1], instanceIDBitSize)]
      ELSE [bits |-> 0, id |-> 0],
      IF schemaIDBitSize > 0 /\ rule.args[2] # <<>>
      THEN [bits |-> schemaIDBitSize,
            id |-> computeID(schema, rule.args[2], rule.args[4], schemaIDBitSize)]
      ELSE [bits |-> 0, id |-> 0],
      IF tableIDBitSize > 0 /\ rule.args[3] # <<>>
      THEN [bits |-> tableIDBitSize,
            id |-> computeID(table, rule.args[3], rule.args[4], tableIDBitSize)]
      ELSE [bits |-> 0, id |-> 0]>>

computePartitionID(schema, table, rule) ==
    LET part == Parts(schema, table, rule)
        Shift(i) == IdBits - FoldLeft(LAMBDA acc, p : acc + p.bits, 0, SubSeq(part, 1, i))
    IN IF \E i \in DOMAIN part : part[i].id = Failed THEN Failed
       ELSE [i \in DOMAIN part |-> part[i].id * 2 ^ Shift(i)]

\* partitionID: the ID of a row whose own ID is origin.
partitionID(info, origin) ==
    IF origin >= MaxOriginID \/ origin < 0 THEN Failed
    ELSE info.ids[1] | (info.ids[2] | (info.ids[3] | origin))

-----------------------------------------------------------------------------
Ignored == [ignore |-> TRUE]

\* What the rules that match come to.  Table rules come before schema rules,
\* and only one may apply.
TableRules(rules) == SelectSeq(rules, LAMBDA r : r.table # <<>>)

Chosen(rules, table) ==
    IF table = <<>> \/ TableRules(rules) = <<>> THEN SelectSeq(rules, LAMBDA r : r.table = <<>>)
    ELSE TableRules(rules)

IDsOf(schema, table, rule) ==
    IF rule.expr = "partition id" THEN computePartitionID(schema, table, rule) ELSE <<0, 0, 0>>

InfoOfRule(schema, table, rule) ==
    IF rule.column \in Columns /\ IDsOf(schema, table, rule) # Failed
    THEN [ignore |-> FALSE, rule |-> rule, ids |-> IDsOf(schema, table, rule)] ELSE Failed

InfoOfRules(rules, schema, table) ==
    CASE rules = <<>> -> Ignored
      [] rules # <<>> /\ Len(Chosen(rules, table)) = 1 ->
            InfoOfRule(schema, table, Chosen(rules, table)[1])
      [] OTHER -> Failed

\* queryColumnInfo between the two uses of its cache.
InfoOf(sel, schema, table) == InfoOfRules(FindRules(sel, schema, table), schema, table)

VARIABLES
    mapSel,     \* the selector
    infos,      \* cache.infos
    writer,     \* the rule change that has emptied the cache
    caller,     \* what each caller is doing in queryColumnInfo
    overlap     \* history: a query ran while a rule was being changed

mapVars == <<mapSel, infos, writer, caller, overlap>>

MapInit ==
    /\ mapSel = NewTrieSelector /\ infos = <<>> /\ overlap = FALSE
    /\ writer = Idle /\ caller = [c \in Callers |-> Idle]

resetCache == infos' = <<>>

\* Mutant: the cache is not emptied.
MutStartChange ==
    /\ writer = Idle
    /\ \E r \in MappingRules, op \in {"insert", "replace", "remove"} : writer' = [op |-> op, rule |-> r]
    /\ overlap' = (overlap \/ \E c \in Callers : caller[c] # Idle)
    /\ UNCHANGED <<mapSel, infos, caller>>

\* addOrUpdateRule (AddRule, UpdateRule) and RemoveRule, first half.
StartChange ==
    /\ writer = Idle
    /\ \E r \in MappingRules, op \in {"insert", "replace", "remove"} : writer' = [op |-> op, rule |-> r]
    /\ overlap' = (overlap \/ \E c \in Callers : caller[c] # Idle)
    /\ resetCache
    /\ UNCHANGED <<mapSel, caller>>

\* The second half: the trie.
FinishChange ==
    /\ writer # Idle
    /\ LET r == writer.rule
       IN mapSel' = IF writer.op = "remove" THEN RemoveRules(mapSel, r.schema, r.table)
                    ELSE InsertRule(mapSel, r.schema, r.table, r, writer.op)
    /\ writer' = Idle
    /\ UNCHANGED <<infos, caller, overlap>>

\* queryColumnInfo misses the cache.
QueryMiss(c) ==
    /\ caller[c] = Idle
    /\ \E k \in MappedTables : k \notin DOMAIN infos /\ caller' = [caller EXCEPT ![c] = [at |-> "missed", key |-> k]]
    /\ overlap' = (overlap \/ writer # Idle)
    /\ UNCHANGED <<mapSel, infos, writer>>

\* It finds the rules, and returns when they are in error.
QueryMatch(c) ==
    /\ caller[c] # Idle /\ caller[c].at = "missed"
    /\ LET k == caller[c].key
           info == InfoOf(mapSel, k[1], k[2])
       IN caller' = [caller EXCEPT ![c] =
                        IF info = Failed THEN Idle ELSE [at |-> "found", key |-> k, info |-> info]]
    /\ UNCHANGED <<mapSel, infos, writer, overlap>>

\* It stores what it found.
QueryStore(c) ==
    /\ caller[c] # Idle /\ caller[c].at = "found"
    /\ infos' = (caller[c].key :> caller[c].info) @@ infos
    /\ caller' = [caller EXCEPT ![c] = Idle]
    /\ UNCHANGED <<mapSel, writer, overlap>>

\* HandleDDL of a table that has a rule.
HandleDDL ==
    /\ \E k \in DOMAIN infos : ~infos[k].ignore
    /\ resetCache
    /\ UNCHANGED <<mapSel, writer, caller, overlap>>

MapNext ==
    \/ StartChange \/ FinishChange \/ HandleDDL
    \/ \E c \in Callers : QueryMiss(c) \/ QueryMatch(c) \/ QueryStore(c)

-----------------------------------------------------------------------------
\* As long as no query overlapped with a change of the rules, what the cache
\* says of a table is what the rules of now say of it.
MappingFresh ==
    ~overlap => \A k \in DOMAIN infos : writer = Idle => infos[k] = InfoOf(mapSel, k[1], k[2])

\* Rows of different shards that a partition rule maps never get the same ID:
\* equal IDs are of rows with the same ID in shards with the same numbers.  The
\* table named by the prefix alone counts as number 0, as the code has it.
ShardIdsDistinct ==
    \A j, k \in DOMAIN infos :
        /\ ~infos[j].ignore /\ ~infos[k].ignore
        /\ infos[j].rule = infos[k].rule /\ infos[j].rule.expr = "partition id"
        => LET Mapped(info) == {o \in 0 .. 2 ^ IdBits - 1 : partitionID(info, o) # Failed}
           IN \A o \in Mapped(infos[j]), p \in Mapped(infos[k]) :
                partitionID(infos[j], o) = partitionID(infos[k], p)
                  => o = p /\ Parts(j[1], j[2], infos[j].rule) = Parts(k[1], k[2], infos[k].rule)
=============================================================================
