----------------------------- MODULE ShardMerge -----------------------------
(***************************************************************************)
(* The libraries that a merge of sharded tables is built of: the filter of *)
(* binlog events, the mapping of column values, the filter and router of   *)
(* tables and the join of table structures.  They call each other only     *)
(* through the selector (which each has an instance of) and share no       *)
(* state, so that a behaviour is one of any of them, chosen at the start   *)
(* (a filter of tables does not change, it is only asked).                 *)
(***************************************************************************)
EXTENDS BinlogFilter, ColumnMapping, TableRouter, SchemaLattice

VARIABLE part

allVars == <<part, filterVars, mapVars, routerVars, latticeVars>>

MergeInit ==
    /\ part \in {"events", "mapping", "tables", "router", "lattice"}
    /\ FilterInit /\ MapInit /\ routes = <<>>
    /\ IF part = "tables" THEN ruleSet \in RuleSets ELSE ruleSet = NoRules
    /\ IF part = "lattice" THEN LatticeInit ELSE shards = <<>> /\ joined = Nobody

MergeNext ==
    /\ UNCHANGED part
    /\ \/ part = "events" /\ FilterNext /\ UNCHANGED <<mapVars, routerVars, latticeVars>>
       \/ part = "mapping" /\ MapNext /\ UNCHANGED <<filterVars, routerVars, latticeVars>>
       \/ part = "router" /\ RouterNext /\ UNCHANGED <<filterVars, mapVars, latticeVars>>
       \/ part = "lattice" /\ LatticeNext /\ UNCHANGED <<filterVars, mapVars, routerVars>>

MergeSpec == MergeInit /\ [][MergeNext]_allVars
=============================================================================
