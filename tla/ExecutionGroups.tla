-------------------------- MODULE ExecutionGroups ---------------------------
(***************************************************************************)
(* The execution groups of a run (datasync/workflow/execution_group.go).   *)
(* Tables on a common cycle of dependencies form one group, every other    *)
(* table a group of its own. A group is named by its set of tables; a      *)
(* config by its id, and configs is the function of module RunConfigs.     *)
(***************************************************************************)
EXTENDS RunConfigs

TableOf(configs, c)   == configs[c].table
DepTables(configs, c) == {d.table : d \in configs[c].deps}
TablesOf(configs)     == {TableOf(configs, c) : c \in DOMAIN configs}

(* Which table depends on which other one.                                 *)
ConfigDependencyGraph(configs) ==
  UNION {{TableOf(configs, c)} \X (DepTables(configs, c) \ {TableOf(configs, c)}) :
           c \in DOMAIN configs}

Sharing(cycles) == {e \in cycles \X cycles : e[1] \cap e[2] # {}}

(* A bug: cycles that share a table stay apart.                            *)
UnmergedCycles(cycles) == cycles

(* Each cycle joined with those linked to it by a chain of cycles that     *)
(* share a table.                                                          *)
MergeCyclesWithSharedTables(cycles) ==
  {UNION Closure(cycles, Sharing(cycles), {C}) : C \in cycles}

MergedCycles(configs) ==
  MergeCyclesWithSharedTables(
    FindCircularDependencies(TablesOf(configs), ConfigDependencyGraph(configs)))

(* tableToCycle, with the table alone when it is on no cycle.              *)
GroupOfTable(merged, t) ==
  IF \E C \in merged : t \in C THEN CHOOSE C \in merged : t \in C ELSE {t}

(* The other groups with a table that some config of group g depends on.   *)
(* A table of g's own cycle asks for none.                                 *)
GroupDependencies(configs, merged, ids, g) ==
  {h \in ids :
     /\ h # g
     /\ \E c \in DOMAIN configs :
          /\ GroupOfTable(merged, TableOf(configs, c)) = g
          /\ \E t \in DepTables(configs, c) \cap h :
               t # TableOf(configs, c) /\ ~ (g \in merged /\ t \in g)}

BuildExecutionGroups(configs) ==
  LET merged == MergedCycles(configs)
      ids    == {GroupOfTable(merged, t) : t \in TablesOf(configs)}
      Pass(g, type) == {c \in DOMAIN configs : /\ GroupOfTable(merged, TableOf(configs, c)) = g
                                               /\ (configs[c].type = "insert") = (type = "insert")}
  IN  [g \in ids |->
         [inserts    |-> Pass(g, "insert"),
          updates    |-> Pass(g, "update"),
          dependsOn  |-> GroupDependencies(configs, merged, ids, g),
          isInCycle  |-> g \in merged]]
=============================================================================
