----------------------------- MODULE RunConfigs -----------------------------
(***************************************************************************)
(* How a job's tables become sync passes (internal/runconfigs).            *)
(*                                                                         *)
(* A schema is a record                                                    *)
(*   cols   [Tables -> SUBSET Column]  the mapped columns of each table    *)
(*   pk     [Tables -> SUBSET Column]  its primary key                     *)
(*   fks    [Tables -> Seq(ForeignKey)] its foreign keys, in the order     *)
(*          sortForeignConstraints gives them                              *)
(*   roots  SUBSET Tables              the tables with a where clause      *)
(*   moved  SUBSET (Tables \X Column)  the referenced columns a            *)
(*          transformer changes                                            *)
(* where a foreign key is [parent, cols], cols a set of                    *)
(* [col, ref, notNull]: a column, the column of the parent it references   *)
(* and whether it is NOT NULL.                                             *)
(*                                                                         *)
(* The run configs of a job are a function from their ids to records       *)
(*   [table, type, cols, deps]: one pass over one table, "insert" or       *)
(* "update", the columns it writes and the set of [table, cols] it depends *)
(* on. The id is <<table, "insert", 0>> or <<table, "update", n>>.         *)
(***************************************************************************)
EXTENDS Naturals, Sequences, FiniteSets, Functions

(***************************************************************************)
(* The elementary cycles of a graph, each as its set of tables: the DFS of *)
(* FindCircularDependencies lists every simple path that comes back to its *)
(* start and uniqueCycles keeps one per set of tables.                     *)
(***************************************************************************)
FindCircularDependencies(nodes, edges) ==
  {C \in SUBSET nodes \ {{}} :
     \E walk \in Bijection(1..Cardinality(C), C) :
       \A i \in DOMAIN walk :
         <<walk[i], walk[(i % Cardinality(C)) + 1]>> \in edges}

(* The smallest set that holds seed and what its members lead to.          *)
Closure(nodes, edges, seed) ==
  {n \in nodes :
     \A F \in SUBSET nodes :
       (seed \subseteq F /\ \A x \in F, y \in nodes : <<x, y>> \in edges => y \in F)
         => n \in F}

FkEdges(s) ==
  UNION {{<<t, s.fks[t][i].parent>> : i \in DOMAIN s.fks[t]} : t \in DOMAIN s.fks}

CircularTables(s) == UNION FindCircularDependencies(DOMAIN s.fks, FkEdges(s))

(* The tables with a subset path: a root, or a table that references one,  *)
(* directly or through others.                                             *)
SubsetTables(s) ==
  Closure(DOMAIN s.fks, {<<e[2], e[1]>> : e \in FkEdges(s)}, s.roots)

-----------------------------------------------------------------------------
(* A column that holds a key a transformer changes is written with its row,*)
(* unless its table is in a cycle.                                         *)
MustFollowParent(s, t, fk, p) ==
  t \notin CircularTables(s) /\ <<fk.parent, p.ref>> \in s.moved

WithRow(s, t, fk) == {p \in fk.cols : p.notNull \/ MustFollowParent(s, t, fk, p)}
Later(s, t, fk)   == fk.cols \ WithRow(s, t, fk)

ColsOf(pairs) == {p.col : p \in pairs}
RefsOf(pairs) == {p.ref : p \in pairs}

(* One pass that writes the whole row, after every other table it          *)
(* references.                                                             *)
BuildInsertConfig(s, t) ==
  [table |-> t, type |-> "insert", cols |-> s.cols[t],
   deps  |-> {[table |-> fk.parent, cols |-> RefsOf(fk.cols)] :
                fk \in {f \in Range(s.fks[t]) : f.parent # t}}]

(* The columns of no foreign key and the columns written with the row; a   *)
(* table waits for the others its row references, never for itself.        *)
BuildRowConfig(s, t) ==
  LET all     == Range(s.fks[t])
      inKey   == UNION {ColsOf(fk.cols) : fk \in all}
      waited  == {fk \in all : fk.parent # t /\ WithRow(s, t, fk) # {}}
  IN  [table |-> t, type |-> "insert",
       cols  |-> s.pk[t] \cup UNION {ColsOf(WithRow(s, t, fk)) : fk \in all}
                         \cup (s.cols[t] \ inKey),
       deps  |-> {[table |-> fk.parent, cols |-> RefsOf(WithRow(s, t, fk))] : fk \in waited}]

(* The foreign keys of a table that an update pass completes, in order.    *)
Deferred(s, t) == SelectSeq(s.fks[t], LAMBDA fk : Later(s, t, fk) # {})

(* The n-th update pass fills the nullable columns of the n-th deferred    *)
(* key. It depends on the referenced table, on the insert of its own table *)
(* and on the update pass before it.                                       *)
BuildUpdateConfig(s, t, n) ==
  LET fk      == Deferred(s, t)[n]
      Cols(i) == ColsOf(Later(s, t, Deferred(s, t)[i]))
  IN  [table |-> t, type |-> "update", cols |-> Cols(n),
       deps  |-> {[table |-> fk.parent, cols |-> RefsOf(Later(s, t, fk))]}
            \cup (IF fk.parent = t THEN {} ELSE {[table |-> t, cols |-> s.pk[t]]})
            \cup (IF n = 1 THEN {} ELSE {[table |-> t, cols |-> Cols(n - 1)]})]

HandlesConstraints(s, t) == t \in CircularTables(s) \cup SubsetTables(s)

ConfigIds(s) ==
  LET tables == DOMAIN s.fks
  IN  {<<t, "insert", 0>> : t \in tables}
      \cup UNION {{<<t, "update", n>> : n \in 1..Len(Deferred(s, t))} :
                    t \in {u \in tables : HandlesConstraints(s, u)}}

BuildConfigs(s) ==
  [id \in ConfigIds(s) |->
     IF id[2] = "update" THEN BuildUpdateConfig(s, id[1], id[3])
     ELSE IF HandlesConstraints(s, id[1]) THEN BuildRowConfig(s, id[1])
     ELSE BuildInsertConfig(s, id[1])]

-----------------------------------------------------------------------------
(* Every column a config depends on has been written, and at least one     *)
(* pass over its table is done; done is a set of ids of configs.           *)
AreConfigDependenciesSatisfied(configs, c, done) ==
  \A d \in configs[c].deps :
    LET over == {e \in done : configs[e].table = d.table}
    IN  over # {} /\ d.cols \subseteq UNION {configs[e].cols : e \in over}

(* Passes over the configs, each taking those whose dependencies are       *)
(* satisfied, until a pass takes none.                                     *)
IsValidRunOrder(configs) ==
  LET ids == DOMAIN configs
      taken[n \in Nat] ==
        IF n = 0 THEN {}
        ELSE LET done == taken[n - 1]
             IN  done \cup {c \in ids : AreConfigDependenciesSatisfied(configs, c, done)}
  IN  taken[Cardinality(ids)] = ids

(* What BuildRunConfigs accepts: other schemas are refused, as circular    *)
(* without a nullable foreign key.                                         *)
BuildRunConfigs(schemas) ==
  {configs \in {BuildConfigs(s) : s \in schemas} : IsValidRunOrder(configs)}
=============================================================================
