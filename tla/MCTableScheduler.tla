-------------------------- MODULE MCTableScheduler --------------------------
(***************************************************************************)
(* TableScheduler on the plans of a few schemas, each with a difficulty of *)
(* its own.                                                                *)
(***************************************************************************)
EXTENDS TableScheduler

(* The order of the names of the tables.                                   *)
Before(t, u) == <<t, u>> \in {<<"a", "b">>, <<"a", "c">>, <<"b", "c">>}

(* A foreign key of one column; the parent is referenced by its key.       *)
Fk(col, parent, notNull) ==
  [parent |-> parent, cols |-> {[col |-> col, ref |-> "id", notNull |-> notNull]}]

SchemaOf(fks, roots) ==
  [cols  |-> [t \in DOMAIN fks |-> {"id", "name"} \cup UNION {ColsOf(f.cols) : f \in Range(fks[t])}],
   pk    |-> [t \in DOMAIN fks |-> {"id"}],
   fks   |-> fks,
   roots |-> roots,
   moved |-> {}]

(* a <- b, a <- c, {b, c} <- d: no cycle.                                  *)
Diamond ==
  SchemaOf([a |-> << >>,
            b |-> <<Fk("a_id", "a", TRUE)>>,
            c |-> <<Fk("a_id", "a", FALSE)>>,
            d |-> <<Fk("b_id", "b", TRUE), Fk("c_id", "c", TRUE)>>], {})

(* Two cycles that share m, and a table that depends on one end of them.   *)
SharedTable ==
  SchemaOf([k |-> <<Fk("m_id", "m", FALSE)>>,
            m |-> <<Fk("k_id", "k", TRUE), Fk("s_id", "s", FALSE)>>,
            s |-> <<Fk("m_id", "m", TRUE)>>,
            x |-> <<Fk("k_id", "k", TRUE)>>], {})

(* A tree of employees that a table on a cycle references.                 *)
SelfReference ==
  SchemaOf([e |-> <<Fk("boss_id", "e", FALSE)>>,
            f |-> <<Fk("e_id", "e", TRUE), Fk("g_id", "g", FALSE)>>,
            g |-> <<Fk("f_id", "f", TRUE)>>], {})

(* A subset of a: b, which references a and c, both nullable, gets two     *)
(* update passes.                                                          *)
TwoUpdates ==
  SchemaOf([a |-> << >>,
            b |-> <<Fk("a_id", "a", FALSE), Fk("c_id", "c", FALSE)>>,
            c |-> << >>], {"a"})

(* The plans of these schemas, and of every small one.                     *)
FourSchemas == {Diamond, SharedTable, SelfReference, TwoUpdates}


(* A foreign key references a column the parent has.                      *)
ReferencesExist(s) ==
  \A t \in DOMAIN s.fks : \A k \in Range(s.fks[t]) : RefsOf(k.cols) \subseteq s.cols[k.parent]

(* A table's foreign keys, at most one to each table of a set: those whose *)
(* parent is in null are nullable, those in notNull are not, and those in  *)
(* crossed reference a column of the parent that is a foreign key itself.  *)
Keys(t, null, notNull, crossed) ==
  LET parents == null \cup notNull
      Rank(p) == Cardinality({q \in parents : Before(q, p)})
      Col(p)  == p \o "_id"
  IN  [i \in 1..Cardinality(parents) |->
         LET p == CHOOSE q \in parents : Rank(q) = i - 1
         IN  [parent |-> p,
              cols   |-> {[col |-> Col(p), ref |-> IF p \in crossed THEN Col(t) ELSE "id",
                           notNull |-> p \in notNull]}]]

Disjoint(S) == {T \in (SUBSET S) \X (SUBSET S) : T[1] \cap T[2] = {}}

(* Every schema of three tables that each reference one other, by a        *)
(* nullable or a NOT NULL key: rings of three, and of two with a tail.     *)
ThreeTables ==
  LET Choices(t) == {Keys(t, T[1], T[2], {}) : T \in Disjoint({"a", "b", "c"} \ {t})}
  IN  {SchemaOf([a |-> k[1], b |-> k[2], c |-> k[3]], {}) :
         k \in {l \in Choices("a") \X Choices("b") \X Choices("c") :
                  Len(l[1]) = 1 /\ Len(l[2]) = 1 /\ Len(l[3]) = 1}}

(* Every schema of two tables that may also reference themselves, and the  *)
(* foreign key of the other; with or without a where clause on each, and   *)
(* with or without a transformer on every key.                             *)
TwoTables ==
  LET Choices(t) == {Keys(t, T[1], T[2], X) : T \in Disjoint({"a", "b"}), X \in SUBSET ({"a", "b"} \ {t})}
      Plain(roots) == {SchemaOf([a |-> x, b |-> y], roots) : x \in Choices("a"), y \in Choices("b")}
  IN  {[s EXCEPT !.moved = m] : s \in UNION {Plain(roots) : roots \in SUBSET {"a", "b"}},
                                m \in {{}, {"a", "b"} \X {"id"}}}

MCPlans ==
  BuildRunConfigs(FourSchemas \cup {s \in ThreeTables \cup TwoTables : ReferencesExist(s)})

UpdatePlans == BuildRunConfigs({TwoUpdates})
=============================================================================
