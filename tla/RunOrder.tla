------------------------------ MODULE RunOrder ------------------------------
(***************************************************************************)
(* What the table sync step promises, whatever groups, phases and slots    *)
(* it goes through: each config of the plan is synced at most once, only   *)
(* when every table it depends on has been inserted, at most               *)
(* MaxConcurrency at a time and none once the step is over; and the step   *)
(* is a success only when every config is written.                         *)
(***************************************************************************)
EXTENDS ExecutionGroups

CONSTANTS Plans, MaxConcurrency

VARIABLES plan, syncing, written, failed, outcome

orderVars == <<plan, syncing, written, failed, outcome>>

(* The inserts of the tables a config depends on.                          *)
Needs(p, c) ==
  {d \in DOMAIN p : p[d].type = "insert" /\ p[d].table \in DepTables(p, c)}

(* A plan without a config that can go first is refused at once.           *)
OrderInit ==
  /\ plan \in Plans
  /\ syncing = {} /\ written = {} /\ failed = {}
  /\ outcome = IF DOMAIN plan # {} /\ \A c \in DOMAIN plan : plan[c].deps # {}
               THEN "failed" ELSE "running"

StartSync(c) ==
  /\ outcome = "running"
  /\ c \notin syncing \cup written \cup failed
  /\ Needs(plan, c) \subseteq written
  /\ Cardinality(syncing) < MaxConcurrency
  /\ syncing' = syncing \cup {c}
  /\ UNCHANGED <<plan, written, failed, outcome>>

EndSync(c) ==
  /\ c \in syncing
  /\ syncing' = syncing \ {c}
  /\ \/ written' = written \cup {c} /\ UNCHANGED failed
     \/ failed' = failed \cup {c} /\ UNCHANGED written
  /\ UNCHANGED <<plan, outcome>>

FinishStep ==
  /\ outcome = "running"
  /\ \/ outcome' = "synced" /\ written = DOMAIN plan
     \/ outcome' = "failed"
  /\ UNCHANGED <<plan, syncing, written, failed>>

OrderNext ==
  \/ \E c \in DOMAIN plan : StartSync(c) \/ EndSync(c)
  \/ FinishStep

OrderSpec == OrderInit /\ [][OrderNext]_orderVars
=============================================================================
