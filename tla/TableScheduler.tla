--------------------------- MODULE TableScheduler ---------------------------
(***************************************************************************)
(* The table sync step of a datasync run: Workflow's loops over the run    *)
(* configs (datasync/workflow/workflow.go) with the GroupCompletionTracker *)
(* that says which config may start.                                       *)
(*                                                                         *)
(* One process is the workflow itself, main; each started config has a     *)
(* goroutine that waits for its child workflow; one more polls the status  *)
(* of the account. Temporal runs one goroutine of a workflow at a time,    *)
(* and the others only move while main is blocked: in Select, or in the    *)
(* activity a select handler waits for.                                    *)
(***************************************************************************)
EXTENDS ExecutionGroups

CONSTANTS
  Plans,            \* the run configs a run may be given
  MaxConcurrency,   \* TABLESYNC_MAX_CONCURRENCY
  None              \* no config

(* The configs of a plan are finitely many, and one at most inserts the    *)
(* rows of a table.                                                        *)
ASSUME PlansAssumption ==
  \A p \in Plans :
    /\ IsFiniteSet(DOMAIN p)
    /\ None \notin DOMAIN p
    /\ \A c, d \in DOMAIN p :
         /\ p[c].type = "insert" /\ p[d].type = "insert"
         /\ p[c].table = p[d].table
         => c = d

ASSUME ConcurrencyAssumption == MaxConcurrency \in Nat \ {0}

VARIABLES
  plan,             \* bcResp.BenthosConfigs
  groups,           \* executionGroups
  completedConfigs, \* the tracker: the configs marked complete
  groupCount,       \*   CompletedCount of each group
  insertsDone,      \*   InsertPhaseComplete of each group
  pc,               \* where main is
  site,             \* which of the three Select calls main is in
  todo,             \* the configs the current loop has not come to yet
  next,             \* the config that waits for a free slot, or None
  child,            \* the goroutine of each config
  inFlight,
  completedCount,
  counted,          \* the configs whose rows were added to the totals
  activityErr,      \* "none", "table" or "account"
  canceled,         \* ctx.Err() # nil
  poller            \* the account status goroutine

trackerVars == <<completedConfigs, groupCount, insertsDone>>
mainVars    == <<pc, site, todo, next, inFlight, completedCount, counted, activityErr>>
vars        == <<plan, groups, trackerVars, mainVars, child, canceled, poller>>

-----------------------------------------------------------------------------
Configs    == DOMAIN plan
Root       == {c \in Configs : plan[c].deps = {}}
Dependents == Configs \ Root
started    == {c \in Configs : child[c] # "idle"}

GroupConfigs(g) == groups[g].inserts \cup groups[g].updates

(* configToGroup                                                           *)
InGroup(c) == CHOOSE g \in DOMAIN groups : c \in GroupConfigs(g)

(* main is blocked, so the other goroutines may run.                       *)
Blocked == pc \in {"select", "post", "cleanup"}

-----------------------------------------------------------------------------
(* The tracker.                                                            *)
NewGroupCompletionTracker ==
  /\ completedConfigs = {}
  /\ groupCount = [g \in DOMAIN groups |-> 0]
  /\ insertsDone = [g \in DOMAIN groups |-> groups[g].inserts = {}]

MarkConfigComplete(c) ==
  /\ completedConfigs' = completedConfigs \cup {c}
  /\ IF c \in completedConfigs
     THEN UNCHANGED <<groupCount, insertsDone>>
     ELSE /\ groupCount' = [groupCount EXCEPT ![InGroup(c)] = @ + 1]
          /\ insertsDone' = [insertsDone EXCEPT ![InGroup(c)] =
                               @ \/ groups[InGroup(c)].inserts \subseteq completedConfigs']

IsGroupComplete(g) == groupCount[g] = Cardinality(GroupConfigs(g))

(* The config of the group that stands for a table: its insert, an update  *)
(* only when it has none.                                                  *)
FindConfigByTable(g, t) ==
  LET inserts == {c \in groups[g].inserts : plan[c].table = t}
      updates == {c \in groups[g].updates : plan[c].table = t}
  IN  IF inserts # {} THEN CHOOSE c \in inserts : TRUE
      ELSE IF updates # {} THEN CHOOSE c \in updates : TRUE
      ELSE None

\* Wrong: no wait for the inserts of a cycle.
StartsInAnyPhase(c) ==
  LET g == InGroup(c)
  IN  /\ \A h \in groups[g].dependsOn : IsGroupComplete(h)
      /\ \A t \in DepTables(plan, c) :
           FindConfigByTable(g, t) \in completedConfigs \cup {None}

CanConfigStart(c) ==
  LET g == InGroup(c)
  IN  /\ \A h \in groups[g].dependsOn : IsGroupComplete(h)
      /\ groups[g].isInCycle /\ plan[c].type = "update" => insertsDone[g]
      /\ \A t \in DepTables(plan, c) :
           FindConfigByTable(g, t) \in completedConfigs \cup {None}

-----------------------------------------------------------------------------
Init ==
  /\ plan \in Plans
  /\ groups = BuildExecutionGroups(plan)
  /\ NewGroupCompletionTracker
  /\ pc = IF Root = {} /\ Dependents # {} THEN "failed" ELSE "roots"
  /\ site = "root"
  /\ todo = Root
  /\ next = None
  /\ child = [c \in Configs |-> "idle"]
  /\ inFlight = 0
  /\ completedCount = 0
  /\ counted = {}
  /\ activityErr = "none"
  /\ canceled = FALSE
  /\ poller = "polling"

(* executeSyncActivity: the goroutine starts and its future joins the      *)
(* selector.                                                               *)
ExecuteSync(c) ==
  /\ child' = [child EXCEPT ![c] = "running"]
  /\ inFlight' = inFlight + 1
  /\ UNCHANGED <<plan, groups, trackerVars, site, completedCount, counted, activityErr, canceled, poller>>

GoTo(l) ==
  /\ pc' = l
  /\ UNCHANGED <<plan, groups, trackerVars, child, inFlight, completedCount, counted,
                 activityErr, canceled, poller>>

(* The loop over the configs that depend on nothing.                       *)
StartRoot(c) ==
  /\ pc = "roots" /\ c \in todo /\ inFlight < MaxConcurrency
  /\ ExecuteSync(c)
  /\ todo' = todo \ {c}
  /\ pc' = IF canceled THEN "failed" ELSE "roots"
  /\ UNCHANGED next

RootsFull ==
  /\ pc = "roots" /\ todo # {} /\ inFlight >= MaxConcurrency
  /\ GoTo("select") /\ site' = "root"
  /\ UNCHANGED <<todo, next>>

RootsSpawned ==
  /\ pc = "roots" /\ todo = {}
  /\ GoTo("drain")
  /\ UNCHANGED <<site, todo, next>>

(* A bug: main asks the tracker if all is done, not its own count.         *)
AllSyncedByTracker ==
  /\ pc = "drain" /\ completedConfigs = Configs
  /\ GoTo("synced")
  /\ UNCHANGED <<site, todo, next>>

(* The head of the main loop: every config is done, or wait for an event.  *)
AllSynced ==
  /\ pc = "drain" /\ completedCount = Cardinality(Configs)
  /\ GoTo("synced")
  /\ UNCHANGED <<site, todo, next>>

AwaitEvent ==
  /\ pc = "drain" /\ completedCount # Cardinality(Configs)
  /\ GoTo("select") /\ site' = "main"
  /\ UNCHANGED <<todo, next>>

(* A bug: the loop waits at a config until it is ready.                    *)
InsistNotReady(c) ==
  /\ pc = "scan" /\ c \in todo /\ ~ CanConfigStart(c)
  /\ GoTo("scan")
  /\ UNCHANGED <<site, todo, next>>

(* The loop over the other configs that follows an event.                  *)
SkipNotReady(c) ==
  /\ pc = "scan" /\ c \in todo /\ ~ CanConfigStart(c)
  /\ GoTo("scan")
  /\ todo' = todo \ {c}
  /\ UNCHANGED <<site, next>>

(* A bug: the limit is off by one.                                         *)
StartDependentOverLimit(c) ==
  /\ pc = "scan" /\ c \in todo /\ CanConfigStart(c) /\ inFlight <= MaxConcurrency
  /\ ExecuteSync(c)
  /\ todo' = todo \ {c}
  /\ UNCHANGED <<pc, next>>

StartDependent(c) ==
  /\ pc = "scan" /\ c \in todo /\ CanConfigStart(c) /\ inFlight < MaxConcurrency
  /\ ExecuteSync(c)
  /\ todo' = todo \ {c}
  /\ UNCHANGED <<pc, next>>

(* Ready, and no slot is free: main waits for one event, once.             *)
DependentsFull(c) ==
  /\ pc = "scan" /\ c \in todo /\ CanConfigStart(c) /\ inFlight >= MaxConcurrency
  /\ GoTo("select") /\ site' = "scan"
  /\ todo' = todo \ {c}
  /\ next' = c

StartNext ==
  /\ pc = "spawn"
  /\ ExecuteSync(next)
  /\ next' = None
  /\ pc' = "scan"
  /\ UNCHANGED todo

ScanEnds ==
  /\ pc = "scan" /\ todo = {}
  /\ GoTo("drain")
  /\ UNCHANGED <<site, todo, next>>

-----------------------------------------------------------------------------
(* Select returns: main leaves with the error there is, or goes on from    *)
(* the call it made.                                                       *)
AfterSelect(failing) ==
  /\ pc' = IF failing THEN "failed"
           ELSE CASE site = "root" -> "roots"
                  [] site = "main" -> "scan"
                  [] site = "scan" -> "spawn"
  /\ todo' = IF site = "main" THEN Dependents \ started ELSE todo
  /\ UNCHANGED <<site, next>>

(* The handler of a config's future. A success adds to the totals and      *)
(* waits for the post table sync activity.                                 *)
HandleSynced(c) ==
  /\ pc = "select" /\ child[c] = "ok"
  /\ child' = [child EXCEPT ![c] = "handled"]
  /\ inFlight' = inFlight - 1
  /\ completedCount' = completedCount + 1
  /\ counted' = counted \cup {c}
  /\ pc' = "post"
  /\ UNCHANGED <<plan, groups, trackerVars, site, todo, next, activityErr, canceled, poller>>

(* A failure cancels the rest and waits for the redis clean up.            *)
HandleFailed(c) ==
  /\ pc = "select" /\ child[c] = "err"
  /\ child' = [child EXCEPT ![c] = "failed"]
  /\ inFlight' = inFlight - 1
  /\ completedCount' = completedCount + 1
  /\ activityErr' = "table"
  /\ canceled' = TRUE
  /\ pc' = "cleanup"
  /\ UNCHANGED <<plan, groups, trackerVars, site, todo, next, counted, poller>>

(* A bug: no look at ctx.Err() once a handler is through.                  *)
HandlerEndsCanceled ==
  /\ pc \in {"post", "cleanup"}
  /\ AfterSelect(activityErr # "none")
  /\ UNCHANGED <<plan, groups, trackerVars, child, inFlight, completedCount, counted,
                 activityErr, canceled, poller>>

HandlerEnds ==
  /\ pc \in {"post", "cleanup"}
  /\ AfterSelect(activityErr # "none" \/ canceled)
  /\ UNCHANGED <<plan, groups, trackerVars, child, inFlight, completedCount, counted,
                 activityErr, canceled, poller>>

(* The stop the account status goroutine sends on its unbuffered channel.  *)
HandleStop ==
  /\ pc = "select" /\ poller = "sending"
  /\ poller' = "gone"
  /\ activityErr' = "account"
  /\ canceled' = TRUE
  /\ AfterSelect(TRUE)
  /\ UNCHANGED <<plan, groups, trackerVars, child, inFlight, completedCount, counted>>

-----------------------------------------------------------------------------
(* A child workflow ends. A synced config is marked complete by its own    *)
(* goroutine, before main handles the future.                              *)
ChildSynced(c) ==
  /\ Blocked /\ child[c] = "running"
  /\ MarkConfigComplete(c)
  /\ child' = [child EXCEPT ![c] = "ok"]
  /\ UNCHANGED <<plan, groups, mainVars, canceled, poller>>

(* A bug: a config that failed is marked complete too.                     *)
ChildFailsMarked(c) ==
  /\ Blocked /\ child[c] = "running"
  /\ MarkConfigComplete(c)
  /\ child' = [child EXCEPT ![c] = "err"]
  /\ UNCHANGED <<plan, groups, mainVars, canceled, poller>>

ChildFails(c) ==
  /\ Blocked /\ child[c] = "running"
  /\ child' = [child EXCEPT ![c] = "err"]
  /\ UNCHANGED <<plan, groups, trackerVars, mainVars, canceled, poller>>

(* The status activity fails, or says that the account is not valid.       *)
PollerStops ==
  /\ Blocked /\ poller = "polling" /\ ~ canceled
  /\ poller' = "sending"
  /\ UNCHANGED <<plan, groups, trackerVars, mainVars, child, canceled>>

PollerExits ==
  /\ Blocked /\ poller = "polling" /\ canceled
  /\ poller' = "gone"
  /\ UNCHANGED <<plan, groups, trackerVars, mainVars, child, canceled>>

(* A user cancels the job run.                                             *)
CancelRun ==
  /\ Blocked /\ ~ canceled
  /\ canceled' = TRUE
  /\ UNCHANGED <<plan, groups, trackerVars, mainVars, child, poller>>

-----------------------------------------------------------------------------
MainStep ==
  \/ RootsFull \/ RootsSpawned \/ AllSynced \/ AwaitEvent \/ StartNext \/ ScanEnds
  \/ HandlerEnds \/ HandleStop
  \/ \E c \in Configs :
       \/ StartRoot(c) \/ SkipNotReady(c) \/ StartDependent(c) \/ DependentsFull(c)
       \/ HandleSynced(c) \/ HandleFailed(c)

ChildEnds(c) == ChildSynced(c) \/ ChildFails(c)

Over == pc \in {"synced", "failed"}

Next ==
  \/ MainStep
  \/ \E c \in Configs : ChildEnds(c)
  \/ PollerStops \/ PollerExits \/ CancelRun
  \/ Over /\ UNCHANGED vars

(* A child workflow ends, for its activity has a timeout, and Temporal     *)
(* runs main whenever it can go on. Nobody has to cancel, and the account  *)
(* does not have to fail.                                                  *)
Fairness ==
  /\ WF_vars(MainStep)
  /\ \A c \in UNION {DOMAIN p : p \in Plans} : WF_vars(c \in Configs /\ ChildEnds(c))

Spec == Init /\ [][Next]_vars /\ Fairness
-----------------------------------------------------------------------------
(* Type correctness of the scheduler's state, whatever the plan.           *)
TypeOK ==
  /\ completedConfigs \subseteq Configs /\ counted \subseteq Configs /\ todo \subseteq Configs
  /\ groupCount \in [DOMAIN groups -> Nat]
  /\ insertsDone \in [DOMAIN groups -> BOOLEAN]
  /\ pc \in {"roots", "drain", "select", "post", "cleanup", "scan", "spawn", "synced", "failed"}
  /\ site \in {"root", "main", "scan"}
  /\ next \in Configs \cup {None}
  /\ child \in [Configs -> {"idle", "running", "ok", "err", "handled", "failed"}]
  /\ inFlight \in Nat /\ completedCount \in Nat
  /\ activityErr \in {"none", "table", "account"}
  /\ canceled \in BOOLEAN
  /\ poller \in {"polling", "sending", "gone"}

(* A config is only started once every table it depends on has been        *)
(* inserted: by the group rule for a table of another group, by the check  *)
(* of CanConfigStart for one of its own group.                             *)
Inserts(c) == {d \in Configs : plan[d].type = "insert" /\ plan[d].table \in DepTables(plan, c)}

ParentsInserted == \A c \in started : Inserts(c) \subseteq completedConfigs

(* A config that depends on something starts after every pass, updates     *)
(* included, of the groups its group depends on; and an update pass of a   *)
(* cycle after every insert of the cycle.                                  *)
GroupReady(c) ==
  LET g == groups[InGroup(c)]
  IN  /\ \A h \in g.dependsOn : GroupConfigs(h) \subseteq completedConfigs
      /\ g.isInCycle /\ plan[c].type = "update" => g.inserts \subseteq completedConfigs

GroupOrder == \A c \in started \cap Dependents : GroupReady(c)

(* The counter main compares with the limit is the number of syncs it has  *)
(* not heard the end of, and never exceeds the limit: a single wait is     *)
(* enough before a dependent, although it is not in a loop.                *)
Unhandled == {c \in Configs : child[c] \in {"running", "ok", "err"}}

SlotsBounded == inFlight = Cardinality(Unhandled) /\ inFlight <= MaxConcurrency

(* The step ends well only with every config marked complete and counted,  *)
(* and never after a failure, a stop or a cancellation.                    *)
SuccessIsComplete ==
  pc = "synced" => /\ completedConfigs = Configs /\ counted = Configs
                   /\ activityErr = "none" /\ ~ canceled

(* Once the run failed, was stopped or was canceled, no sync is started.   *)
NoStartOnceStopped ==
  [][activityErr # "none" \/ canceled => started' = started]_vars

(* Whatever the plan, the step comes to an end: no order of completions    *)
(* leaves main waiting for an event that cannot come (the loop has a       *)
(* "todo: deadlock detection").                                            *)
StepEnds == <>Over

(* The step does what RunOrder promises.                                   *)
Order == INSTANCE RunOrder WITH
  syncing <- {c \in Configs : child[c] = "running"},
  written <- completedConfigs,
  failed  <- {c \in Configs : child[c] \in {"err", "failed"}},
  outcome <- IF Over THEN pc ELSE "running"

ImplementsRunOrder == Order!OrderSpec

(* Each column a config depends on has been written by the passes that are *)
(* complete. The dependency of an update pass on the update pass before it *)
(* says so (internal/runconfigs/builder.go), and so does the run order the *)
(* plan is validated with.                                                 *)
ColumnsWritten ==
  \A c \in started : AreConfigDependenciesSatisfied(plan, c, completedConfigs)

-----------------------------------------------------------------------------
(* The inductive invariant behind the safety properties: the tracker and   *)
(* the counters of main agree with the goroutines, what main has still to  *)
(* start is idle, and the config that waits for a slot stays startable.    *)
PlanFacts == plan \in Plans /\ groups = BuildExecutionGroups(plan)

TrackerFacts ==
  /\ completedConfigs = {c \in Configs : child[c] \in {"ok", "handled"}}
  /\ \A g \in DOMAIN groups :
       /\ groupCount[g] = Cardinality(completedConfigs \cap GroupConfigs(g))
       /\ insertsDone[g] => groups[g].inserts \subseteq completedConfigs

Handled == {c \in Configs : child[c] \in {"handled", "failed"}}

CountFacts ==
  /\ SlotsBounded
  /\ pc = "spawn" \/ (pc \in {"post", "cleanup"} /\ site = "scan") => inFlight < MaxConcurrency
  /\ completedCount = Cardinality(Handled)

TodoFacts ==
  /\ \A c \in todo : child[c] = "idle"
  /\ pc = "roots" \/ (Blocked /\ site = "root") => todo \subseteq Root

Ready(c) == Inserts(c) \subseteq completedConfigs /\ GroupReady(c)

NextFacts ==
  pc = "spawn" \/ (Blocked /\ site = "scan") =>
    next \in Configs /\ next \notin todo /\ child[next] = "idle" /\ Ready(next)

StopFacts ==
  /\ activityErr # "none" => pc \in {"cleanup", "failed"}
  /\ canceled => Blocked \/ pc = "failed"
  /\ counted = {c \in Configs : child[c] = "handled"}
  /\ activityErr = "none" => \A c \in Configs : child[c] # "failed"
  /\ pc = "synced" => completedCount = Cardinality(Configs)

IndInv ==
  /\ TypeOK /\ TrackerFacts /\ CountFacts /\ TodoFacts /\ NextFacts /\ StopFacts
  /\ ParentsInserted /\ GroupOrder
=============================================================================
