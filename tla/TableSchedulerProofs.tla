------------------------ MODULE TableSchedulerProofs ------------------------
(***************************************************************************)
(* What TableScheduler guarantees for every plan and every limit.          *)
(***************************************************************************)
EXTENDS TableScheduler, FiniteSetTheorems, TLAPS

-----------------------------------------------------------------------------
(* Merged cycles have no table in common: this is what makes the group of  *)
(* a table unique.                                                         *)

(* The cycles linked to one another are a closed family.                   *)
LEMMA LinkedClosed ==
  ASSUME NEW Cs, NEW C \in Cs
  PROVE  /\ C \in Closure(Cs, Sharing(Cs), {C})
         /\ Closure(Cs, Sharing(Cs), {C}) \subseteq Cs
         /\ \A x \in Closure(Cs, Sharing(Cs), {C}), y \in Cs :
              <<x, y>> \in Sharing(Cs) => y \in Closure(Cs, Sharing(Cs), {C})
BY DEF Closure

(* Being linked is symmetric and transitive.                               *)
LEMMA LinkedEqual ==
  ASSUME NEW Cs, NEW C \in Cs, NEW D \in Closure(Cs, Sharing(Cs), {C})
  PROVE  Closure(Cs, Sharing(Cs), {D}) = Closure(Cs, Sharing(Cs), {C})
<1> DEFINE LC == Closure(Cs, Sharing(Cs), {C})
           LD == Closure(Cs, Sharing(Cs), {D})
<1>0. D \in Cs /\ D \in LC
  BY LinkedClosed
<1>1. LD \subseteq LC
  <2>1. LC \in SUBSET Cs /\ {D} \subseteq LC
    BY LinkedClosed, <1>0
  <2>2. \A x \in LC, y \in Cs : <<x, y>> \in Sharing(Cs) => y \in LC
    BY LinkedClosed
  <2> QED BY <2>1, <2>2 DEF Closure
<1>2. C \in LD
  <2> SUFFICES ASSUME C \notin LD PROVE FALSE
    OBVIOUS
  <2> DEFINE F == Cs \ LD
  <2>1. F \in SUBSET Cs /\ {C} \subseteq F
    OBVIOUS
  <2>2. \A x \in F, y \in Cs : <<x, y>> \in Sharing(Cs) => y \in F
    <3> SUFFICES ASSUME NEW x \in F, NEW y \in Cs, <<x, y>> \in Sharing(Cs), y \in LD PROVE FALSE
      OBVIOUS
    <3>1. <<y, x>> \in Sharing(Cs)
      BY DEF Sharing
    <3> QED BY <3>1, <1>0, LinkedClosed
  <2>3. D \in F
    BY <2>1, <2>2, <1>0 DEF Closure
  <2> QED BY <2>3, <1>0, LinkedClosed
<1>3. LC \subseteq LD
  <2>1. LD \in SUBSET Cs /\ {C} \subseteq LD
    BY LinkedClosed, <1>0, <1>2
  <2>2. \A x \in LD, y \in Cs : <<x, y>> \in Sharing(Cs) => y \in LD
    BY LinkedClosed, <1>0
  <2> QED BY <2>1, <2>2 DEF Closure
<1> QED BY <1>1, <1>3

LEMMA MergedDisjoint ==
  ASSUME NEW Cs, NEW A \in MergeCyclesWithSharedTables(Cs),
         NEW B \in MergeCyclesWithSharedTables(Cs), NEW t \in A \cap B
  PROVE  A = B
<1>1. PICK C \in Cs : A = UNION Closure(Cs, Sharing(Cs), {C})
  BY DEF MergeCyclesWithSharedTables
<1>2. PICK D \in Cs : B = UNION Closure(Cs, Sharing(Cs), {D})
  BY DEF MergeCyclesWithSharedTables
<1>3. PICK X \in Closure(Cs, Sharing(Cs), {C}) : t \in X
  BY <1>1
<1>4. PICK Y \in Closure(Cs, Sharing(Cs), {D}) : t \in Y
  BY <1>2
<1>5. Y \in Cs /\ <<X, Y>> \in Sharing(Cs)
  BY <1>2, <1>3, <1>4, LinkedClosed DEF Sharing
<1>6. Y \in Closure(Cs, Sharing(Cs), {C})
  BY <1>1, <1>3, <1>5, LinkedClosed
<1>7. Closure(Cs, Sharing(Cs), {Y}) = Closure(Cs, Sharing(Cs), {C})
  BY <1>1, <1>6, LinkedEqual
<1>8. Closure(Cs, Sharing(Cs), {Y}) = Closure(Cs, Sharing(Cs), {D})
  BY <1>2, <1>4, LinkedEqual
<1> QED BY <1>1, <1>2, <1>7, <1>8

-----------------------------------------------------------------------------
(* The groups of a plan.                                                   *)
LEMMA GroupOfTableFacts ==
  ASSUME NEW Cs, NEW t
  PROVE  LET merged == MergeCyclesWithSharedTables(Cs)
         IN  /\ t \in GroupOfTable(merged, t)
             /\ \A g \in merged : t \in g => GroupOfTable(merged, t) = g
<1> DEFINE merged == MergeCyclesWithSharedTables(Cs)
<1>1. \A A, B \in merged : t \in A /\ t \in B => A = B
  BY MergedDisjoint
<1>2. t \in GroupOfTable(merged, t)
  BY DEF GroupOfTable
<1>3. ASSUME NEW g \in merged, t \in g PROVE GroupOfTable(merged, t) = g
  BY <1>1, <1>3 DEF GroupOfTable
<1> QED BY <1>2, <1>3

(* Each config is in the one group of its table, and a table that another  *)
(* config depends on is in that config's group or in one it waits for.     *)
LEMMA GroupFacts ==
  ASSUME PlanFacts
  PROVE  /\ \A g \in DOMAIN groups :
              /\ GroupConfigs(g) \subseteq Configs
              /\ groups[g].dependsOn \subseteq DOMAIN groups
              /\ \A c \in groups[g].inserts : plan[c].type = "insert"
              /\ \A c \in groups[g].updates : plan[c].type # "insert"
         /\ \A c \in Configs :
              /\ InGroup(c) \in DOMAIN groups /\ c \in GroupConfigs(InGroup(c))
              /\ \A g \in DOMAIN groups : c \in GroupConfigs(g) => g = InGroup(c)
         /\ \A c, d \in Configs :
              plan[d].table \in DepTables(plan, c) =>
                \/ InGroup(d) = InGroup(c)
                \/ InGroup(d) \in groups[InGroup(c)].dependsOn
<1> DEFINE merged == MergedCycles(plan)
           GT(t)  == GroupOfTable(merged, t)
           ids    == {GT(t) : t \in TablesOf(plan)}
           InG(g) == {c \in Configs : GT(plan[c].table) = g}
<1>1. \A t : t \in GT(t) /\ \A g \in merged : t \in g => GT(t) = g
  BY GroupOfTableFacts DEF MergedCycles
<1> HIDE DEF merged
<1>2. DOMAIN groups = ids
  BY DEF PlanFacts, BuildExecutionGroups, merged
<1>3. \A g \in ids :
        /\ groups[g].inserts = {c \in InG(g) : plan[c].type = "insert"}
        /\ groups[g].updates = {c \in InG(g) : plan[c].type # "insert"}
        /\ groups[g].dependsOn = GroupDependencies(plan, merged, ids, g)
  BY DEF PlanFacts, BuildExecutionGroups, merged, Configs, TableOf
<1>4. \A g \in ids : GroupConfigs(g) = InG(g)
  BY <1>3 DEF GroupConfigs
<1>5. \A c \in Configs : GT(plan[c].table) \in ids
  BY DEF TablesOf, TableOf, Configs
<1>6. \A c \in Configs : InGroup(c) = GT(plan[c].table)
  BY <1>2, <1>4, <1>5 DEF InGroup
<1>7. ASSUME NEW c \in Configs, NEW d \in Configs, plan[d].table \in DepTables(plan, c),
             InGroup(d) # InGroup(c)
      PROVE  InGroup(d) \in groups[InGroup(c)].dependsOn
  <2> DEFINE t == plan[d].table
             g == InGroup(c)
             h == InGroup(d)
  <2>1. t \in h /\ h \in ids /\ g \in ids /\ GT(plan[c].table) = g
    BY <1>1, <1>5, <1>6
  <2>2. t # TableOf(plan, c)
    BY <1>6, <1>7 DEF TableOf
  <2>3. ~ (g \in merged /\ t \in g)
    BY <1>1, <1>6, <1>7
  <2>4. h \in GroupDependencies(plan, merged, ids, g)
    BY <2>1, <2>2, <2>3, <1>7 DEF GroupDependencies, TableOf, Configs
  <2> QED BY <2>1, <2>4, <1>3
<1>8. \A g \in ids : groups[g].dependsOn \subseteq ids
  BY <1>3 DEF GroupDependencies
<1> QED BY <1>2, <1>3, <1>4, <1>5, <1>6, <1>7, <1>8

-----------------------------------------------------------------------------
(* CanConfigStart lets a config start only when it is ready.               *)
LEMMA CanStartReady ==
  ASSUME PlanFacts, TypeOK, TrackerFacts, NEW c \in Configs, CanConfigStart(c)
  PROVE  Ready(c)
<1> DEFINE g == InGroup(c)
<1>0. /\ g \in DOMAIN groups /\ IsFiniteSet(Configs)
      /\ groups[g].dependsOn \subseteq DOMAIN groups
  BY GroupFacts, PlansAssumption DEF PlanFacts, Configs
<1>1. ASSUME NEW h \in groups[g].dependsOn PROVE GroupConfigs(h) \subseteq completedConfigs
  <2>1. h \in DOMAIN groups /\ GroupConfigs(h) \subseteq Configs
    BY <1>0, GroupFacts
  <2>2. IsFiniteSet(GroupConfigs(h))
    BY <2>1, <1>0, FS_Subset
  <2>3. Cardinality(completedConfigs \cap GroupConfigs(h)) = Cardinality(GroupConfigs(h))
    BY <2>1 DEF TrackerFacts, CanConfigStart, IsGroupComplete
  <2>4. completedConfigs \cap GroupConfigs(h) = GroupConfigs(h)
    BY <2>2, <2>3, FS_Subset
  <2> QED BY <2>4
<1>2. groups[g].isInCycle /\ plan[c].type = "update" => groups[g].inserts \subseteq completedConfigs
  BY <1>0 DEF CanConfigStart, TrackerFacts
<1>3. GroupReady(c)
  BY <1>1, <1>2 DEF GroupReady
<1>4. ASSUME NEW d \in Inserts(c) PROVE d \in completedConfigs
  <2>1. /\ d \in Configs /\ plan[d].type = "insert" /\ plan[d].table \in DepTables(plan, c)
        /\ InGroup(d) \in DOMAIN groups /\ d \in GroupConfigs(InGroup(d))
    BY GroupFacts DEF Inserts
  <2>2. CASE InGroup(d) \in groups[g].dependsOn
    BY <2>1, <2>2, <1>1
  <2>3. CASE InGroup(d) = g
    <3> DEFINE ins == {x \in groups[g].inserts : plan[x].table = plan[d].table}
    <3>1. d \in ins
      BY <2>1, <2>3, GroupFacts DEF GroupConfigs
    <3>2. \A x \in ins : x = d
      BY <2>1, <1>0, GroupFacts, PlansAssumption DEF PlanFacts, Configs, GroupConfigs
    <3>3. FindConfigByTable(g, plan[d].table) = d
      BY <3>1, <3>2 DEF FindConfigByTable
    <3>4. d # None
      BY <2>1, PlansAssumption DEF PlanFacts, Configs
    <3> QED BY <2>1, <3>3, <3>4 DEF CanConfigStart
  <2> QED BY <2>1, <2>2, <2>3, GroupFacts
<1> QED BY <1>3, <1>4 DEF Ready

-----------------------------------------------------------------------------
(* The invariant holds initially.                                          *)
LEMMA InitInv == Init => PlanFacts /\ IndInv
<1> SUFFICES ASSUME Init PROVE PlanFacts /\ IndInv
  OBVIOUS
<1>1. PlanFacts
  BY DEF Init, PlanFacts
<1>2. /\ \A g \in DOMAIN groups : groups[g].inserts = {} => groups[g].inserts \subseteq completedConfigs
      /\ \A g \in DOMAIN groups : completedConfigs \cap GroupConfigs(g) = {}
      /\ completedConfigs = {} /\ started = {} /\ Unhandled = {} /\ Handled = {}
  BY DEF Init, NewGroupCompletionTracker, started, Unhandled, Handled
<1>3. TypeOK
  BY DEF Init, NewGroupCompletionTracker, TypeOK, Root
<1>4. TrackerFacts
  BY <1>2, FS_EmptySet DEF Init, NewGroupCompletionTracker, TrackerFacts
<1>5. CountFacts
  BY <1>2, FS_EmptySet, ConcurrencyAssumption DEF Init, CountFacts, SlotsBounded
<1>6. TodoFacts /\ NextFacts
  BY DEF Init, TodoFacts, NextFacts, Blocked, Root
<1>7. StopFacts
  BY DEF Init, StopFacts
<1>8. ParentsInserted /\ GroupOrder
  BY <1>2 DEF ParentsInserted, GroupOrder
<1> QED BY <1>1, <1>3, <1>4, <1>5, <1>6, <1>7, <1>8 DEF IndInv

(* A run keeps its plan and its groups.                                    *)
LEMMA PlanStep ==
  ASSUME [Next]_vars
  PROVE  plan' = plan /\ groups' = groups
BY DEF Next, vars, MainStep, ChildEnds, RootsFull, RootsSpawned, AllSynced, AwaitEvent, StartNext,
       ScanEnds, HandlerEnds, HandleStop, StartRoot, SkipNotReady, StartDependent, DependentsFull,
       HandleSynced, HandleFailed, ChildSynced, ChildFails, PollerStops, PollerExits, CancelRun,
       ExecuteSync, GoTo

(* What is derived from the plan, and what a completion can only add to.   *)
LEMMA Monotone ==
  ASSUME plan' = plan, groups' = groups, completedConfigs \subseteq completedConfigs'
  PROVE  /\ Configs' = Configs /\ Root' = Root /\ Dependents' = Dependents
         /\ \A g : GroupConfigs(g)' = GroupConfigs(g)
         /\ \A c : InGroup(c)' = InGroup(c) /\ Inserts(c)' = Inserts(c)
         /\ \A c : GroupReady(c) => GroupReady(c)'
<1>1. /\ Configs' = Configs /\ Root' = Root /\ Dependents' = Dependents
      /\ \A g : GroupConfigs(g)' = GroupConfigs(g)
  BY DEF Configs, Root, Dependents, GroupConfigs
<1>2. \A c : InGroup(c)' = InGroup(c)
  BY <1>1 DEF InGroup
<1>3. \A c : Inserts(c)' = Inserts(c)
  BY <1>1 DEF Inserts
<1>4. ASSUME NEW c, GroupReady(c) PROVE GroupReady(c)'
  BY <1>1, <1>2, <1>4 DEF GroupReady
<1> QED BY <1>1, <1>2, <1>3, <1>4

(* A step that leaves the goroutines and the tracker alone keeps what is   *)
(* said of them.                                                           *)
LEMMA FrameStep ==
  ASSUME IndInv, UNCHANGED <<plan, groups, trackerVars, child>>
  PROVE  /\ TrackerFacts' /\ ParentsInserted' /\ GroupOrder'
         /\ Configs' = Configs /\ Root' = Root /\ Dependents' = Dependents
         /\ Unhandled' = Unhandled /\ Handled' = Handled
         /\ \A c : Ready(c) => Ready(c)'
<1>1. /\ plan' = plan /\ groups' = groups /\ child' = child
      /\ completedConfigs' = completedConfigs /\ groupCount' = groupCount /\ insertsDone' = insertsDone
  BY DEF trackerVars
<1>2. /\ Configs' = Configs /\ Root' = Root /\ Dependents' = Dependents
      /\ \A g : GroupConfigs(g)' = GroupConfigs(g)
      /\ \A c : InGroup(c)' = InGroup(c) /\ Inserts(c)' = Inserts(c)
      /\ \A c : GroupReady(c) => GroupReady(c)'
  BY <1>1, Monotone
<1>3. started' = started /\ Unhandled' = Unhandled /\ Handled' = Handled
  BY <1>1, <1>2 DEF started, Unhandled, Handled
<1>4. TrackerFacts'
  BY <1>1, <1>2 DEF IndInv, TrackerFacts
<1>5. ParentsInserted' /\ GroupOrder'
  BY <1>1, <1>2, <1>3 DEF IndInv, ParentsInserted, GroupOrder
<1>6. \A c : Ready(c) => Ready(c)'
  BY <1>1, <1>2 DEF Ready
<1> QED BY <1>2, <1>3, <1>4, <1>5, <1>6

-----------------------------------------------------------------------------
(* Starting an idle, ready config while a slot is free.                    *)
LEMMA ExecuteStep ==
  ASSUME PlanFacts, IndInv, NEW c \in Configs, child[c] = "idle", ExecuteSync(c),
         inFlight < MaxConcurrency, Inserts(c) \subseteq completedConfigs,
         c \in Dependents => GroupReady(c),
         todo' \subseteq todo, c \notin todo', next' \in Configs \cup {None},
         pc \in {"roots", "scan", "spawn"}, pc' \in {"roots", "scan", "failed"},
         pc' = "roots" => pc = "roots"
  PROVE  IndInv'
<1>1. /\ plan' = plan /\ groups' = groups /\ completedConfigs' = completedConfigs
      /\ groupCount' = groupCount /\ insertsDone' = insertsDone
      /\ child' = [child EXCEPT ![c] = "running"] /\ inFlight' = inFlight + 1
      /\ UNCHANGED <<site, completedCount, counted, activityErr, canceled, poller>>
  BY DEF ExecuteSync, trackerVars
<1>2. /\ Configs' = Configs /\ Root' = Root /\ Dependents' = Dependents
      /\ \A g : GroupConfigs(g)' = GroupConfigs(g)
      /\ \A d : InGroup(d)' = InGroup(d) /\ Inserts(d)' = Inserts(d)
      /\ \A d : GroupReady(d) => GroupReady(d)'
  BY <1>1, Monotone
<1>3. TypeOK'
  BY <1>1, <1>2 DEF IndInv, TypeOK
<1>4. TrackerFacts'
  BY <1>1, <1>2 DEF IndInv, TypeOK, TrackerFacts
<1>5. CountFacts'
  <2>1. /\ Unhandled' = Unhandled \cup {c} /\ c \notin Unhandled /\ Handled' = Handled
        /\ Unhandled \subseteq Configs
    BY <1>1, <1>2 DEF IndInv, TypeOK, Unhandled, Handled
  <2>2. IsFiniteSet(Unhandled)
    BY <2>1, PlansAssumption, FS_Subset DEF PlanFacts, Configs
  <2>3. Cardinality(Unhandled') = inFlight + 1
    BY <2>1, <2>2, FS_AddElement DEF IndInv, CountFacts, SlotsBounded
  <2>4. inFlight + 1 <= MaxConcurrency
    BY ConcurrencyAssumption DEF IndInv, TypeOK
  <2> QED BY <1>1, <2>1, <2>3, <2>4 DEF IndInv, CountFacts, SlotsBounded
<1>6. TodoFacts' /\ NextFacts'
  BY <1>1, <1>2 DEF IndInv, TypeOK, TodoFacts, NextFacts, Blocked
<1>7. StopFacts'
  BY <1>1, <1>2 DEF IndInv, TypeOK, StopFacts, Blocked
<1>8. started' = started \cup {c}
  BY <1>1, <1>2 DEF IndInv, TypeOK, started
<1>9. ParentsInserted' /\ GroupOrder'
  BY <1>1, <1>2, <1>8 DEF IndInv, ParentsInserted, GroupOrder
<1> QED BY <1>3, <1>4, <1>5, <1>6, <1>7, <1>9 DEF IndInv

(* The three actions that start a config.                                  *)
LEMMA StartStep ==
  ASSUME PlanFacts, IndInv,
         StartNext \/ \E c \in Configs : StartRoot(c) \/ StartDependent(c)
  PROVE  IndInv'
<1>0. /\ TypeOK /\ TrackerFacts /\ CountFacts /\ TodoFacts /\ NextFacts /\ StopFacts
  BY DEF IndInv
<1>1. ASSUME NEW c \in Configs, StartRoot(c) PROVE IndInv'
  <2>1. c \in Root /\ child[c] = "idle" /\ c \notin Dependents
    BY <1>0, <1>1 DEF StartRoot, TodoFacts, Dependents
  <2>2. Inserts(c) = {}
    BY <2>1 DEF Root, Inserts, DepTables
  <2>3. /\ ExecuteSync(c) /\ inFlight < MaxConcurrency /\ pc = "roots"
        /\ todo' = todo \ {c} /\ next' = next /\ pc' \in {"roots", "failed"}
    BY <1>1 DEF StartRoot
  <2>4. next' \in Configs \cup {None}
    BY <2>3, <1>0 DEF TypeOK
  <2> QED BY <2>1, <2>2, <2>3, <2>4, ExecuteStep
<1>2. ASSUME NEW c \in Configs, StartDependent(c) PROVE IndInv'
  <2>1. /\ ExecuteSync(c) /\ inFlight < MaxConcurrency /\ pc = "scan" /\ CanConfigStart(c)
        /\ todo' = todo \ {c} /\ next' = next /\ pc' = "scan" /\ child[c] = "idle"
    BY <1>0, <1>2 DEF StartDependent, TodoFacts
  <2>2. Ready(c)
    BY <1>0, <2>1, CanStartReady
  <2>3. next' \in Configs \cup {None}
    BY <2>1, <1>0 DEF TypeOK
  <2> QED BY <2>1, <2>2, <2>3, ExecuteStep DEF Ready
<1>3. ASSUME StartNext PROVE IndInv'
  <2>1. /\ next \in Configs /\ next \notin todo /\ child[next] = "idle" /\ Ready(next)
        /\ inFlight < MaxConcurrency
    BY <1>0, <1>3 DEF StartNext, NextFacts, CountFacts
  <2>2. ExecuteSync(next) /\ pc = "spawn" /\ pc' = "scan" /\ next' = None /\ todo' = todo
    BY <1>3 DEF StartNext
  <2> QED BY <2>1, <2>2, ExecuteStep DEF Ready
<1> QED BY <1>1, <1>2, <1>3

-----------------------------------------------------------------------------
(* The steps of main and of the others that touch neither the goroutines   *)
(* nor the tracker.                                                        *)
LEMMA QuietStep ==
  ASSUME PlanFacts, IndInv,
         \/ RootsFull \/ RootsSpawned \/ AllSynced \/ AwaitEvent \/ ScanEnds
         \/ \E c \in Configs : SkipNotReady(c) \/ DependentsFull(c)
         \/ HandlerEnds \/ HandleStop \/ PollerStops \/ PollerExits \/ CancelRun
         \/ UNCHANGED vars
  PROVE  IndInv'
<1> DEFINE Facts == TypeOK' /\ CountFacts' /\ TodoFacts' /\ NextFacts' /\ StopFacts'
<1>1. /\ UNCHANGED <<plan, groups, trackerVars, child>>
      /\ UNCHANGED <<inFlight, completedCount, counted>>
  BY DEF RootsFull, RootsSpawned, AllSynced, AwaitEvent, ScanEnds, SkipNotReady, DependentsFull,
         HandlerEnds, HandleStop, PollerStops, PollerExits, CancelRun, GoTo, mainVars, vars
<1>2. /\ TrackerFacts' /\ ParentsInserted' /\ GroupOrder'
      /\ Configs' = Configs /\ Root' = Root /\ Dependents' = Dependents
      /\ Unhandled' = Unhandled /\ Handled' = Handled
      /\ \A c : Ready(c) => Ready(c)'
  BY <1>1, FrameStep
<1>3. /\ plan' = plan /\ groups' = groups /\ child' = child
      /\ completedConfigs' = completedConfigs /\ groupCount' = groupCount /\ insertsDone' = insertsDone
      /\ inFlight' = inFlight /\ completedCount' = completedCount /\ counted' = counted
  BY <1>1 DEF trackerVars
<1>4. TypeOK /\ CountFacts /\ TodoFacts /\ NextFacts /\ StopFacts /\ TrackerFacts
  BY DEF IndInv
<1> SUFFICES Facts
  BY <1>2 DEF IndInv
<1> USE <1>2, <1>3, <1>4
<1>5. ASSUME NEW c \in Configs, SkipNotReady(c) \/ DependentsFull(c) PROVE Facts
  <2>1. child[c] = "idle" /\ c \in todo /\ pc = "scan"
    BY <1>5 DEF SkipNotReady, DependentsFull, TodoFacts
  <2>2. CASE SkipNotReady(c)
    BY <2>1, <2>2 DEF SkipNotReady, GoTo, TypeOK, CountFacts, SlotsBounded, TodoFacts, NextFacts, StopFacts, Blocked
  <2>3. CASE DependentsFull(c)
    <3>1. Ready(c)
      BY <2>3, CanStartReady DEF DependentsFull
    <3> QED BY <2>1, <2>3, <3>1 DEF DependentsFull, GoTo, TypeOK, CountFacts, SlotsBounded,
                                    TodoFacts, NextFacts, StopFacts, Blocked
  <2> QED BY <1>5, <2>2, <2>3
<1>6. CASE RootsFull \/ RootsSpawned \/ AllSynced \/ AwaitEvent \/ ScanEnds
  BY <1>6 DEF RootsFull, RootsSpawned, AllSynced, AwaitEvent, ScanEnds, GoTo, TypeOK, CountFacts,
              SlotsBounded, TodoFacts, NextFacts, StopFacts, Blocked
<1>7. CASE HandlerEnds \/ HandleStop
  <2>1. Blocked /\ site' = site /\ next' = next
    BY <1>7 DEF HandlerEnds, HandleStop, AfterSelect, Blocked
  <2>2. /\ todo' \subseteq Configs /\ \A c \in todo' : child[c] = "idle"
        /\ site # "main" => todo' = todo
    BY <1>7 DEF HandlerEnds, HandleStop, AfterSelect, started, Dependents, TypeOK, TodoFacts
  <2>3. \/ pc' = "failed"
        \/ site = "root" /\ pc' = "roots" /\ activityErr' = "none" /\ ~ canceled'
        \/ site = "main" /\ pc' = "scan" /\ activityErr' = "none" /\ ~ canceled'
        \/ site = "scan" /\ pc' = "spawn" /\ activityErr' = "none" /\ ~ canceled'
              /\ pc \in {"post", "cleanup"}
    BY <1>7 DEF HandlerEnds, HandleStop, AfterSelect, TypeOK
  <2>4. /\ activityErr' \in {"none", "table", "account"} /\ canceled' \in BOOLEAN
        /\ poller' \in {"polling", "sending", "gone"}
        /\ activityErr' = "none" => activityErr = "none"
    BY <1>7 DEF HandlerEnds, HandleStop, TypeOK
  <2>5. TypeOK' /\ CountFacts'
    BY <2>1, <2>2, <2>3, <2>4 DEF TypeOK, CountFacts, SlotsBounded
  <2>6. TodoFacts' /\ NextFacts' /\ StopFacts'
    BY <2>1, <2>2, <2>3, <2>4 DEF TypeOK, TodoFacts, NextFacts, StopFacts, Blocked
  <2> QED BY <2>5, <2>6
<1>8. CASE PollerStops \/ PollerExits \/ CancelRun \/ UNCHANGED vars
  <2>1. /\ pc' = pc /\ site' = site /\ todo' = todo /\ next' = next /\ activityErr' = activityErr
        /\ (canceled' = canceled) \/ (canceled' = TRUE /\ Blocked)
        /\ poller' = poller \/ poller' \in {"sending", "gone"}
    <3>1. CASE PollerStops
      BY <3>1 DEF PollerStops, mainVars
    <3>2. CASE PollerExits
      BY <3>2 DEF PollerExits, mainVars
    <3>3. CASE CancelRun
      BY <3>3 DEF CancelRun, mainVars
    <3>4. CASE UNCHANGED vars
      BY <3>4 DEF vars, mainVars
    <3> QED BY <1>8, <3>1, <3>2, <3>3, <3>4
  <2>2. canceled' \in BOOLEAN /\ poller' \in {"polling", "sending", "gone"}
    BY <2>1 DEF TypeOK
  <2>3. TypeOK'
    BY <2>1, <2>2 DEF TypeOK
  <2>4. CountFacts' /\ TodoFacts' /\ NextFacts'
    BY <2>1 DEF CountFacts, SlotsBounded, TodoFacts, NextFacts, Blocked
  <2>5. StopFacts'
    BY <2>1 DEF StopFacts, Blocked
  <2> QED BY <2>3, <2>4, <2>5
<1> QED BY <1>5, <1>6, <1>7, <1>8 DEF IndInv

(* main handles the end of a sync: a slot is free again.                   *)
LEMMA HandleStep ==
  ASSUME PlanFacts, IndInv, NEW c \in Configs, HandleSynced(c) \/ HandleFailed(c)
  PROVE  IndInv'
<1>0. TypeOK /\ TrackerFacts /\ CountFacts /\ TodoFacts /\ NextFacts /\ StopFacts
  BY DEF IndInv
<1>1. /\ plan' = plan /\ groups' = groups /\ completedConfigs' = completedConfigs
      /\ groupCount' = groupCount /\ insertsDone' = insertsDone
      /\ site' = site /\ todo' = todo /\ next' = next /\ poller' = poller
      /\ pc = "select" /\ inFlight' = inFlight - 1 /\ completedCount' = completedCount + 1
  BY DEF HandleSynced, HandleFailed, trackerVars
<1>2. \/ /\ child[c] = "ok" /\ child' = [child EXCEPT ![c] = "handled"]
         /\ counted' = counted \cup {c} /\ pc' = "post"
         /\ activityErr' = activityErr /\ canceled' = canceled
      \/ /\ child[c] = "err" /\ child' = [child EXCEPT ![c] = "failed"]
         /\ counted' = counted /\ pc' = "cleanup"
         /\ activityErr' = "table" /\ canceled' = TRUE
  BY DEF HandleSynced, HandleFailed
<1>3. /\ Configs' = Configs /\ Root' = Root /\ Dependents' = Dependents
      /\ \A g : GroupConfigs(g)' = GroupConfigs(g)
      /\ \A d : InGroup(d)' = InGroup(d) /\ Inserts(d)' = Inserts(d)
      /\ \A d : GroupReady(d) => GroupReady(d)'
  BY <1>1, Monotone
<1>4. /\ Unhandled' = Unhandled \ {c} /\ c \in Unhandled /\ Unhandled \subseteq Configs
      /\ Handled' = Handled \cup {c} /\ c \notin Handled /\ Handled \subseteq Configs
      /\ started' = started
  BY <1>0, <1>2, <1>3 DEF TypeOK, Unhandled, Handled, started
<1>5. IsFiniteSet(Unhandled) /\ IsFiniteSet(Handled)
  BY <1>4, PlansAssumption, FS_Subset DEF PlanFacts, Configs
<1>6. Cardinality(Unhandled') = inFlight - 1 /\ Cardinality(Handled') = completedCount + 1
  BY <1>0, <1>4, <1>5, FS_RemoveElement, FS_AddElement DEF CountFacts, SlotsBounded
<1>7. inFlight - 1 \in Nat
  BY <1>4, <1>5, <1>6, FS_CardinalityType, FS_Subset
<1>8. TypeOK'
  <2>1. /\ child' \in [Configs -> {"idle", "running", "ok", "err", "handled", "failed"}]
        /\ counted' \subseteq Configs /\ pc' \in {"post", "cleanup"}
        /\ activityErr' \in {"none", "table", "account"}
    BY <1>0, <1>2 DEF TypeOK
  <2>2. canceled' \in BOOLEAN
    BY <1>0, <1>2 DEF TypeOK
  <2> QED BY <2>1, <2>2, <1>0, <1>1, <1>3, <1>7 DEF TypeOK
<1>9. CountFacts'
  BY <1>0, <1>1, <1>2, <1>4, <1>6, ConcurrencyAssumption DEF TypeOK, CountFacts, SlotsBounded
<1>10. TrackerFacts'
  <2>1. completedConfigs' = {d \in Configs' : child'[d] \in {"ok", "handled"}}
    BY <1>0, <1>1, <1>2, <1>3 DEF TypeOK, TrackerFacts
  <2> QED BY <2>1, <1>0, <1>1, <1>3 DEF TrackerFacts
<1>11. TodoFacts' /\ NextFacts'
  <2>1. \A d \in Configs : child[d] = "idle" => child'[d] = "idle"
    BY <1>0, <1>2 DEF TypeOK
  <2>2. \A d : Ready(d) => Ready(d)'
    BY <1>1, <1>3 DEF Ready
  <2> QED BY <2>1, <2>2, <1>0, <1>1, <1>2, <1>3 DEF TypeOK, TodoFacts, NextFacts, Blocked
<1>12. StopFacts'
  BY <1>0, <1>1, <1>2, <1>3 DEF TypeOK, StopFacts, Blocked
<1>13. ParentsInserted' /\ GroupOrder'
  BY <1>1, <1>3, <1>4 DEF IndInv, ParentsInserted, GroupOrder
<1> QED BY <1>8, <1>9, <1>10, <1>11, <1>12, <1>13 DEF IndInv

-----------------------------------------------------------------------------
(* Marking a config complete keeps the counters of the tracker right: only *)
(* the group of the config has one more member that is complete.           *)
LEMMA MarkStep ==
  ASSUME PlanFacts, TypeOK, TrackerFacts, NEW c \in Configs, c \notin completedConfigs,
         MarkConfigComplete(c), NEW g \in DOMAIN groups
  PROVE  /\ groupCount'[g] = Cardinality((completedConfigs \cup {c}) \cap GroupConfigs(g))
         /\ insertsDone'[g] => groups[g].inserts \subseteq completedConfigs \cup {c}
<1>1. /\ groupCount' = [groupCount EXCEPT ![InGroup(c)] = @ + 1]
      /\ insertsDone' = [insertsDone EXCEPT ![InGroup(c)] =
                           @ \/ groups[InGroup(c)].inserts \subseteq completedConfigs']
      /\ completedConfigs' = completedConfigs \cup {c}
  BY DEF MarkConfigComplete
<1>2. /\ InGroup(c) \in DOMAIN groups /\ c \in GroupConfigs(InGroup(c))
      /\ c \in GroupConfigs(g) => g = InGroup(c)
  BY GroupFacts
<1> DEFINE old == completedConfigs \cap GroupConfigs(g)
<1>3. IsFiniteSet(old)
  <2>1. IsFiniteSet(Configs) /\ old \subseteq Configs
    BY PlansAssumption DEF PlanFacts, Configs, TypeOK
  <2> QED BY <2>1, FS_Subset
<1>4. groupCount[g] = Cardinality(old) /\ (insertsDone[g] => groups[g].inserts \subseteq completedConfigs)
  BY DEF TrackerFacts
<1>5. CASE g = InGroup(c)
  <2>1. (completedConfigs \cup {c}) \cap GroupConfigs(g) = old \cup {c} /\ c \notin old
    BY <1>2, <1>5
  <2>2. Cardinality(old \cup {c}) = Cardinality(old) + 1
    BY <2>1, <1>3, FS_AddElement
  <2>3. groupCount'[g] = groupCount[g] + 1
    BY <1>1, <1>5 DEF TypeOK
  <2>4. insertsDone'[g] = (insertsDone[g] \/ groups[g].inserts \subseteq completedConfigs \cup {c})
    BY <1>1, <1>5 DEF TypeOK
  <2> QED BY <2>1, <2>2, <2>3, <2>4, <1>4
<1>6. CASE g # InGroup(c)
  <2>1. (completedConfigs \cup {c}) \cap GroupConfigs(g) = old
    BY <1>2, <1>6
  <2>2. groupCount'[g] = groupCount[g] /\ insertsDone'[g] = insertsDone[g]
    BY <1>1, <1>6 DEF TypeOK
  <2> QED BY <2>1, <2>2, <1>4
<1> QED BY <1>5, <1>6

(* A child workflow ends.                                                  *)
LEMMA ChildStep ==
  ASSUME PlanFacts, IndInv, NEW c \in Configs, ChildEnds(c)
  PROVE  IndInv'
<1>0. TypeOK /\ TrackerFacts /\ CountFacts /\ TodoFacts /\ NextFacts /\ StopFacts
  BY DEF IndInv
<1>1. /\ plan' = plan /\ groups' = groups /\ child[c] = "running" /\ Blocked
      /\ \/ child' = [child EXCEPT ![c] = "ok"] /\ MarkConfigComplete(c)
         \/ child' = [child EXCEPT ![c] = "err"] /\ UNCHANGED trackerVars
  BY DEF ChildEnds, ChildSynced, ChildFails
<1>2. /\ pc' = pc /\ site' = site /\ todo' = todo /\ next' = next /\ inFlight' = inFlight
      /\ completedCount' = completedCount /\ counted' = counted /\ activityErr' = activityErr
      /\ canceled' = canceled /\ poller' = poller
  BY DEF ChildEnds, ChildSynced, ChildFails, mainVars
<1>3. c \notin completedConfigs
  BY <1>0, <1>1 DEF TrackerFacts
<1>4. completedConfigs \subseteq completedConfigs'
  BY <1>1 DEF MarkConfigComplete, trackerVars
<1>5. /\ Configs' = Configs /\ Root' = Root /\ Dependents' = Dependents
      /\ \A g : GroupConfigs(g)' = GroupConfigs(g)
      /\ \A d : InGroup(d)' = InGroup(d) /\ Inserts(d)' = Inserts(d)
      /\ \A d : GroupReady(d) => GroupReady(d)'
  BY <1>1, <1>4, Monotone
<1>6. /\ Unhandled' = Unhandled /\ Handled' = Handled /\ started' = started
      /\ \A d \in Configs : child[d] = "idle" => child'[d] = "idle"
      /\ \A d \in Configs : (child'[d] = "handled") = (child[d] = "handled")
      /\ \A d \in Configs : child'[d] = "failed" => child[d] = "failed"
      /\ child' \in [Configs -> {"idle", "running", "ok", "err", "handled", "failed"}]
  BY <1>0, <1>1, <1>5 DEF TypeOK, Unhandled, Handled, started
<1>7. TrackerFacts' /\ completedConfigs' \subseteq Configs
      /\ groupCount' \in [DOMAIN groups -> Nat] /\ insertsDone' \in [DOMAIN groups -> BOOLEAN]
  <2>1. CASE child' = [child EXCEPT ![c] = "err"] /\ UNCHANGED trackerVars
    <3>1. completedConfigs' = {d \in Configs' : child'[d] \in {"ok", "handled"}}
      BY <2>1, <1>0, <1>1, <1>5 DEF TypeOK, TrackerFacts, trackerVars
    <3> QED BY <3>1, <2>1, <1>0, <1>1, <1>5 DEF TypeOK, TrackerFacts, trackerVars
  <2>2. CASE child' = [child EXCEPT ![c] = "ok"] /\ MarkConfigComplete(c)
    <3>1. completedConfigs' = completedConfigs \cup {c}
      BY <2>2 DEF MarkConfigComplete
    <3>2. completedConfigs' = {d \in Configs' : child'[d] \in {"ok", "handled"}}
      BY <3>1, <2>2, <1>0, <1>5 DEF TypeOK, TrackerFacts
    <3>3. \A g \in DOMAIN groups :
            /\ groupCount'[g] = Cardinality(completedConfigs' \cap GroupConfigs(g))
            /\ insertsDone'[g] => groups[g].inserts \subseteq completedConfigs'
      BY <3>1, <2>2, <1>0, <1>3, MarkStep
    <3>4. TrackerFacts'
      BY <3>2, <3>3, <1>1, <1>5 DEF TrackerFacts
    <3>5. groupCount' \in [DOMAIN groups -> Nat]
      BY <2>2, <1>0, <1>3 DEF TypeOK, MarkConfigComplete
    <3>6. insertsDone' \in [DOMAIN groups -> BOOLEAN]
      <4> DEFINE g == InGroup(c)
                 done == insertsDone[g] \/ groups[g].inserts \subseteq completedConfigs'
      <4>1. insertsDone' = [insertsDone EXCEPT ![g] = done]
        BY <2>2, <1>3 DEF MarkConfigComplete
      <4>2. done \in BOOLEAN
        OBVIOUS
      <4> HIDE DEF done, g
      <4> QED BY <4>1, <4>2, <1>0 DEF TypeOK
    <3> QED BY <3>1, <3>4, <3>5, <3>6, <1>0 DEF TypeOK
  <2> QED BY <1>1, <2>1, <2>2
<1>8. TypeOK'
  BY <1>0, <1>1, <1>2, <1>5, <1>6, <1>7 DEF TypeOK
<1>9. CountFacts'
  BY <1>0, <1>2, <1>6 DEF CountFacts, SlotsBounded
<1>10. TodoFacts' /\ NextFacts'
  <2>1. \A d : Ready(d) => Ready(d)'
    BY <1>4, <1>5 DEF Ready
  <2> QED BY <2>1, <1>0, <1>2, <1>5, <1>6 DEF TypeOK, TodoFacts, NextFacts, Blocked
<1>11. StopFacts'
  BY <1>0, <1>2, <1>5, <1>6 DEF StopFacts, Blocked
<1>12. ParentsInserted' /\ GroupOrder'
  BY <1>4, <1>5, <1>6 DEF IndInv, ParentsInserted, GroupOrder
<1> QED BY <1>7, <1>8, <1>9, <1>10, <1>11, <1>12 DEF IndInv

-----------------------------------------------------------------------------
(* The invariant is inductive.                                             *)
LEMMA NextInv ==
  ASSUME PlanFacts, IndInv, [Next]_vars
  PROVE  PlanFacts' /\ IndInv'
<1>1. PlanFacts'
  BY PlanStep DEF PlanFacts
<1> SUFFICES IndInv'
  BY <1>1
<1>2. CASE MainStep
  BY <1>2, StartStep, QuietStep, HandleStep DEF MainStep
<1>3. CASE \E c \in Configs : ChildEnds(c)
  BY <1>3, ChildStep
<1>4. CASE PollerStops \/ PollerExits \/ CancelRun \/ UNCHANGED vars
  BY <1>4, QuietStep
<1> QED BY <1>1, <1>2, <1>3, <1>4 DEF Next

(* The state of the scheduler always satisfies the inductive invariant.    *)
THEOREM Invariance == Spec => [](PlanFacts /\ IndInv)
<1> USE DEF Spec
<1> QED BY InitInv, NextInv, PTL DEF Spec

(* The variables of the scheduler keep their types, whatever the plan and  *)
(* the limit (the fields of the tracker and the locals of Workflow).       *)
THEOREM TypeCorrect == Spec => []TypeOK
<1>1. PlanFacts /\ IndInv => TypeOK
  BY DEF IndInv
<1> QED BY <1>1, Invariance, PTL

(* A table is only synced once the tables it depends on are inserted: what *)
(* CanConfigStart and the groups are for.                                  *)
THEOREM ParentsFirst == Spec => []ParentsInserted
<1>1. PlanFacts /\ IndInv => ParentsInserted
  BY DEF IndInv
<1> QED BY <1>1, Invariance, PTL

(* Groups run in the order of their dependencies, and an update pass of a  *)
(* cycle after all its inserts, however completions are interleaved.       *)
THEOREM GroupsInOrder == Spec => []GroupOrder
<1>1. PlanFacts /\ IndInv => GroupOrder
  BY DEF IndInv
<1> QED BY <1>1, Invariance, PTL

(* No more than TABLESYNC_MAX_CONCURRENCY syncs run at a time, though main *)
(* waits for a free slot only once before it starts a dependent.           *)
THEOREM NeverOverLimit == Spec => []SlotsBounded
<1>1. PlanFacts /\ IndInv => SlotsBounded
  BY DEF IndInv, CountFacts
<1> QED BY <1>1, Invariance, PTL

(* Success is reported on a plan that is complete.                         *)
LEMMA InvSuccess ==
  ASSUME PlanFacts, IndInv
  PROVE  SuccessIsComplete
<1> SUFFICES ASSUME pc = "synced"
             PROVE  /\ completedConfigs = Configs /\ counted = Configs
                    /\ activityErr = "none" /\ ~ canceled
  BY DEF SuccessIsComplete
<1>1. activityErr = "none" /\ ~ canceled /\ Cardinality(Handled) = Cardinality(Configs)
  BY DEF IndInv, StopFacts, CountFacts, Blocked
<1>2. Handled \subseteq Configs /\ IsFiniteSet(Configs)
  BY PlansAssumption DEF PlanFacts, Handled, Configs
<1>3. Handled = Configs
  BY <1>1, <1>2, FS_Subset
<1>4. \A c \in Configs : child[c] = "handled"
  BY <1>1, <1>3 DEF IndInv, StopFacts, Handled
<1> QED BY <1>1, <1>4 DEF IndInv, TrackerFacts, StopFacts

(* The table sync step never reports success on a plan it did not complete *)
(* or on a run that failed, was stopped or was canceled.                   *)
THEOREM SuccessMeansComplete == Spec => []SuccessIsComplete
<1>1. PlanFacts /\ IndInv => SuccessIsComplete
  BY InvSuccess
<1> QED BY <1>1, Invariance, PTL

(* After a failure, a stop of the account or a cancellation, main starts   *)
(* no further sync.                                                        *)
THEOREM NothingStartsOnceStopped == Spec => NoStartOnceStopped
<1>1. ASSUME PlanFacts, IndInv, [Next]_vars
      PROVE  [activityErr # "none" \/ canceled => started' = started]_vars
  <2>1. SUFFICES ASSUME activityErr # "none" \/ canceled, Next PROVE started' = started
    BY <1>1
  <2>2. TypeOK /\ pc \in {"select", "post", "cleanup", "failed"}
    BY <1>1, <2>1 DEF IndInv, StopFacts, Blocked
  <2>3. Configs' = Configs
    BY <1>1, PlanStep DEF Configs
  <2>4. ASSUME NEW c \in Configs, HandleSynced(c) \/ HandleFailed(c) \/ ChildEnds(c)
        PROVE  started' = started
    <3>1. /\ child[c] # "idle"
          /\ \E s \in {"ok", "err", "handled", "failed"} : child' = [child EXCEPT ![c] = s]
      BY <2>4 DEF HandleSynced, HandleFailed, ChildEnds, ChildSynced, ChildFails
    <3> QED BY <3>1, <2>2, <2>3 DEF TypeOK, started
  <2>5. ASSUME ~ \E c \in Configs : HandleSynced(c) \/ HandleFailed(c) \/ ChildEnds(c)
        PROVE  started' = started
    <3>1. child' = child
      BY <2>1, <2>2, <2>5 DEF Next, MainStep, RootsFull, RootsSpawned, AllSynced, AwaitEvent, StartNext,
         ScanEnds, HandlerEnds, HandleStop, StartRoot, SkipNotReady, StartDependent, DependentsFull,
         PollerStops, PollerExits, CancelRun, GoTo, vars
    <3> QED BY <3>1, <2>3 DEF started
  <2> QED BY <2>4, <2>5
<1> QED BY <1>1, Invariance, PTL DEF Spec, NoStartOnceStopped

-----------------------------------------------------------------------------
(* RunOrder's copy of the cardinality is the same operator.                *)
LEMMA SameCardinality == \A S : Order!Cardinality(S) = Cardinality(S)
BY DEF Order!Cardinality, Cardinality

(* Starting a sync, as RunOrder sees it.                                   *)
LEMMA StartRefines ==
  ASSUME PlanFacts, IndInv, NEW c \in Configs, child[c] = "idle", ExecuteSync(c),
         inFlight < MaxConcurrency, Inserts(c) \subseteq completedConfigs, ~ Over, ~ Over'
  PROVE  Order!StartSync(c)
<1> DEFINE running == {d \in Configs : child[d] = "running"}
<1>1. TypeOK /\ TrackerFacts /\ SlotsBounded
  BY DEF IndInv, CountFacts
<1>2. /\ plan' = plan /\ completedConfigs' = completedConfigs /\ Configs' = Configs
      /\ child' = [child EXCEPT ![c] = "running"]
  BY DEF ExecuteSync, trackerVars, Configs
<1>3. /\ {d \in Configs' : child'[d] = "running"} = running \cup {c}
      /\ {d \in Configs' : child'[d] \in {"err", "failed"}} = {d \in Configs : child[d] \in {"err", "failed"}}
      /\ c \notin running \cup completedConfigs \cup {d \in Configs : child[d] \in {"err", "failed"}}
  BY <1>1, <1>2 DEF TypeOK, TrackerFacts
<1>4. Cardinality(running) < MaxConcurrency
  <2>1. running \subseteq Unhandled /\ Unhandled \subseteq Configs /\ IsFiniteSet(Configs)
    BY PlansAssumption DEF PlanFacts, Unhandled, Configs
  <2>2. Cardinality(running) <= Cardinality(Unhandled) /\ Cardinality(running) \in Nat
    BY <2>1, FS_Subset, FS_CardinalityType
  <2> QED BY <2>2, <1>1, ConcurrencyAssumption DEF SlotsBounded, TypeOK
<1>5. Order!Needs(plan, c) \subseteq completedConfigs
  BY DEF Order!Needs, Order!DepTables, DepTables, Inserts, Configs
<1> QED BY <1>2, <1>3, <1>4, <1>5, SameCardinality DEF Order!StartSync

(* The scheduler, with its groups, phases, slots and order of events,      *)
(* implements the promise of RunOrder: main only ever starts a config that *)
(* RunOrder lets start, and ends in an outcome RunOrder allows.            *)
THEOREM Refinement == Spec => ImplementsRunOrder
<1>1. Init => Order!OrderInit
  BY DEF Init, NewGroupCompletionTracker, Order!OrderInit, Over, Root, Dependents, Configs
<1>2. ASSUME PlanFacts, IndInv, [Next]_vars, SuccessIsComplete'
      PROVE  [Order!OrderNext]_(Order!orderVars)
  <2> DEFINE running == {c \in Configs : child[c] = "running"}
             lost    == {c \in Configs : child[c] \in {"err", "failed"}}
             outcome == IF Over THEN pc ELSE "running"
  <2>0. /\ TypeOK /\ TrackerFacts /\ CountFacts /\ TodoFacts /\ NextFacts /\ StopFacts
    BY <1>2 DEF IndInv
  <2>1. plan' = plan /\ Configs' = Configs
    BY <1>2, PlanStep DEF Configs
  <2>2. ASSUME running' = running, completedConfigs' = completedConfigs, lost' = lost, outcome' = outcome
        PROVE  UNCHANGED Order!orderVars
    BY <2>1, <2>2 DEF Order!orderVars
  <2>3. ASSUME NEW c \in Configs, Order!StartSync(c) \/ Order!EndSync(c)
        PROVE  Order!OrderNext
    BY <2>3 DEF Order!OrderNext, Configs
  <2>4. ASSUME NEW c \in Configs, StartRoot(c) PROVE Order!OrderNext
    <3>1. c \in Root /\ child[c] = "idle" /\ ~ canceled
      BY <2>0, <2>4 DEF StartRoot, TodoFacts, StopFacts, Blocked
    <3>2. Inserts(c) = {}
      BY <3>1 DEF Root, Inserts, DepTables
    <3>3. ExecuteSync(c) /\ inFlight < MaxConcurrency /\ ~ Over /\ ~ Over'
      BY <2>4, <3>1 DEF StartRoot, Over
    <3> QED BY <1>2, <3>1, <3>2, <3>3, <2>3, StartRefines
  <2>5. ASSUME NEW c \in Configs, StartDependent(c) PROVE Order!OrderNext
    <3>1. /\ child[c] = "idle" /\ CanConfigStart(c) /\ ExecuteSync(c) /\ inFlight < MaxConcurrency
          /\ ~ Over /\ ~ Over'
      BY <2>0, <2>5 DEF StartDependent, TodoFacts, Over
    <3>2. Ready(c)
      BY <1>2, <2>0, <3>1, CanStartReady
    <3> QED BY <1>2, <3>1, <3>2, <2>3, StartRefines DEF Ready
  <2>6. ASSUME StartNext PROVE Order!OrderNext
    <3>1. /\ next \in Configs /\ child[next] = "idle" /\ Ready(next) /\ inFlight < MaxConcurrency
          /\ ExecuteSync(next) /\ ~ Over /\ ~ Over'
      BY <2>0, <2>6 DEF StartNext, NextFacts, CountFacts, Over
    <3> QED BY <1>2, <3>1, <2>3, StartRefines DEF Ready
  <2>7. ASSUME NEW c \in Configs, ChildEnds(c) PROVE Order!OrderNext
    <3>1. /\ child[c] = "running" /\ pc' = pc
          /\ \/ /\ child' = [child EXCEPT ![c] = "ok"] /\ MarkConfigComplete(c)
             \/ /\ child' = [child EXCEPT ![c] = "err"] /\ UNCHANGED trackerVars
      BY <2>7 DEF ChildEnds, ChildSynced, ChildFails, mainVars
    <3>2. running' = running \ {c} /\ c \in running /\ outcome' = outcome
      BY <2>0, <2>1, <3>1 DEF TypeOK, Over
    <3>3. \/ completedConfigs' = completedConfigs \cup {c} /\ lost' = lost
          \/ completedConfigs' = completedConfigs /\ lost' = lost \cup {c}
      BY <2>0, <2>1, <3>1 DEF TypeOK, MarkConfigComplete, trackerVars
    <3>4. Order!EndSync(c)
      BY <2>1, <3>2, <3>3 DEF Order!EndSync
    <3> QED BY <3>4, <2>3
  <2>8. ASSUME NEW c \in Configs, HandleSynced(c) \/ HandleFailed(c)
        PROVE  UNCHANGED Order!orderVars
    <3>1. /\ completedConfigs' = completedConfigs /\ ~ Over /\ ~ Over'
          /\ \/ child[c] = "ok" /\ child' = [child EXCEPT ![c] = "handled"]
             \/ child[c] = "err" /\ child' = [child EXCEPT ![c] = "failed"]
      BY <2>8 DEF HandleSynced, HandleFailed, Over, trackerVars
    <3> QED BY <2>0, <2>1, <2>2, <3>1 DEF TypeOK
  <2>9. ASSUME \/ RootsFull \/ RootsSpawned \/ AwaitEvent \/ ScanEnds
               \/ \E c \in Configs : SkipNotReady(c) \/ DependentsFull(c)
               \/ PollerStops \/ PollerExits \/ CancelRun \/ UNCHANGED vars
        PROVE  UNCHANGED Order!orderVars
    <3>1. /\ completedConfigs' = completedConfigs /\ child' = child
          /\ pc' = pc \/ (~ Over /\ ~ Over')
      BY <2>9 DEF RootsFull, RootsSpawned, AwaitEvent, ScanEnds, SkipNotReady, DependentsFull,
                  PollerStops, PollerExits, CancelRun, GoTo, Over, mainVars, trackerVars, vars
    <3> QED BY <2>1, <2>2, <3>1 DEF Over
  <2>10. ASSUME AllSynced \/ HandlerEnds \/ HandleStop
         PROVE  Order!OrderNext \/ UNCHANGED Order!orderVars
    <3>1. completedConfigs' = completedConfigs /\ child' = child /\ ~ Over
      BY <2>10 DEF AllSynced, HandlerEnds, HandleStop, GoTo, Over, trackerVars
    <3>2. running' = running /\ lost' = lost
      BY <2>1, <3>1
    <3>3. pc' = "synced" => AllSynced
      BY <2>0, <2>10 DEF HandlerEnds, HandleStop, AfterSelect, TypeOK
    <3>4. AllSynced => completedConfigs = Configs
      <4> SUFFICES ASSUME AllSynced PROVE completedConfigs = Configs
        OBVIOUS
      <4>1. pc' = "synced"
        BY DEF AllSynced, GoTo
      <4>2. completedConfigs' = Configs'
        BY <1>2, <4>1 DEF SuccessIsComplete
      <4> QED BY <4>2, <2>1, <3>1
    <3>5. CASE Over'
      <4>1. Order!FinishStep
        BY <2>1, <3>1, <3>2, <3>3, <3>4, <3>5 DEF Order!FinishStep, Over, Configs
      <4> QED BY <4>1 DEF Order!OrderNext
    <3>6. CASE ~ Over'
      BY <2>2, <3>1, <3>2, <3>6
    <3> QED BY <3>5, <3>6
  <2> QED BY <1>2, <2>4, <2>5, <2>6, <2>7, <2>8, <2>9, <2>10 DEF Next, MainStep
<1> QED BY <1>1, <1>2, Invariance, SuccessMeansComplete, PTL DEF Spec, ImplementsRunOrder, Order!OrderSpec
=============================================================================
