------------------------ MODULE DestinationTriggers ------------------------
(***************************************************************************)
(* The triggers of the destinations of a job, taken out of the way for the *)
(* time of a run and put back after it: the activities SuspendTriggers and *)
(* RestoreTriggers (datasync/activities/destination-triggers), and what    *)
(* Workflow does around them (datasync/workflow/workflow.go).              *)
(*                                                                         *)
(* An attempt of an activity runs on a worker, one call to the backend or  *)
(* to a destination at a time; it may fail or be lost between any two. The *)
(* activities do not heartbeat and the workflow does not wait for them to  *)
(* be canceled: when a run is canceled or terminated, the attempt it was   *)
(* waiting for goes on, next to what comes after it.                       *)
(***************************************************************************)
EXTENDS FiniteSets, Integers

CONSTANTS
  Jobs,
  Destinations,     \* connections; jobs may share them
  MySQL,            \* the destinations that drop a trigger, others disable it
  Triggers,         \* numbers: the order they fire in before the first run
  Workers,          \* what runs an attempt
  Originals,        \* the states the triggers may be in before the first run
  SuspendTries,     \* MaximumAttempts of SuspendTriggers
  RestoreTries,     \* MaximumAttempts of RestoreTriggers
  MaxRuns,          \* bound: runs of a job
  MaxFaults,        \* bound: failures, lost workers, cancellations
  None              \* no worker

Held   == Destinations \X Triggers
Firing == {"origin", "replica", "always"}
Modes  == Firing \cup {"off"}     \* off: disabled, or not there

ASSUME TriggersAssumption ==
  /\ IsFiniteSet(Destinations) /\ MySQL \subseteq Destinations
  /\ IsFiniteSet(Triggers) /\ Triggers \subseteq Nat \ {0}
  /\ Originals \subseteq [Held -> Modes]

ASSUME WorkersAssumption == None \notin Workers

ASSUME TriesAssumption == SuspendTries \in Nat \ {0} /\ RestoreTries \in Nat \ {0}

VARIABLES
  original,         \* the triggers before the first run
  db,               \* the state of each trigger
  before,           \* the triggers of its event that fire before it
  record,           \* of each job, what puts back what is out of the way
  destinations,     \* of each job, what GetJob says
  run,              \* of each job, where its run is
  attempt,          \* on each worker, the attempt of an activity
  abandoned,        \* a run stopped waiting for an attempt that went on
  faults

envVars == <<original, destinations>>
dbVars  == <<db, before>>
vars    == <<envVars, dbVars, record, run, attempt, abandoned, faults>>

-----------------------------------------------------------------------------
(* What is recorded of a trigger: the state to put it back in, and the     *)
(* triggers in front of it in the list of its destination.                 *)
NoEntry     == [mode |-> "none", after |-> {}]
EmptyRecord == [x \in Held |-> NoEntry]
Entries(r)  == {x \in Held : r[x].mode # "none"}

(* readTriggers: those that can fire. A dropped trigger is not there, and  *)
(* a disabled one is left out.                                             *)
Found(d) == {x \in Held : x[1] = d /\ db[x] # "off"}

(* A bug: what is found now replaces what was recorded.                    *)
FoundReplaces(r, d) ==
  [x \in Held |->
     IF x[1] # d THEN r[x]
     ELSE IF x \in Found(d) THEN [mode |-> db[x], after |-> before[x] \cap Found(d)]
     ELSE NoEntry]

(* A bug: the triggers of an event are sorted backwards.                   *)
MergeBackwards(r, d) ==
  [x \in Held |->
     IF x \in Found(d) \ Entries(r)
     THEN [mode |-> db[x], after |-> Found(d) \ (before[x] \cup {x})]
     ELSE r[x]]

(* A bug: what is recorded is the state a trigger usually has.             *)
MergeEnabled(r, d) ==
  [x \in Held |->
     IF x \in Found(d) \ Entries(r)
     THEN [mode |-> "origin", after |-> before[x] \cap Found(d)]
     ELSE r[x]]

(* A trigger already recorded keeps its record; the others join the list,  *)
(* in the order they fire in.                                              *)
MergeFound(r, d) ==
  [x \in Held |->
     IF x \in Found(d) \ Entries(r)
     THEN [mode |-> db[x],
           after |-> {y \in Entries(r) : y[1] = d} \cup (before[x] \cap Found(d))]
     ELSE r[x]]

(* The triggers that may come next of those left to do: a destination's    *)
(* are done in the order of its list; the order of the destinations is     *)
(* left open.                                                              *)
Following(todo, r) ==
  {x \in todo : r[x].after \cap todo = {}}

(* DROP TRIGGER IF EXISTS, or ALTER TABLE ... DISABLE TRIGGER.             *)
TakeAway(x) ==
  /\ db' = [db EXCEPT ![x] = "off"]
  /\ before' = IF x[1] \in MySQL
               THEN [y \in Held |-> IF y = x THEN {} ELSE before[y] \ {x}]
               ELSE before

(* CREATE TRIGGER IF NOT EXISTS, to fire after the triggers there are, or  *)
(* ALTER TABLE ... ENABLE TRIGGER in the state recorded.                   *)
PutBack(x, mode) ==
  IF x[1] \in MySQL
  THEN IF db[x] # "off" THEN UNCHANGED dbVars
       ELSE db' = [db EXCEPT ![x] = mode] /\ before' = [before EXCEPT ![x] = Found(x[1])]
  ELSE db' = [db EXCEPT ![x] = mode] /\ UNCHANGED before

-----------------------------------------------------------------------------
Idle == [job |-> None, doing |-> "nothing", pc |-> "none", recorded |-> EmptyRecord,
         dests |-> {}, toRead |-> {}, todo |-> {}, failed |-> FALSE]

Started(j, activity) == [Idle EXCEPT !.job = j, !.doing = activity, !.pc = "read"]

(* Where a run goes when an activity is through, and when its attempts are *)
(* used up.                                                                *)
Tries(phase)   == IF phase = "suspending" THEN SuspendTries ELSE RestoreTries
Activity(phase) == IF phase = "suspending" THEN "suspend" ELSE "restore"
(* A bug: a run syncs although its triggers could not be suspended.        *)
SyncsAnyway == [suspending |-> "syncing", restoring |-> "leaving", leaving |-> "left"]

OnSuccess == [suspending |-> "syncing", restoring |-> "restored", leaving |-> "left"]
OnError   == [suspending |-> "leaving", restoring |-> "leaving", leaving |-> "left"]

Waiting == {"suspending", "restoring", "leaving"}
Over    == {"none", "restored", "left", "terminated"}

Enter(r, phase) == [r EXCEPT !.phase = phase, !.tries = 0, !.waits = None]

AfterAttempt(r, ok) ==
  IF ok THEN Enter(r, OnSuccess[r.phase])
  ELSE IF r.tries < Tries(r.phase) THEN [r EXCEPT !.waits = None]
  ELSE Enter(r, OnError[r.phase])

(* The order they fire in, of those there are, before any run.             *)
IsBefore(x, y) ==
  /\ x[1] = y[1] /\ x[2] < y[2]
  /\ x[1] \in MySQL => original[x] # "off" /\ original[y] # "off"

Init ==
  /\ original \in Originals
  /\ db = original
  /\ before = [x \in Held |-> {y \in Held : IsBefore(y, x)}]
  /\ record = [j \in Jobs |-> EmptyRecord]
  /\ destinations \in [Jobs -> (SUBSET Destinations) \ {{}}]
  /\ run = [j \in Jobs |-> [phase |-> "none", tries |-> 0, waits |-> None, runs |-> 0]]
  /\ attempt = [w \in Workers |-> Idle]
  /\ abandoned = FALSE
  /\ faults = 0

-----------------------------------------------------------------------------
(* The attempt on a worker takes a step.                                   *)
Goes(w, a) == attempt' = [attempt EXCEPT ![w] = a]

(* It returns, and the run that waits for it, if any, goes on.             *)
Returns(w, ok) ==
  /\ attempt' = [attempt EXCEPT ![w] = Idle]
  /\ run' = [j \in Jobs |-> IF run[j].waits = w THEN AfterAttempt(run[j], ok) ELSE run[j]]

Fault == faults < MaxFaults /\ faults' = faults + 1

ReadToSuspend(w) ==
  LET a == attempt[w]
  IN  /\ a.doing = "suspend" /\ a.pc = "read"
      /\ Goes(w, [a EXCEPT !.recorded = record[a.job], !.dests = destinations[a.job],
                           !.toRead = destinations[a.job], !.pc = "merge"])
      /\ UNCHANGED <<envVars, dbVars, record, run, abandoned, faults>>

ReadTriggers(w, d) ==
  LET a == attempt[w]
  IN  /\ a.doing = "suspend" /\ a.pc = "merge" /\ d \in a.toRead
      /\ Goes(w, [a EXCEPT !.recorded = MergeFound(a.recorded, d), !.toRead = @ \ {d}])
      /\ UNCHANGED <<envVars, dbVars, record, run, abandoned, faults>>

(* A bug: the record is stored once the triggers are out of the way.       *)
StoreNothingYet(w) ==
  LET a == attempt[w]
  IN  /\ a.doing = "suspend" /\ a.pc = "merge" /\ a.toRead = {}
      /\ Goes(w, [a EXCEPT !.pc = "apply",
                           !.todo = {x \in Entries(a.recorded) : x[1] \in a.dests}])
      /\ UNCHANGED <<envVars, dbVars, record, run, abandoned, faults>>

StoreRecord(w) ==
  LET a == attempt[w]
  IN  /\ a.doing = "suspend" /\ a.pc = "merge" /\ a.toRead = {}
      /\ record' = [record EXCEPT ![a.job] = a.recorded]
      /\ Goes(w, [a EXCEPT !.pc = "apply",
                           !.todo = {x \in Entries(a.recorded) : x[1] \in a.dests}])
      /\ UNCHANGED <<envVars, dbVars, run, abandoned, faults>>

SuspendOne(w, x) ==
  LET a == attempt[w]
  IN  /\ a.doing = "suspend" /\ a.pc = "apply" /\ x \in Following(a.todo, a.recorded)
      /\ TakeAway(x)
      /\ Goes(w, [a EXCEPT !.todo = @ \ {x}])
      /\ UNCHANGED <<envVars, record, run, abandoned, faults>>

SuspendReturns(w) ==
  LET a == attempt[w]
  IN  /\ a.doing = "suspend" /\ a.pc = "apply" /\ a.todo = {}
      /\ Returns(w, TRUE)
      /\ UNCHANGED <<envVars, dbVars, record, abandoned, faults>>

ReadToRestore(w) ==
  LET a == attempt[w]
  IN  /\ a.doing = "restore" /\ a.pc = "read"
      /\ Goes(w, [a EXCEPT !.recorded = record[a.job], !.todo = Entries(record[a.job]),
                           !.pc = IF Entries(record[a.job]) = {} THEN "end" ELSE "apply"])
      /\ UNCHANGED <<envVars, dbVars, record, run, abandoned, faults>>

RestoreOne(w, x) ==
  LET a == attempt[w]
  IN  /\ a.doing = "restore" /\ a.pc = "apply" /\ x \in Following(a.todo, a.recorded)
      /\ PutBack(x, a.recorded[x].mode)
      /\ Goes(w, [a EXCEPT !.todo = @ \ {x}, !.pc = IF a.todo = {x} THEN "store" ELSE "apply"])
      /\ UNCHANGED <<envVars, record, run, abandoned, faults>>

(* A destination cannot be opened, or a statement fails: the rest is left  *)
(* for another attempt. The trigger may be back all the same, when what    *)
(* failed is to give the session its settings back.                        *)
RestoreStops(w) ==
  LET a == attempt[w]
  IN  /\ a.doing = "restore" /\ a.pc = "apply"
      /\ Fault
      /\ \/ UNCHANGED dbVars
         \/ \E x \in Following(a.todo, a.recorded) : PutBack(x, a.recorded[x].mode)
      /\ Goes(w, [a EXCEPT !.pc = "store", !.failed = TRUE])
      /\ UNCHANGED <<envVars, record, run, abandoned>>

(* A bug: the record is emptied whatever could be put back.                *)
StoreEmpty(w) ==
  LET a == attempt[w]
  IN  /\ a.doing = "restore" /\ a.pc = "store"
      /\ record' = [record EXCEPT ![a.job] = EmptyRecord]
      /\ Goes(w, [a EXCEPT !.pc = "end"])
      /\ UNCHANGED <<envVars, dbVars, run, abandoned, faults>>

StoreRemaining(w) ==
  LET a == attempt[w]
  IN  /\ a.doing = "restore" /\ a.pc = "store"
      /\ record' = [record EXCEPT ![a.job] =
                      [x \in Held |->
                         IF x \in a.todo
                         THEN [a.recorded[x] EXCEPT !.after = @ \cap a.todo] ELSE NoEntry]]
      /\ Goes(w, [a EXCEPT !.pc = "end"])
      /\ UNCHANGED <<envVars, dbVars, run, abandoned, faults>>

RestoreReturns(w) ==
  LET a == attempt[w]
  IN  /\ a.doing = "restore" /\ a.pc = "end"
      /\ Returns(w, ~ a.failed)
      /\ UNCHANGED <<envVars, dbVars, record, abandoned, faults>>

(* A call fails, its answer is lost, the attempt times out or its worker   *)
(* is gone: what it did stays done.                                        *)
AttemptFails(w) ==
  /\ attempt[w].doing # "nothing"
  /\ Fault
  /\ Returns(w, FALSE)
  /\ UNCHANGED <<envVars, dbVars, record, abandoned>>

-----------------------------------------------------------------------------
(* The workflow. The steps before are other components; a run comes here   *)
(* with its configs, and with the restore deferred.                        *)
BeginRun(j) ==
  /\ run[j].phase \in Over /\ run[j].runs < MaxRuns
  /\ run' = [run EXCEPT ![j] = [Enter(run[j], "suspending") EXCEPT !.runs = @ + 1]]
  /\ UNCHANGED <<envVars, dbVars, record, attempt, abandoned, faults>>

StartAttempt(j, w) ==
  /\ run[j].phase \in Waiting /\ run[j].waits = None /\ attempt[w].doing = "nothing"
  /\ run' = [run EXCEPT ![j].waits = w, ![j].tries = @ + 1]
  /\ Goes(w, Started(j, Activity(run[j].phase)))
  /\ UNCHANGED <<envVars, dbVars, record, abandoned, faults>>

(* The tables are synced and checked, or the run is failing.               *)
SyncEnds(j) ==
  /\ run[j].phase = "syncing"
  /\ \E phase \in {"restoring", "leaving"} : run' = [run EXCEPT ![j] = Enter(@, phase)]
  /\ UNCHANGED <<envVars, dbVars, record, attempt, abandoned, faults>>

(* A canceled run waits for nothing more, and puts the triggers back on a  *)
(* context of its own, which a cancellation does not reach.                *)
CancelRun(j) ==
  /\ run[j].phase \in {"suspending", "syncing", "restoring"}
  /\ Fault
  /\ run' = [run EXCEPT ![j] = Enter(@, "leaving")]
  /\ abandoned' = (abandoned \/ run[j].waits # None)
  /\ UNCHANGED <<envVars, dbVars, record, attempt>>

TerminateRun(j) ==
  /\ run[j].phase \notin Over
  /\ Fault
  /\ run' = [run EXCEPT ![j] = Enter(@, "terminated")]
  /\ abandoned' = (abandoned \/ run[j].waits # None)
  /\ UNCHANGED <<envVars, dbVars, record, attempt>>

(* A user changes the destinations of a job between two runs.              *)
EditJob(j, ds) ==
  /\ run[j].phase \in Over \ {"none"} /\ run[j].runs < MaxRuns /\ ds # {}
  /\ destinations' = [destinations EXCEPT ![j] = ds]
  /\ UNCHANGED <<original, dbVars, record, run, attempt, abandoned, faults>>

AttemptStep(w) ==
  \/ ReadToSuspend(w) \/ StoreRecord(w) \/ SuspendReturns(w)
  \/ ReadToRestore(w) \/ RestoreStops(w) \/ StoreRemaining(w) \/ RestoreReturns(w)
  \/ AttemptFails(w)
  \/ \E d \in Destinations : ReadTriggers(w, d)
  \/ \E x \in Held : SuspendOne(w, x) \/ RestoreOne(w, x)

RunStep(j) ==
  \/ BeginRun(j) \/ SyncEnds(j) \/ CancelRun(j) \/ TerminateRun(j)
  \/ \E w \in Workers : StartAttempt(j, w)
  \/ \E ds \in SUBSET Destinations : EditJob(j, ds)

Next == (\E w \in Workers : AttemptStep(w)) \/ (\E j \in Jobs : RunStep(j))

Spec == Init /\ [][Next]_vars
-----------------------------------------------------------------------------
(* Type correctness of the triggers, the records, the runs and attempts.   *)
Entry  == [mode : Modes \cup {"none"}, after : SUBSET Held]
Record == [Held -> Entry]

AttemptType ==
  [job : Jobs \cup {None}, doing : {"nothing", "suspend", "restore"},
   pc : {"none", "read", "merge", "apply", "store", "end"}, recorded : Record,
   dests : SUBSET Destinations, toRead : SUBSET Destinations, todo : SUBSET Held,
   failed : BOOLEAN]

RunType ==
  [phase : Waiting \cup Over \cup {"syncing"}, tries : Nat, waits : Workers \cup {None},
   runs : Nat]

TypeOK ==
  /\ original \in Originals /\ db \in [Held -> Modes] /\ before \in [Held -> SUBSET Held]
  /\ record \in [Jobs -> Record]
  /\ destinations \in [Jobs -> SUBSET Destinations]
  /\ run \in [Jobs -> RunType]
  /\ attempt \in [Workers -> AttemptType]
  /\ abandoned \in BOOLEAN /\ faults \in Nat

(* What is recorded of a trigger, anywhere, is the state it had before any *)
(* run, never the state a run left it in.                                  *)
TellsOriginal(r) ==
  \A x \in Entries(r) : r[x].mode = original[x] /\ original[x] # "off"

RecordsTellOriginal ==
  /\ \A j \in Jobs : TellsOriginal(record[j])
  /\ \A w \in Workers : TellsOriginal(attempt[w].recorded)

(* A trigger is never out of the way without its record, which an attempt  *)
(* that has put it back may be about to drop: whatever fails or is lost,   *)
(* unless an attempt outlives the run it is for.                           *)
PutsBack(j, x) ==
  \E w \in Workers :
    /\ attempt[w].job = j /\ attempt[w].doing = "restore"
    /\ attempt[w].pc \in {"apply", "store"} /\ x \notin attempt[w].todo

OutOfTheWay == {x \in Held : db[x] # original[x]}

OutOfTheWayIsRecorded ==
  ~ abandoned => \A x \in OutOfTheWay :
    /\ db[x] = "off"
    /\ \E j \in Jobs : x \in Entries(record[j]) /\ ~ PutsBack(j, x)

(* Once every job's run has put its triggers back, each is in the state it *)
(* was in before: what earlier runs left is put back too, on destinations  *)
(* a job no longer has as well.                                            *)
AllRestored == \A j \in Jobs : run[j].phase \in {"none", "restored"}

RestoredAsBefore == ~ abandoned /\ AllRestored => db = original

(* While the only job there is syncs, no trigger fires on what it writes.  *)
OneJob == \A j, k \in Jobs : j = k

WritesUndisturbed ==
  OneJob /\ ~ abandoned => \A j \in Jobs, x \in Held :
    run[j].phase = "syncing" /\ x[1] \in destinations[j] => db[x] = "off"

(* MySQL triggers fire in the order they did, when nothing failed and no   *)
(* other job had a part of them out of the way in between.                 *)
PlacesKept == \A x, y \in Held : IsBefore(x, y) => x \in before[y]

PlacesKeptIfWhole == OneJob /\ faults = 0 /\ AllRestored => PlacesKept

(* "A trigger is never out of the way without its record" (SuspendTriggers).*)
NeverWithoutRecord ==
  \A x \in OutOfTheWay : \E j \in Jobs : x \in Entries(record[j])

(* "created again after it, exactly as they were: [...] same place among   *)
(* the triggers of their event" (package destinationtriggers_activity)     *)
NothingLeft == \A j \in Jobs : run[j].phase \in Over /\ Entries(record[j]) = {}

CreatedInPlace == ~ abandoned /\ NothingLeft => PlacesKept

-----------------------------------------------------------------------------
(* The inductive invariant behind the safety properties: how attempts, the *)
(* runs that wait for them and the records agree.                          *)
WellFormed(a) ==
  /\ a.doing # "nothing" => a.job \in Jobs
  /\ a.doing = "suspend" => a.pc \in {"read", "merge", "apply"}
  /\ a.doing = "restore" => a.pc \in {"read", "apply", "store", "end"}
  /\ a.todo \subseteq Entries(a.recorded)
  /\ a.pc \in {"read", "merge"} => a.todo = {}
  /\ a.pc \in {"read", "merge", "apply"} => ~ a.failed
  /\ a.pc = "store" /\ ~ a.failed => a.todo = {}

AttemptFacts == \A w \in Workers : WellFormed(attempt[w])

WaitFacts ==
  \A j \in Jobs :
    /\ run[j].waits # None =>
         /\ run[j].phase \in Waiting
         /\ attempt[run[j].waits].job = j
         /\ attempt[run[j].waits].doing = Activity(run[j].phase)

DbFacts == \A x \in Held : db[x] \in {original[x], "off"}

(* The rest needs that a run waits for each attempt of it.                 *)
Awaited ==
  \A w \in Workers : attempt[w].doing # "nothing" => run[attempt[w].job].waits = w

(* What the attempt knows of the record of its job.                        *)
KnowsRecord(a, r) ==
  /\ a.doing = "suspend" /\ a.pc = "merge" => Entries(r) \subseteq Entries(a.recorded)
  /\ a.doing # "nothing" /\ a.pc \in {"apply", "store"} => r = a.recorded
  /\ a.doing = "restore" /\ a.pc = "end" /\ ~ a.failed => Entries(r) = {}

RecordFacts ==
  /\ \A w \in Workers : KnowsRecord(attempt[w], record[attempt[w].job])
  /\ \A j \in Jobs : run[j].phase \in {"none", "restored"} => Entries(record[j]) = {}

(* What a suspending attempt of the only job has come to is out of the way,*)
(* or about to be.                                                         *)
SuspendFacts ==
  /\ \A w \in Workers :
       LET a == attempt[w]
       IN  a.doing = "suspend" /\ a.pc \in {"merge", "apply"} =>
             /\ a.dests = destinations[a.job]
             /\ \A x \in Held : x[1] \in a.dests /\ db[x] # "off" =>
                  IF a.pc = "merge" THEN x[1] \in a.toRead \/ x \in Entries(a.recorded)
                  ELSE x \in a.todo
  /\ WritesUndisturbed

IndInv ==
  /\ TypeOK /\ AttemptFacts /\ WaitFacts /\ DbFacts /\ RecordsTellOriginal
  /\ ~ abandoned => Awaited /\ RecordFacts /\ OutOfTheWayIsRecorded
  /\ ~ abandoned /\ OneJob => SuspendFacts

-----------------------------------------------------------------------------
(* The inductive invariant behind PlacesKeptIfWhole, for one job and as    *)
(* long as nothing failed.  Those that are there are in their places.      *)
PresentInPlace ==
  \A x, y \in Held :
    IsBefore(x, y) /\ (x[1] \in MySQL => db[x] # "off" /\ db[y] # "off") => x \in before[y]

(* A record has all the triggers of a destination or none, in their order. *)
Listed(r) ==
  /\ \A x \in Entries(r), y \in Held : x[1] = y[1] /\ original[y] # "off" => y \in Entries(r)
  /\ \A x, y \in Entries(r) : IsBefore(x, y) => x \in r[y].after

AllOff(r) == \A x \in Entries(r) : db[x] = "off"

(* Between its attempts, a run has nothing out of the way, or all of it.   *)
RunPlaces(r, rec) ==
  /\ r.phase # "terminated"
  /\ r.phase \in {"none", "restored", "left"} \/ (r.phase = "suspending" /\ r.waits = None) =>
       Entries(rec) = {}
  /\ r.phase = "syncing" \/ (r.phase \in {"restoring", "leaving"} /\ r.waits = None) => AllOff(rec)

(* An attempt puts the triggers of a list back from its front.             *)
AttemptPlaces(a, rec) ==
  /\ ~ a.failed
  /\ a.doing = "suspend" /\ a.pc \in {"read", "merge"} => Entries(rec) = {}
  /\ a.doing = "suspend" /\ a.pc = "merge" =>
       /\ Listed(a.recorded) /\ a.toRead \subseteq a.dests
       /\ \A x \in Entries(a.recorded) : x[1] \in a.dests
  /\ a.doing = "suspend" /\ a.pc = "apply" => \A x \in Entries(rec) \ a.todo : db[x] = "off"
  /\ a.doing = "restore" /\ a.pc = "read" => AllOff(rec)
  /\ a.doing = "restore" /\ a.pc = "apply" =>
       /\ \A x \in a.todo : db[x] = "off"
       /\ \A x \in a.todo, y \in Entries(rec) \ a.todo : ~ IsBefore(x, y)

PlaceInv ==
  /\ ~ abandoned /\ PresentInPlace
  /\ \A j \in Jobs : Listed(record[j]) /\ RunPlaces(run[j], record[j])
  /\ \A w \in Workers : attempt[w].doing # "nothing" => AttemptPlaces(attempt[w], record[attempt[w].job])

PlacesIfWhole == OneJob /\ faults = 0 => PlaceInv
=============================================================================
