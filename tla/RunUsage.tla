------------------------------ MODULE RunUsage ------------------------------
(***************************************************************************)
(* The row of a run in the usage counters.  The workflow of the run tells  *)
(* the API of its start and of its end (TrackRunUsage); its calls may be   *)
(* lost, late or repeated, and the job may be deleted meanwhile.  The      *)
(* settlers of the API replicas close the rows nobody told the end of,     *)
(* with what Temporal says became of the workflow.                         *)
(***************************************************************************)
EXTENDS Naturals, FiniteSets

CONSTANTS
    Runs, Settlers, None,
    DayLength, MaxTime, \* the clock, in ticks
    SettleAfter,        \* the age of the runs a settler looks at
    MaxTries,           \* the attempts of an activity
    MaxFaults

ASSUME UsageAssumption ==
    /\ DayLength \in Nat \ {0} /\ MaxTime \in Nat /\ SettleAfter \in Nat
    /\ MaxTries \in Nat \ {0} /\ MaxFaults \in Nat
    /\ None \notin Nat /\ None \notin Runs

Told == {"completed", "failed", "canceled"}
Ended == Told \cup {"terminated", "timed_out"}

VARIABLES
    now,        \* the clock of the database
    row,        \* run_usage: status and day of each run
    wf,         \* the workflow of each run
    canceled,   \* the runs someone asked to stop
    told,       \* the runs whose end the API answered for
    fate,       \* what Temporal says of it
    calls,      \* requests to the API that are not answered
    gone,       \* the runs whose job is deleted
    settler,    \* what each settler has left of its pass
    faults
vars == <<now, row, wf, canceled, told, fate, calls, gone, settler, faults>>

DayOf(t) == t \div DayLength
Phases == {"off", "start", "work", "end", "over"}
Called == [run : Runs, what : {"start", "end"}, try : 1..MaxTries,
           job : {"unread", "found", "gone"}]

TypeOK ==
    /\ now \in Nat /\ faults \in 0..MaxFaults
    /\ row \in [Runs -> [status : {"none", "running"} \cup Ended, day : Nat \cup {None}]]
    /\ wf \in [Runs -> [pc : Phases, tries : 0..MaxTries, started : Nat,
                        outcome : Told, closes : Told]]
    /\ canceled \subseteq Runs /\ told \subseteq Runs
    /\ fate \in [Runs -> {"running", "forgotten"} \cup Ended]
    /\ calls \subseteq Called /\ gone \subseteq Runs
    /\ settler \in [Settlers -> [left : SUBSET Runs, run : Runs \cup {None}, status : Ended]]

AtRest == [left |-> {}, run |-> None, status |-> "terminated"]
Init ==
    /\ now = 0 /\ faults = 0 /\ calls = {} /\ gone = {}
    /\ row = [r \in Runs |-> [status |-> "none", day |-> None]]
    /\ wf = [r \in Runs |-> [pc |-> "off", tries |-> 0, started |-> 0,
                             outcome |-> "failed", closes |-> "failed"]]
    /\ canceled = {} /\ told = {}
    /\ fate = [r \in Runs |-> "running"]
    /\ settler = [s \in Settlers |-> AtRest]

Fault == faults < MaxFaults /\ faults' = faults + 1

-----------------------------------------------------------------------------
(* The workflow. *)

Call(r, what, n) == calls' = calls \cup {[run |-> r, what |-> what, try |-> n, job |-> "unread"]}

\* The run that goes on after the report of its start, or ends after that of its end.
GoesOn(r) ==
    /\ wf' = [wf EXCEPT ![r].pc = IF @ = "start" THEN "work" ELSE "over", ![r].tries = 0]
    /\ fate' = IF wf[r].pc = "start" THEN fate ELSE [fate EXCEPT ![r] = wf[r].closes]

\* A run starts early enough for the clock to reach the settlers (a bound).
StartRun(r) ==
    /\ wf[r].pc = "off" /\ r \notin gone /\ now + SettleAfter < MaxTime
    /\ wf' = [wf EXCEPT ![r].pc = "start", ![r].tries = 1, ![r].started = now]
    /\ Call(r, "start", 1)
    /\ UNCHANGED <<now, row, canceled, told, fate, gone, settler, faults>>

\* The attempt is given up while its request may still be on its way.
TimesOut(r) ==
    /\ wf[r].pc \in {"start", "end"} /\ Fault
    /\ \/ /\ wf[r].tries < MaxTries
          /\ wf' = [wf EXCEPT ![r].tries = @ + 1]
          /\ Call(r, wf[r].pc, wf[r].tries + 1)
          /\ UNCHANGED fate
       \/ wf[r].tries = MaxTries /\ GoesOn(r) /\ UNCHANGED calls
    /\ UNCHANGED <<now, row, canceled, told, gone, settler>>

\* Someone asks for the run to stop: it waits no more for its start to be
\* told.  The report of its end runs in a context of its own.
Cancel(r) ==
    /\ wf[r].pc \in {"start", "work", "end"} /\ r \notin canceled
    /\ canceled' = canceled \cup {r}
    /\ wf' = [wf EXCEPT ![r].pc = IF @ = "start" THEN "work" ELSE @]
    /\ UNCHANGED <<now, row, told, fate, calls, gone, settler, faults>>

\* A run that returns no error has completed, whoever asked for it to stop.
RunOutcome(r, err) ==
    IF err = "none" THEN "completed" ELSE IF r \in canceled THEN "canceled" ELSE "failed"
\* Temporal goes by the error alone.
ClosesWith(err) == IF err = "none" THEN "completed" ELSE err

FnEnds(r) ==
    /\ wf[r].pc = "work"
    /\ \E err \in {"none", "failed", "canceled"} :
          wf' = [wf EXCEPT ![r].pc = "end", ![r].tries = 1,
                           ![r].outcome = RunOutcome(r, err),
                           ![r].closes = ClosesWith(err)]
    /\ Call(r, "end", 1)
    /\ UNCHANGED <<now, row, canceled, told, fate, gone, settler, faults>>

\* The workflow is terminated, or times out: it tells nothing of it.
Terminate(r) ==
    /\ wf[r].pc \in {"start", "work", "end"} /\ Fault
    /\ wf' = [wf EXCEPT ![r].pc = "over"]
    /\ \E status \in {"terminated", "timed_out"} : fate' = [fate EXCEPT ![r] = status]
    /\ UNCHANGED <<now, row, canceled, told, calls, gone, settler>>

\* Temporal keeps a closed workflow for a while only.
Forget(r) ==
    /\ fate[r] \in Ended /\ fate' = [fate EXCEPT ![r] = "forgotten"]
    /\ UNCHANGED <<now, row, wf, canceled, told, calls, gone, settler, faults>>

-----------------------------------------------------------------------------
(* The API. *)

\* Wrong: the last end told wins.
LastEndWins(c) == IF c.job = "found" THEN {"none", "running"} \cup Ended ELSE {"running"}

\* The rows an end is written to: none is created for a job that is gone.
OpenFor(c) == IF c.job = "found" THEN {"none", "running"} ELSE {"running"}
Closed(status) == [status |-> status, day |-> DayOf(now)]

RecordRunStarted(c) ==
    row' = IF c.job = "found" /\ row[c.run].status = "none"
           THEN [row EXCEPT ![c.run] = [status |-> "running", day |-> None]] ELSE row

RecordRunEnded(c) ==
    row' = IF row[c.run].status \in OpenFor(c)
           THEN [row EXCEPT ![c.run] = Closed(wf[c.run].outcome)] ELSE row

JobOf(c) ==
    /\ c.job = "unread"
    /\ calls' = (calls \ {c}) \cup
                {[c EXCEPT !.job = IF c.run \in gone THEN "gone" ELSE "found"]}
    /\ UNCHANGED <<now, row, wf, canceled, told, fate, gone, settler, faults>>

Awaited(c) == wf[c.run].pc = c.what /\ wf[c.run].tries = c.try

\* The handler writes; the answer may be lost, or come to nobody.  A request
\* that is lost is one no handler ever takes.
Handle(c) ==
    /\ c.job # "unread" /\ calls' = calls \ {c}
    /\ \/ c.what = "start" /\ RecordRunStarted(c)
       \/ c.what = "end" /\ RecordRunEnded(c)
    /\ \/ /\ Awaited(c) /\ GoesOn(c.run)
          /\ told' = IF c.what = "end" THEN told \cup {c.run} ELSE told
       \/ UNCHANGED <<wf, told, fate>>
    /\ UNCHANGED <<now, canceled, gone, settler, faults>>

\* An answer that asking again cannot change is not asked for again.
Refused(c) ==
    /\ Fault /\ calls' = calls \ {c} /\ Awaited(c) /\ GoesOn(c.run)
    /\ UNCHANGED <<now, row, canceled, told, gone, settler>>

DeleteJob(r) ==
    /\ wf[r].pc # "off" /\ r \notin gone /\ gone' = gone \cup {r}
    /\ UNCHANGED <<now, row, wf, canceled, told, fate, calls, settler, faults>>

-----------------------------------------------------------------------------
(* The settlers. *)

\* A pass begins with the open runs old enough, SettleAfter before its clock.
List(s) ==
    /\ settler[s] = AtRest
    /\ LET open == {r \in Runs : row[r].status = "running" /\ wf[r].started + SettleAfter < now}
       IN open # {} /\ settler' = [settler EXCEPT ![s].left = open]
    /\ UNCHANGED <<now, row, wf, canceled, told, fate, calls, gone, faults>>

\* Wrong: a status that is no end taken for one; a workflow Temporal does not
\* know left open.
FateOrEnd(r) == IF fate[r] \in {"forgotten", "running"} THEN "terminated" ELSE fate[r]
FateIfKnown(r) == IF fate[r] = "forgotten" THEN "running" ELSE fate[r]

\* What Temporal says: an error leaves the run to the next pass.
FateOf(r) == IF fate[r] = "forgotten" THEN "terminated" ELSE fate[r]

AskFate(s, r) ==
    /\ r \in settler[s].left /\ settler[s].run = None
    /\ \/ /\ FateOf(r) # "running" /\ UNCHANGED faults
          /\ settler' = [settler EXCEPT ![s] = [left |-> @.left \ {r}, run |-> r,
                                                status |-> FateOf(r)]]
       \/ /\ FateOf(r) = "running" /\ UNCHANGED faults
          /\ settler' = [settler EXCEPT ![s].left = @ \ {r}]
       \/ Fault /\ settler' = [settler EXCEPT ![s].left = @ \ {r}]
    /\ UNCHANGED <<now, row, wf, canceled, told, fate, calls, gone>>

\* Wrong: a run is settled even when it is closed already.
SettledAnyway(r, status) == [row EXCEPT ![r].status = status]

\* Only a run still open is settled.
Settled(r, status) == IF row[r].status = "running" THEN [row EXCEPT ![r] = Closed(status)] ELSE row

Settle(s) ==
    /\ settler[s].run # None
    /\ \/ row' = Settled(settler[s].run, settler[s].status) /\ UNCHANGED faults
       \/ Fault /\ UNCHANGED row
    /\ settler' = [settler EXCEPT ![s].run = None, ![s].status = "terminated"]
    /\ UNCHANGED <<now, wf, canceled, told, fate, calls, gone>>

\* The replica stops: its pass ends where it is.
StopPass(s) ==
    /\ settler[s] # AtRest /\ Fault /\ settler' = [settler EXCEPT ![s] = AtRest]
    /\ UNCHANGED <<now, row, wf, canceled, told, fate, calls, gone>>

Tick ==
    /\ now < MaxTime /\ now' = now + 1
    /\ UNCHANGED <<row, wf, canceled, told, fate, calls, gone, settler, faults>>

-----------------------------------------------------------------------------
WorkflowStep(r) ==
    \/ StartRun(r) \/ TimesOut(r) \/ Cancel(r) \/ FnEnds(r) \/ Terminate(r) \/ Forget(r)
    \/ DeleteJob(r)
ApiStep(c) == JobOf(c) \/ Handle(c) \/ Refused(c)
SettlerStep(s) == List(s) \/ (\E r \in Runs : AskFate(s, r)) \/ Settle(s) \/ StopPass(s)

Next ==
    \/ Tick
    \/ \E r \in Runs : WorkflowStep(r)
    \/ \E c \in calls : ApiStep(c)
    \/ \E s \in Settlers : SettlerStep(s)

Spec == Init /\ [][Next]_vars

\* A replica has a ticker, and its passes and the clock go on; a pass asks
\* about every run it listed.  Nothing is assumed of the calls, nor of Temporal.
Fairness ==
    /\ WF_vars(Tick)
    /\ \A s \in Settlers : WF_vars(List(s)) /\ WF_vars(Settle(s))
                           /\ \A r \in Runs : WF_vars(AskFate(s, r))
FairSpec == Spec /\ Fairness

-----------------------------------------------------------------------------
(* A run is counted once, on the day the database records its end, and for *)
(* good: a second end, told late, settled by two replicas, or told after   *)
(* it was settled, changes neither the day nor the count (the statements   *)
(* of usage.sql that close a row).                                         *)
Days == INSTANCE RunsByDay WITH recorded <- [r \in Runs |-> row[r].day]
CountedOnce == Days!DaysSpec

(* A row is closed only once the run has done its work: a settler takes no *)
(* run for ended that still runs, whatever its age (TemporalFate), and a   *)
(* closed row has a day, which the reports go by.                          *)
NotClosedEarly ==
    \A r \in Runs : row[r].status \in Ended => wf[r].pc \in {"end", "over"} /\ row[r].day # None

(* An end the API answered for is what the row keeps, and the only end it  *)
(* is given, as long as the job is there: no settler that asked Temporal   *)
(* since replaces it with the status Temporal closed the workflow with.    *)
ToldIsKept ==
    \A r \in Runs : r \in told \ gone => row[r].status = wf[r].outcome

(* A run that is over does not stay open: whatever call was lost, some     *)
(* pass of a settler closes its row (SettleOnce).                          *)
OpenRunsAreSettled ==
    \A r \in Runs : (row[r].status = "running" /\ wf[r].pc = "over")
                       ~> (row[r].status \in Ended)
=============================================================================
