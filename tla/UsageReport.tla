----------------------------- MODULE UsageReport -----------------------------
(***************************************************************************)
(* The usage report of an instance: each replica of the API makes passes   *)
(* that prepare the report of yesterday, once per day for the instance,    *)
(* then send those that are due to the control plane.  The replicas share  *)
(* the database only; their clocks differ, and so may their settings.      *)
(***************************************************************************)
EXTENDS RunsByDay, Intake

CONSTANTS
    Replicas,
    Skew,               \* how far the clock of each is ahead of the database
    Diagnosing,         \* those whose reports carry the diagnostics
    ClosedAfter,        \* how long after midnight a report is prepared
    WaitBeforeFirst,    \* how long the first report waits
    RetryAfter,         \* how long a report tried waits
    SentDays,           \* how many days back a report is sent
    SentBefore,         \* when a report of an earlier day was sent, or None
    MaxFaults

VARIABLES
    mode,       \* of each replica: online, local, or no license in force
    reports,    \* usage_reports: the report of each day, or None
    since,      \* since when the instance sends, or None
    pass,       \* what each replica does
    inbox,      \* requests at the control plane, or on their way
    faults
vars == <<now, recorded, intake, mode, reports, since, pass, inbox, faults>>
instance == <<reports, since>>

Idle == [pc |-> "off", at |-> 0, runs |-> {}, since |-> None, waits |-> TRUE, day |-> None]
Document == [day : ReportDays, by : Replicas, runs : SUBSET Runs, errors : SUBSET Runs]
Report == [doc : Document, preparedAt : Nat, sentAt : Nat \cup {None},
           triedAt : Nat \cup {None}]

ASSUME ReportAssumption ==
    /\ Skew \in [Replicas -> Nat] /\ Diagnosing \subseteq Replicas
    /\ ClosedAfter \in Nat /\ WaitBeforeFirst \in Nat /\ RetryAfter \in Nat
    /\ SentDays \in Nat \ {0} /\ SentBefore \in Nat \cup {None}
    /\ MaxFaults \in Nat /\ ReportDays \subseteq Nat
\* The clocks differ by seconds, and the day before is closed minutes after midnight.
ASSUME ClockAssumption == \A p \in Replicas : Skew[p] <= ClosedAfter
ASSUME ValuesAssumption ==
    None \notin Replicas \cup ReportDays \cup Report /\ Unset \notin Document

TypeOK ==
    /\ CountedTypeOK /\ known \in BOOLEAN /\ faults \in 0..MaxFaults
    /\ pending \subseteq Document /\ stored \in [ReportDays -> Document \cup {Unset}]
    /\ conflicts \subseteq ReportDays
    /\ mode \in [Replicas -> {"online", "local", "none"}]
    /\ reports \in [ReportDays -> Report \cup {None}]
    /\ since \in Nat \cup {None}
    /\ pass \in [Replicas -> [pc : {"off", "count", "errors", "send", "since", "last",
                                    "claim", "post", "mark"},
                              at : Nat, runs : SUBSET Runs, since : Nat \cup {None},
                              waits : BOOLEAN, day : ReportDays \cup {None}]]
    /\ inbox \subseteq [doc : Document, by : Replicas \cup {None}, unknown : BOOLEAN]
    /\ \A q \in inbox : q.by # None => pass[q.by].pc = "post" /\ pass[q.by].day = q.doc.day

Init ==
    /\ DaysInit /\ IntakeInit /\ faults = 0 /\ inbox = {} /\ since = None
    /\ mode = [p \in Replicas |-> "online"]
    /\ reports = [d \in ReportDays |-> None]
    /\ pass = [p \in Replicas |-> Idle]

Fault == faults < MaxFaults /\ faults' = faults + 1
Clock(p) == now + Skew[p]
Becomes(p, state) == pass' = [pass EXCEPT ![p] = state]
Goes(p, pc) == pass' = [pass EXCEPT ![p].pc = pc]
Others == UNCHANGED <<now, recorded, intake, mode, inbox>>

-----------------------------------------------------------------------------
(* Preparing the report of yesterday. *)

\* Wrong: the report is prepared as soon as the day has ended.
MidnightPassed(t) == TRUE

\* The first minutes of a day are left to the runs of the day before.
DayIsClosed(t) == t % DayLength >= ClosedAfter
Yesterday(p) == DayOf(pass[p].at) - 1

RunsOf(day) == {r \in Runs : recorded[r] = day}

\* A pass reads the clock once, and looks for the report of yesterday.
BeginPass(p) ==
    /\ pass[p].pc = "off"
    /\ LET t == Clock(p)
           due == DayIsClosed(t) /\ DayOf(t) > 0 /\ mode[p] # "none"
                  /\ DayOf(t) - 1 \in ReportDays /\ reports[DayOf(t) - 1] = None
       IN Becomes(p, [Idle EXCEPT !.pc = IF due THEN "count" ELSE "send", !.at = t])
    /\ Others /\ UNCHANGED <<instance, faults>>

CountRuns(p) ==
    /\ pass[p].pc = "count"
    /\ Becomes(p, [pass[p] EXCEPT !.pc = "errors", !.runs = RunsOf(Yesterday(p))])
    /\ Others /\ UNCHANGED <<instance, faults>>

\* Wrong: the last report of a day stays.
SavedLast(day, report) == [reports EXCEPT ![day] = report]

\* The first report of a day stays, whichever replica made it.
Saved(day, report) == [reports EXCEPT ![day] = IF @ = None THEN report ELSE @]

\* The errors are counted by a statement of their own; the report is sealed and saved.
SaveReport(p) ==
    /\ pass[p].pc = "errors"
    /\ LET day == Yesterday(p)
           told(runs) == IF p \in Diagnosing THEN runs ELSE {}
           doc == [day |-> day, by |-> p, runs |-> told(pass[p].runs),
                   errors |-> told(RunsOf(day))]
       IN reports' = Saved(day, [doc |-> doc, preparedAt |-> pass[p].at, sentAt |-> None,
                                 triedAt |-> None])
    /\ Becomes(p, [pass[p] EXCEPT !.pc = "send", !.runs = {}])
    /\ Others /\ UNCHANGED <<since, faults>>

\* A preparation that fails, or is too long, leaves the sending to go on.
PrepareFails(p) ==
    /\ pass[p].pc \in {"count", "errors"} /\ Fault
    /\ Becomes(p, [pass[p] EXCEPT !.pc = "send", !.runs = {}])
    /\ Others /\ UNCHANGED instance

-----------------------------------------------------------------------------
(* Sending the reports that are due. *)

\* A replica that does not send says so for the instance; one that does keeps
\* the first date.
StartOrStop(p) ==
    /\ pass[p].pc = "send"
    /\ \/ /\ mode[p] = "online" /\ since' = (IF since = None THEN pass[p].at ELSE since)
          /\ Goes(p, "since")
       \/ mode[p] # "online" /\ since' = None /\ Becomes(p, Idle)
    /\ Others /\ UNCHANGED <<reports, faults>>

ReadSince(p) ==
    /\ pass[p].pc = "since"
    /\ Becomes(p, IF since = None THEN Idle ELSE [pass[p] EXCEPT !.pc = "last", !.since = since])
    /\ Others /\ UNCHANGED <<instance, faults>>

Sent(d) == reports[d] # None /\ reports[d].sentAt # None

SentTimes == {reports[d].sentAt : d \in {e \in ReportDays : Sent(e)}} \cup ({SentBefore} \ {None})

\* Wrong: reports wait until one was ever sent.
WaitsUntilEverSent(start) == SentTimes = {}

WaitsBeforeFirst(start) == \A t \in SentTimes : t < start

ReadLastSent(p) ==
    /\ pass[p].pc = "last"
    /\ Becomes(p, [pass[p] EXCEPT !.pc = "claim", !.waits = WaitsBeforeFirst(pass[p].since)])
    /\ Others /\ UNCHANGED <<instance, faults>>

\* The days sent: the closed ones since the instance sends, SentDays at most.
InRange(p, d) == d <= Yesterday(p) /\ d >= DayOf(pass[p].since) /\ d + SentDays > Yesterday(p)

\* Due for the claim of a pass at the moment t, in the one statement.
Due(p, d, t) ==
    /\ reports[d] # None /\ ~Sent(d) /\ since # None /\ InRange(p, d)
    /\ reports[d].triedAt # None => reports[d].triedAt + RetryAfter < t
    /\ pass[p].waits => reports[d].preparedAt + WaitBeforeFirst <= t
    /\ reports[d].doc.by \in Diagnosing => p \in Diagnosing

\* The oldest report due is claimed and posted as it is stored; else the pass ends.
Claim(p) ==
    /\ pass[p].pc = "claim"
    /\ LET due == {d \in ReportDays : Due(p, d, Clock(p))}
       IN \/ /\ due = {} /\ Becomes(p, Idle) /\ UNCHANGED <<reports, inbox>>
          \/ \E d \in due :
               /\ \A e \in due : d <= e
               /\ reports' = [reports EXCEPT ![d].triedAt = Clock(p)]
               /\ Becomes(p, [pass[p] EXCEPT !.pc = "post", !.day = d])
               /\ inbox' = inbox \cup {[doc |-> reports[d].doc, by |-> p, unknown |-> FALSE]}
    /\ UNCHANGED <<now, recorded, intake, mode, since, faults>>

\* A report that left is marked, and those that follow wait no more.
MarkSent(p) ==
    /\ pass[p].pc = "mark"
    /\ reports' = [reports EXCEPT ![pass[p].day].sentAt = IF @ = None THEN Clock(p) ELSE @]
    /\ Becomes(p, [pass[p] EXCEPT !.pc = "claim", !.waits = FALSE, !.day = None])
    /\ Others /\ UNCHANGED <<since, faults>>

\* The requests of a pass that is over: they may still arrive, for nobody.
Abandoned(p) == {[q EXCEPT !.by = IF @ = p THEN None ELSE @] : q \in inbox}

\* A statement or a request fails, the process stops, or its pass ends.
PassEnds(p) ==
    /\ pass[p].pc # "off" /\ Fault /\ Becomes(p, Idle) /\ inbox' = Abandoned(p)
    /\ UNCHANGED <<now, recorded, intake, mode, instance>>

\* Another license or setting, or the end of the license.
Configure(p) ==
    /\ Fault /\ \E m \in {"online", "local", "none"} \ {mode[p]} : mode' = [mode EXCEPT ![p] = m]
    /\ UNCHANGED <<now, recorded, intake, pass, instance, inbox>>

-----------------------------------------------------------------------------
(* The control plane takes in a request. *)

\* The sender goes on with a 2xx, and its pass ends with anything else; an
\* answer nobody waits for is lost.
Answer(q, ok) ==
    /\ inbox' = inbox \ {q}
    /\ pass' = IF q.by = None THEN pass
               ELSE [pass EXCEPT ![q.by] = IF ok THEN [@ EXCEPT !.pc = "mark"] ELSE Idle]

\* Wrong: a report there is no room for is answered as one kept.
AlwaysKept(doc) == TRUE

\* A report that is kept is answered as one that is stored; a full intake is not.
Kept(doc) == Room(doc)

Receive(q) ==
    /\ ~q.unknown
    /\ \/ known /\ StoreReport(q.doc) /\ Answer(q, TRUE) /\ UNCHANGED <<known, pending>>
       \/ /\ ~known /\ inbox' = (inbox \ {q}) \cup {[q EXCEPT !.unknown = TRUE]}
          /\ UNCHANGED <<intake, pass>>
    /\ UNCHANGED <<now, recorded, mode, instance, faults>>

\* The license may be recorded since it was looked up.
ReceiveUnknown(q) ==
    /\ q.unknown /\ KeepPending(q.doc) /\ Answer(q, Kept(q.doc))
    /\ UNCHANGED <<now, recorded, mode, instance, faults>>

ControlPlane(a) == a /\ UNCHANGED <<now, recorded, mode, instance, pass, inbox, faults>>

-----------------------------------------------------------------------------
\* A pass is bounded (buildTimeout, passTimeout): it outlives one tick at most.
PassesInTime == \A p \in Replicas : pass[p].pc # "off" => Clock(p) <= pass[p].at
RunsGoOn ==
    /\ \/ Tick /\ PassesInTime
       \/ DayOf(now) \in ReportDays /\ \E r \in Runs : Record(r)
    /\ UNCHANGED <<intake, mode, instance, pass, inbox, faults>>
ReplicaStep(p) ==
    \/ BeginPass(p) \/ CountRuns(p) \/ SaveReport(p) \/ PrepareFails(p) \/ StartOrStop(p)
    \/ ReadSince(p) \/ ReadLastSent(p) \/ Claim(p) \/ MarkSent(p) \/ PassEnds(p) \/ Configure(p)
IntakeStep ==
    \/ \E q \in inbox : Receive(q) \/ ReceiveUnknown(q)
    \/ ControlPlane(RecordLicense)
    \/ \E doc \in pending : ControlPlane(Promote(doc))

Next == RunsGoOn \/ (\E p \in Replicas : ReplicaStep(p)) \/ IntakeStep
Spec == Init /\ [][Next]_vars

\* The maintenance of the control plane runs every hour.
Promoted == \E doc \in pending : ControlPlane(Promote(doc))
FairSpec == Spec /\ WF_vars(Promoted)

-----------------------------------------------------------------------------
(* The report of a day counts exactly the runs recorded that day, and its  *)
(* errors are those of the same runs: none is recorded for the day once    *)
(* the report was prepared, however the clocks of the replicas differ,     *)
(* within ClosedAfter (PrepareDue, diagnostics).                           *)
ReportIsWhole ==
    \A d \in ReportDays : reports[d] # None /\ reports[d].doc.by \in Diagnosing =>
        reports[d].doc.runs = RunsOf(d) /\ reports[d].doc.errors = RunsOf(d)

(* The control plane never sees two documents for a day: whichever         *)
(* replicas prepare, send, fail and send again, a report that leaves twice *)
(* is the same one ("It is then the same report", SendDue).                *)
NoConflict ==
    /\ conflicts = {}
    /\ \A a, b \in pending : a.day = b.day => a = b

(* A report marked as sent has reached the control plane, which stored it  *)
(* or keeps it until its license is known.                                 *)
SentArrived ==
    \A d \in ReportDays : Sent(d) => stored[d] = reports[d].doc \/ reports[d].doc \in pending

(* Until a report was sent since the instance sends, one leaves only after *)
(* its wait, whoever claims it, as long as its pass goes by the start that *)
(* is recorded (SendDue, WaitsBeforeFirst).                                *)
FirstWaits ==
    [][\A p \in Replicas, d \in ReportDays :
          pass[p].pc = "claim" /\ pass[p].since = since /\ pass'[p].pc = "post"
             /\ pass'[p].day = d =>
               \/ \E t \in SentTimes : t >= since
               \/ reports[d].preparedAt + WaitBeforeFirst <= Clock(p)]_vars

(* What was pending when the license got known ends up stored, a report    *)
(* taken in at this very moment and a repeat of a stored one included, and *)
(* nothing is left of it (keepPending, PromotePending).                    *)
PendingIsStored ==
    \A d \in ReportDays :
        (known /\ \E doc \in pending : doc.day = d)
            ~> (stored[d] # Unset /\ \A doc \in pending : doc.day # d)
=============================================================================
