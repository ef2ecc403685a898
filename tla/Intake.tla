------------------------------- MODULE Intake -------------------------------
(***************************************************************************)
(* The control plane as an instance meets it: it stores the first report   *)
(* of a day, tells a repeat from a conflict, and keeps pending the reports *)
(* whose license it does not know yet.  One license, one instance.         *)
(***************************************************************************)
EXTENDS FiniteSets, Naturals

CONSTANTS ReportDays, Unset, PendingCap

ASSUME IntakeAssumption == PendingCap \in Nat

VARIABLES
    known,      \* the license of the instance is recorded
    pending,    \* the reports kept until it is
    stored,     \* the report stored for each day
    conflicts   \* the days another report than the stored one was received for
intake == <<known, pending, stored, conflicts>>

IntakeInit ==
    /\ known = FALSE /\ pending = {} /\ conflicts = {}
    /\ stored = [d \in ReportDays |-> Unset]

\* Wrong: a report for a day that has one fails the transaction.
StoreIfNone(doc) ==
    /\ stored[doc.day] = Unset /\ stored' = [stored EXCEPT ![doc.day] = doc]
    /\ UNCHANGED conflicts

\* The first report of a day stays: the same again is a repeat, another one a conflict.
StoreReport(doc) ==
    /\ stored' = [stored EXCEPT ![doc.day] = IF @ = Unset THEN doc ELSE @]
    /\ conflicts' = IF stored[doc.day] \in {Unset, doc} THEN conflicts
                    ELSE conflicts \cup {doc.day}

Room(doc) == doc \in pending \/ Cardinality(pending) < PendingCap

KeepPending(doc) ==
    /\ pending' = IF Room(doc) THEN pending \cup {doc} ELSE pending
    /\ UNCHANGED <<known, stored, conflicts>>

RecordLicense == ~known /\ known' = TRUE /\ UNCHANGED <<pending, stored, conflicts>>

\* The maintenance, once the license is known: one transaction per report.
Promote(doc) ==
    /\ known /\ doc \in pending /\ StoreReport(doc)
    /\ pending' = pending \ {doc} /\ UNCHANGED known
=============================================================================
