------------------------- MODULE UsageReportProofs -------------------------
(***************************************************************************)
(* That the control plane never sees two documents for a day, that a       *)
(* report marked as sent has reached it, and that a report counts all runs *)
(* of its day: for any number of replicas, runs, days and failures, any    *)
(* settings, and clocks at most closedAfter ahead of the database.         *)
(***************************************************************************)
EXTENDS UsageReport, TLAPS

PassType == [pc : {"off", "count", "errors", "send", "since", "last", "claim", "post", "mark"},
             at : Nat, runs : SUBSET Runs, since : Nat \cup {None},
             waits : BOOLEAN, day : ReportDays \cup {None}]
RequestType == [doc : Document, by : Replicas \cup {None}, unknown : BOOLEAN]

\* A document is the one of the report of its day.
Known(doc) == reports[doc.day] # None /\ reports[doc.day].doc = doc
Arrived(d) == stored[d] = reports[d].doc \/ reports[d].doc \in pending

OfItsDay == \A d \in ReportDays : reports[d] # None => reports[d].doc.day = d
RequestsKnown == \A q \in inbox : Known(q.doc)
IntakeKnown ==
    /\ \A doc \in pending : Known(doc)
    /\ \A d \in ReportDays : stored[d] # Unset => reports[d] # None /\ stored[d] = reports[d].doc
PreparesADay ==
    \A p \in Replicas : pass[p].pc \in {"count", "errors"} => Yesterday(p) \in ReportDays
MarksArrived ==
    \A p \in Replicas : pass[p].pc = "mark" =>
        pass[p].day \in ReportDays /\ reports[pass[p].day] # None /\ Arrived(pass[p].day)
\* A replica waits for one answer at a time.
OneEach == \A q, r \in inbox : q.by # None /\ q.by = r.by => q = r
ReportInv ==
    /\ OneEach
    /\ TypeOK /\ SentArrived /\ conflicts = {}
    /\ OfItsDay /\ RequestsKnown /\ IntakeKnown /\ PreparesADay /\ MarksArrived

\* A report is never written over by another.
ReportsStay ==
    \A d \in ReportDays : reports[d] # None =>
        reports'[d] # None /\ reports'[d].doc = reports[d].doc

LEMMA PassBecomes ==
    ASSUME NEW p \in Replicas, NEW w \in PassType, TypeOK, Becomes(p, w)
    PROVE pass' \in [Replicas -> PassType] /\ pass'[p] = w
          /\ \A q \in Replicas \ {p} : pass'[q] = pass[q]
BY DEF Becomes, TypeOK, PassType

LEMMA PassTyped == ASSUME TypeOK, NEW p \in Replicas PROVE pass[p] \in PassType
BY DEF TypeOK, PassType

LEMMA FaultTyped == ASSUME TypeOK, Fault PROVE faults' \in 0..MaxFaults
BY ReportAssumption DEF TypeOK, Fault

LEMMA IdleTyped == Idle \in PassType /\ Idle.pc = "off" /\ Idle.day = None
BY DEF Idle, PassType

-----------------------------------------------------------------------------
LEMMA InitHolds == Init => ReportInv
<1> SUFFICES ASSUME Init PROVE ReportInv OBVIOUS
<1>1. TypeOK
  <2>1. pass \in [Replicas -> PassType]
    BY IdleTyped DEF Init
  <2>2. now \in Nat /\ recorded \in [Runs -> Nat \cup {None}]
    BY DEF Init, DaysInit
  <2>3. stored \in [ReportDays -> Document \cup {Unset}] /\ known \in BOOLEAN
        /\ pending \subseteq Document /\ conflicts \subseteq ReportDays
    BY DEF Init, IntakeInit
  <2>4. reports \in [ReportDays -> Report \cup {None}] /\ since \in Nat \cup {None}
        /\ mode \in [Replicas -> {"online", "local", "none"}]
    BY DEF Init
  <2>5. QED
    BY <2>1, <2>2, <2>3, <2>4, ReportAssumption DEF Init, TypeOK, CountedTypeOK, PassType
<1>2. QED
  BY <1>1 DEF Init, ReportInv, SentArrived, Sent, OfItsDay, RequestsKnown, IntakeKnown,
              PreparesADay, MarksArrived, IntakeInit, Idle, OneEach

\* A pass moves between statements that read, or ends, and awaits no answer.
LEMMA QuietPass ==
    ASSUME ReportInv, NEW p \in Replicas, NEW w \in PassType, Becomes(p, w),
           pass[p].pc # "post", w.pc # "mark",
           w.pc \in {"count", "errors"} => DayOf(w.at) - 1 \in ReportDays,
           since' \in Nat \cup {None}, faults' \in 0..MaxFaults,
           UNCHANGED <<now, recorded, intake, mode, inbox, reports>>
    PROVE ReportInv'
<1> USE DEF ReportInv
<1>1. pass' \in [Replicas -> PassType] /\ pass'[p] = w
      /\ \A q \in Replicas \ {p} : pass'[q] = pass[q]
  BY PassBecomes
<1>2. \A q \in inbox : q.by # None => q.by # p
  BY DEF TypeOK
<1>3. TypeOK'
  <2>1. \A q \in inbox' : q.by # None => pass'[q.by].pc = "post" /\ pass'[q.by].day = q.doc.day
    BY <1>1, <1>2 DEF TypeOK
  <2>2. QED
    BY <1>1, <2>1 DEF TypeOK, PassType, CountedTypeOK, intake
<1>4. PreparesADay'
  BY <1>1 DEF PreparesADay, Yesterday, DayOf
<1>5. MarksArrived'
  BY <1>1 DEF MarksArrived, Arrived, intake
<1>6. QED
  BY <1>3, <1>4, <1>5 DEF OneEach, SentArrived, Sent, OfItsDay, RequestsKnown, Known, IntakeKnown, intake

LEMMA QuietSteps ==
    ASSUME ReportInv, NEW p \in Replicas,
           BeginPass(p) \/ CountRuns(p) \/ PrepareFails(p) \/ StartOrStop(p) \/ ReadSince(p)
             \/ ReadLastSent(p)
    PROVE ReportInv'
<1> USE DEF ReportInv
<1>1. CASE BeginPass(p)
  <2> DEFINE t == Clock(p)
             due == DayIsClosed(t) /\ DayOf(t) > 0 /\ mode[p] # "none"
                    /\ DayOf(t) - 1 \in ReportDays /\ reports[DayOf(t) - 1] = None
             w == [Idle EXCEPT !.pc = IF due THEN "count" ELSE "send", !.at = t]
  <2>1. t \in Nat
    BY ReportAssumption DEF Clock, TypeOK, CountedTypeOK
  <2>2. w \in PassType /\ w.at = t /\ w.pc = IF due THEN "count" ELSE "send"
    BY <2>1, IdleTyped DEF Idle, PassType
  <2>3. Becomes(p, w)
    BY <1>1 DEF BeginPass
  <2> HIDE DEF w
  <2>4. w.pc \in {"count", "errors"} => DayOf(w.at) - 1 \in ReportDays
    BY <2>2
  <2>5. QED
    BY <1>1, <2>2, <2>3, <2>4, QuietPass DEF BeginPass, Others, instance, TypeOK
<1>2. CASE CountRuns(p)
  <2> DEFINE w == [pass[p] EXCEPT !.pc = "errors", !.runs = RunsOf(Yesterday(p))]
  <2>1. w \in PassType /\ w.at = pass[p].at /\ w.pc = "errors"
    BY PassTyped DEF PassType, RunsOf
  <2>2. Becomes(p, w)
    BY <1>2 DEF CountRuns
  <2> HIDE DEF w
  <2>3. DayOf(w.at) - 1 \in ReportDays
    BY <1>2, <2>1 DEF CountRuns, PreparesADay, Yesterday
  <2>4. QED
    BY <1>2, <2>1, <2>2, <2>3, QuietPass DEF CountRuns, Others, instance, TypeOK
<1>3. CASE PrepareFails(p)
  <2> DEFINE w == [pass[p] EXCEPT !.pc = "send", !.runs = {}]
  <2>1. w \in PassType /\ w.pc = "send"
    BY PassTyped DEF PassType
  <2>2. Becomes(p, w) /\ faults' \in 0..MaxFaults
    BY <1>3, FaultTyped DEF PrepareFails
  <2> HIDE DEF w
  <2>3. QED
    BY <1>3, <2>1, <2>2, QuietPass DEF PrepareFails, Others, instance, TypeOK
<1>4. CASE StartOrStop(p)
  <2>1. since' \in Nat \cup {None}
    BY <1>4, PassTyped DEF StartOrStop, TypeOK, PassType
  <2>2. CASE Goes(p, "since")
    <3> DEFINE w == [pass[p] EXCEPT !.pc = "since"]
    <3>1. w \in PassType /\ w.pc = "since"
      BY PassTyped DEF PassType
    <3>2. Becomes(p, w)
      BY <2>2 DEF Goes, Becomes, TypeOK
    <3> HIDE DEF w
    <3>3. QED
      BY <1>4, <2>1, <3>1, <3>2, QuietPass DEF StartOrStop, Others, TypeOK
  <2>3. CASE Becomes(p, Idle)
    BY <1>4, <2>1, <2>3, IdleTyped, QuietPass DEF StartOrStop, Others, TypeOK
  <2>4. QED
    BY <1>4, <2>2, <2>3 DEF StartOrStop
<1>5. CASE ReadSince(p)
  <2> DEFINE w == [pass[p] EXCEPT !.pc = "last", !.since = since]
  <2>0. since \in Nat \cup {None}
    BY DEF TypeOK
  <2>1. w \in PassType /\ w.pc = "last"
    BY <2>0, PassTyped DEF PassType
  <2>2. Becomes(p, Idle) \/ Becomes(p, w)
    BY <1>5 DEF ReadSince
  <2> HIDE DEF w
  <2>3. CASE Becomes(p, Idle)
    BY <1>5, <2>3, IdleTyped, QuietPass DEF ReadSince, Others, instance, TypeOK
  <2>4. CASE Becomes(p, w)
    BY <1>5, <2>1, <2>4, QuietPass DEF ReadSince, Others, instance, TypeOK
  <2>5. QED
    BY <2>2, <2>3, <2>4
<1>6. CASE ReadLastSent(p)
  <2> DEFINE w == [pass[p] EXCEPT !.pc = "claim", !.waits = WaitsBeforeFirst(pass[p].since)]
  <2>1. WaitsBeforeFirst(pass[p].since) \in BOOLEAN
    BY DEF WaitsBeforeFirst
  <2>2. w \in PassType /\ w.pc = "claim"
    BY <2>1, PassTyped DEF PassType
  <2>3. Becomes(p, w)
    BY <1>6 DEF ReadLastSent
  <2> HIDE DEF w
  <2>4. QED
    BY <1>6, <2>2, <2>3, QuietPass DEF ReadLastSent, Others, instance, TypeOK
<1>7. QED
  BY <1>1, <1>2, <1>3, <1>4, <1>5, <1>6

-----------------------------------------------------------------------------
LEMMA SaveKeeps == ASSUME ReportInv, NEW p \in Replicas, SaveReport(p) PROVE ReportInv'
<1> USE DEF ReportInv
<1> DEFINE day == Yesterday(p)
           told(runs) == IF p \in Diagnosing THEN runs ELSE {}
           doc == [day |-> day, by |-> p, runs |-> told(pass[p].runs),
                   errors |-> told(RunsOf(day))]
           made == [doc |-> doc, preparedAt |-> pass[p].at, sentAt |-> None, triedAt |-> None]
           w == [pass[p] EXCEPT !.pc = "send", !.runs = {}]
<1>1. w \in PassType /\ w.pc = "send"
  BY PassTyped DEF PassType
<1>2. Becomes(p, w) /\ reports' = Saved(day, made) /\ pass[p].pc = "errors"
  BY DEF SaveReport
<1>3. day \in ReportDays
  BY <1>2 DEF PreparesADay
<1>4. pass[p].at \in Nat /\ pass[p].runs \in SUBSET Runs
  BY PassTyped DEF PassType
<1>5. told(pass[p].runs) \in SUBSET Runs /\ told(RunsOf(day)) \in SUBSET Runs
  BY <1>4 DEF RunsOf
<1> HIDE DEF w, told, day
<1>6. doc \in Document /\ doc.day = day
  BY <1>3, <1>5 DEF Document
<1> HIDE DEF doc
<1>7. made \in Report /\ made.doc = doc /\ made.sentAt = None
  BY <1>4, <1>6 DEF Report
<1> HIDE DEF made
<1>8. /\ reports' \in [ReportDays -> Report \cup {None}]
      /\ \A d \in ReportDays : reports[d] # None => reports'[d] = reports[d]
      /\ \A d \in ReportDays : reports[d] = None => reports'[d] = None \/ (d = day /\ reports'[d] = made)
  BY <1>2, <1>7 DEF Saved, TypeOK
<1>9. UNCHANGED <<now, recorded, intake, mode, inbox, since, faults>>
  BY DEF SaveReport, Others
<1>10. pass' \in [Replicas -> PassType] /\ pass'[p] = w
       /\ \A q \in Replicas \ {p} : pass'[q] = pass[q]
  BY <1>1, <1>2, PassBecomes
<1>11. TypeOK'
  <2>1. \A q \in inbox' : q.by # None => pass'[q.by].pc = "post" /\ pass'[q.by].day = q.doc.day
    BY <1>2, <1>9, <1>10 DEF TypeOK
  <2>2. QED
    BY <1>8, <1>9, <1>10, <2>1 DEF TypeOK, PassType, CountedTypeOK, intake
<1>12. SentArrived'
  <2> SUFFICES ASSUME NEW d \in ReportDays, reports'[d] # None, reports'[d].sentAt # None
               PROVE stored[d] = reports'[d].doc \/ reports'[d].doc \in pending
    BY <1>9 DEF SentArrived, Sent, intake
  <2>1. reports[d] # None
    BY <1>7, <1>8
  <2>2. QED
    BY <2>1, <1>8 DEF SentArrived, Sent
<1>13. OfItsDay'
  BY <1>6, <1>7, <1>8 DEF OfItsDay
<1>14. RequestsKnown' /\ IntakeKnown'
  <2>1. \A c \in Document : Known(c) => Known(c)'
    BY <1>8 DEF Known, Document
  <2>2. \A q \in inbox : q.doc \in Document
    BY DEF TypeOK
  <2>3. RequestsKnown'
    BY <1>9, <2>1, <2>2 DEF RequestsKnown
  <2>4. \A c \in pending' : Known(c)'
    BY <1>9, <2>1 DEF IntakeKnown, TypeOK, intake
  <2>5. QED
    BY <1>8, <1>9, <2>3, <2>4 DEF IntakeKnown, intake
<1>15. PreparesADay'
  BY <1>1, <1>10 DEF PreparesADay, Yesterday, DayOf
<1>16. MarksArrived'
  <2> SUFFICES ASSUME NEW q \in Replicas, pass'[q].pc = "mark"
               PROVE LET d == pass'[q].day
                     IN d \in ReportDays /\ reports'[d] # None
                        /\ (stored'[d] = reports'[d].doc \/ reports'[d].doc \in pending')
    BY DEF MarksArrived, Arrived
  <2>1. q # p /\ pass'[q] = pass[q]
    BY <1>1, <1>10
  <2>2. QED
    BY <1>8, <1>9, <2>1 DEF MarksArrived, Arrived, intake
<1>17. QED
  BY <1>9, <1>11, <1>12, <1>13, <1>14, <1>15, <1>16 DEF OneEach, intake

-----------------------------------------------------------------------------
\* A step that changes no document of a report, takes in none but these, and
\* marks and goes on to mark only what has arrived.
LEMMA DocumentsStay ==
    ASSUME ReportInv, TypeOK', OneEach', conflicts' = {},
           \A d \in ReportDays : reports'[d] = None <=> reports[d] = None,
           \A d \in ReportDays : reports[d] # None => reports'[d].doc = reports[d].doc,
           \A d \in ReportDays : reports[d] # None /\ reports'[d].sentAt # None
                                    => Sent(d) \/ Arrived(d),
           \A d \in ReportDays : reports[d] # None /\ Arrived(d)
                                    => stored'[d] = reports[d].doc \/ reports[d].doc \in pending',
           \A c \in pending' : Known(c),
           \A d \in ReportDays : stored'[d] # Unset => reports[d] # None /\ stored'[d] = reports[d].doc,
           \A q \in inbox' : Known(q.doc),
           \A p \in Replicas : pass'[p].pc \in {"count", "errors"} =>
               pass[p].pc \in {"count", "errors"} /\ pass'[p].at = pass[p].at,
           \A p \in Replicas : pass'[p].pc = "mark" =>
               \/ pass[p].pc = "mark" /\ pass'[p].day = pass[p].day
               \/ LET d == pass'[p].day
                  IN d \in ReportDays /\ reports[d] # None
                     /\ (stored'[d] = reports[d].doc \/ reports[d].doc \in pending')
    PROVE ReportInv'
<1> USE DEF ReportInv
<1>1. SentArrived'
  BY DEF SentArrived, Sent, Arrived
<1>2. OfItsDay'
  BY DEF OfItsDay
<1>3. RequestsKnown'
  <2> SUFFICES ASSUME NEW q \in inbox'
               PROVE reports'[q.doc.day] # None /\ reports'[q.doc.day].doc = q.doc
    BY DEF RequestsKnown, Known
  <2>1. q.doc.day \in ReportDays
    BY DEF TypeOK, Document
  <2>2. QED
    BY <2>1 DEF Known
<1>4. IntakeKnown'
  <2>1. ASSUME NEW c \in pending' PROVE reports'[c.day] # None /\ reports'[c.day].doc = c
    <3>1. c.day \in ReportDays
      BY DEF TypeOK, Document
    <3>2. QED
      BY <3>1 DEF Known
  <2>2. QED
    BY <2>1 DEF IntakeKnown, Known
<1>5. PreparesADay'
  BY DEF PreparesADay, Yesterday, DayOf
<1>6. MarksArrived'
  <2> SUFFICES ASSUME NEW p \in Replicas, pass'[p].pc = "mark"
               PROVE LET d == pass'[p].day
                     IN d \in ReportDays /\ reports'[d] # None
                        /\ (stored'[d] = reports'[d].doc \/ reports'[d].doc \in pending')
    BY DEF MarksArrived, Arrived
  <2>1. pass'[p].day \in ReportDays /\ reports[pass'[p].day] # None
        /\ (stored'[pass'[p].day] = reports[pass'[p].day].doc \/ reports[pass'[p].day].doc \in pending')
    BY DEF MarksArrived
  <2>2. QED
    BY <2>1
<1>7. QED
  BY <1>1, <1>2, <1>3, <1>4, <1>5, <1>6

LEMMA ClaimKeeps == ASSUME ReportInv, NEW p \in Replicas, Claim(p) PROVE ReportInv'
<1> USE DEF ReportInv
<1> DEFINE due == {d \in ReportDays : Due(p, d, Clock(p))}
<1>1. UNCHANGED <<now, recorded, intake, mode, since, faults>> /\ pass[p].pc = "claim"
  BY DEF Claim
<1>2. CASE due = {} /\ Becomes(p, Idle) /\ UNCHANGED <<reports, inbox>>
  BY <1>1, <1>2, IdleTyped, QuietPass DEF TypeOK
<1>3. CASE \E d \in due :
             /\ reports' = [reports EXCEPT ![d].triedAt = Clock(p)]
             /\ Becomes(p, [pass[p] EXCEPT !.pc = "post", !.day = d])
             /\ inbox' = inbox \cup {[doc |-> reports[d].doc, by |-> p, unknown |-> FALSE]}
  <2> PICK d \in due :
             /\ reports' = [reports EXCEPT ![d].triedAt = Clock(p)]
             /\ Becomes(p, [pass[p] EXCEPT !.pc = "post", !.day = d])
             /\ inbox' = inbox \cup {[doc |-> reports[d].doc, by |-> p, unknown |-> FALSE]}
    BY <1>3
  <2> DEFINE w == [pass[p] EXCEPT !.pc = "post", !.day = d]
             q == [doc |-> reports[d].doc, by |-> p, unknown |-> FALSE]
             claimed == [reports[d] EXCEPT !.triedAt = Clock(p)]
  <2>1. d \in ReportDays /\ reports[d] # None
    BY DEF Due
  <2>2. reports[d] \in Report /\ reports[d].doc.day = d
    BY <2>1 DEF TypeOK, OfItsDay
  <2>3. Clock(p) \in Nat
    BY ReportAssumption DEF Clock, TypeOK, CountedTypeOK
  <2>4. claimed \in Report /\ claimed.doc = reports[d].doc /\ claimed.sentAt = reports[d].sentAt
    BY <2>2, <2>3 DEF Report
  <2>5. w \in PassType /\ w.pc = "post" /\ w.day = d
    BY <2>1, PassTyped DEF PassType
  <2>6. Becomes(p, w) /\ inbox' = inbox \cup {q} /\ reports' = [reports EXCEPT ![d] = claimed]
    OBVIOUS
  <2>7. q \in RequestType /\ q.doc = reports[d].doc /\ q.by = p
    BY <2>2 DEF RequestType, Report
  <2> HIDE DEF w, q, claimed
  <2>8. pass' \in [Replicas -> PassType] /\ pass'[p] = w
        /\ \A r \in Replicas \ {p} : pass'[r] = pass[r]
    BY <2>5, <2>6, PassBecomes
  <2>9. /\ reports' \in [ReportDays -> Report \cup {None}] /\ reports'[d] = claimed
        /\ \A e \in ReportDays \ {d} : reports'[e] = reports[e]
    BY <2>1, <2>4, <2>6 DEF TypeOK
  <2>10. claimed # None
    BY <2>4, ValuesAssumption
  <2>11. TypeOK'
    <3>1. \A r \in inbox' : r.by # None => pass'[r.by].pc = "post" /\ pass'[r.by].day = r.doc.day
      BY <1>1, <2>2, <2>5, <2>6, <2>7, <2>8 DEF TypeOK
    <3>2. inbox' \subseteq RequestType
      BY <2>6, <2>7 DEF TypeOK, RequestType
    <3>3. QED
      BY <1>1, <2>8, <2>9, <3>1, <3>2 DEF TypeOK, PassType, RequestType, CountedTypeOK, intake
  <2>12. \A r \in inbox' : Known(r.doc)
    BY <2>1, <2>2, <2>6, <2>7 DEF RequestsKnown, Known
  <2>13. OneEach'
    <3>1. \A r \in inbox : r.by # p
      BY <1>1, ValuesAssumption DEF TypeOK
    <3>2. QED
      BY <2>6, <2>7, <3>1 DEF OneEach
  <2>14. QED
    BY <1>1, <2>1, <2>4, <2>5, <2>8, <2>9, <2>10, <2>11, <2>12, <2>13, DocumentsStay
       DEF IntakeKnown, Sent, Arrived, intake
<1>4. QED
  BY <1>2, <1>3 DEF Claim

LEMMA MarkKeeps == ASSUME ReportInv, NEW p \in Replicas, MarkSent(p) PROVE ReportInv'
<1> USE DEF ReportInv
<1> DEFINE d == pass[p].day
           w == [pass[p] EXCEPT !.pc = "claim", !.waits = FALSE, !.day = None]
           t == IF reports[d].sentAt = None THEN Clock(p) ELSE reports[d].sentAt
           marked == [reports[d] EXCEPT !.sentAt = t]
<1>1. UNCHANGED <<now, recorded, intake, mode, inbox, since, faults>> /\ pass[p].pc = "mark"
  BY DEF MarkSent, Others
<1>2. d \in ReportDays /\ reports[d] # None /\ Arrived(d)
  BY <1>1 DEF MarksArrived
<1>3. reports[d] \in Report
  BY <1>2 DEF TypeOK
<1>4. t \in Nat \cup {None}
  BY <1>3, ReportAssumption DEF Clock, TypeOK, CountedTypeOK, Report
<1>5. marked \in Report /\ marked.doc = reports[d].doc
  BY <1>3, <1>4 DEF Report
<1>6. w \in PassType /\ w.pc = "claim"
  BY PassTyped DEF PassType
<1>7. Becomes(p, w) /\ reports' = [reports EXCEPT ![d] = marked]
  BY DEF MarkSent
<1> HIDE DEF w, marked, t, d
<1>8. pass' \in [Replicas -> PassType] /\ pass'[p] = w
      /\ \A r \in Replicas \ {p} : pass'[r] = pass[r]
  BY <1>6, <1>7, PassBecomes
<1>9. /\ reports' \in [ReportDays -> Report \cup {None}] /\ reports'[d] = marked
      /\ \A e \in ReportDays \ {d} : reports'[e] = reports[e]
  BY <1>2, <1>5, <1>7 DEF TypeOK
<1>10. marked # None
  BY <1>5, ValuesAssumption
<1>11. TypeOK'
  <2>1. \A r \in inbox' : r.by # None => pass'[r.by].pc = "post" /\ pass'[r.by].day = r.doc.day
    BY <1>1, <1>8 DEF TypeOK
  <2>2. QED
    BY <1>1, <1>8, <1>9, <2>1 DEF TypeOK, PassType, CountedTypeOK, intake
<1>12. QED
  BY <1>1, <1>2, <1>5, <1>6, <1>8, <1>9, <1>10, <1>11, DocumentsStay
     DEF OneEach, IntakeKnown, RequestsKnown, Sent, Arrived, intake

LEMMA EndKeeps == ASSUME ReportInv, NEW p \in Replicas, PassEnds(p) PROVE ReportInv'
<1> USE DEF ReportInv
<1>1. /\ UNCHANGED <<now, recorded, intake, mode, reports, since>>
      /\ Becomes(p, Idle) /\ inbox' = Abandoned(p) /\ faults' \in 0..MaxFaults
  BY FaultTyped DEF PassEnds, instance
<1>2. pass' \in [Replicas -> PassType] /\ pass'[p] = Idle
      /\ \A r \in Replicas \ {p} : pass'[r] = pass[r]
  BY <1>1, IdleTyped, PassBecomes
<1>3. \A r \in inbox' : /\ r \in RequestType /\ r.by # p
                       /\ \E q \in inbox : r.doc = q.doc /\ (r.by = q.by \/ r.by = None)
  <2> SUFFICES ASSUME NEW q \in inbox
               PROVE LET r == [q EXCEPT !.by = IF q.by = p THEN None ELSE q.by]
                     IN r \in RequestType /\ r.by # p /\ r.doc = q.doc
                        /\ (r.by = q.by \/ r.by = None)
    BY <1>1 DEF Abandoned
  <2>1. q \in RequestType
    BY DEF TypeOK, RequestType
  <2>2. QED
    BY <2>1, ValuesAssumption DEF RequestType
<1>4. TypeOK'
  <2>1. \A r \in inbox' : r.by # None => pass'[r.by].pc = "post" /\ pass'[r.by].day = r.doc.day
    <3> SUFFICES ASSUME NEW r \in inbox', r.by # None
                 PROVE pass'[r.by].pc = "post" /\ pass'[r.by].day = r.doc.day
      OBVIOUS
    <3>1. PICK q \in inbox : r.doc = q.doc /\ (r.by = q.by \/ r.by = None)
      BY <1>3
    <3>2. r.by = q.by /\ r.by \in Replicas \ {p}
      BY <1>3, <3>1 DEF RequestType
    <3>3. QED
      BY <1>2, <3>1, <3>2 DEF TypeOK
  <2>2. inbox' \subseteq RequestType
    BY <1>3
  <2>3. QED
    BY <1>1, <1>2, <2>1, <2>2 DEF TypeOK, PassType, RequestType, CountedTypeOK, intake
<1>5. \A r \in inbox' : Known(r.doc)
  BY <1>3 DEF RequestsKnown
<1>6. OneEach'
  <2> SUFFICES ASSUME NEW a \in inbox', NEW b \in inbox', a.by # None, a.by = b.by
               PROVE a = b
    BY DEF OneEach
  <2>1. PICK q \in inbox : a = [q EXCEPT !.by = IF q.by = p THEN None ELSE q.by]
    BY <1>1 DEF Abandoned
  <2>2. PICK r \in inbox : b = [r EXCEPT !.by = IF r.by = p THEN None ELSE r.by]
    BY <1>1 DEF Abandoned
  <2>3. q \in RequestType /\ r \in RequestType
    BY DEF TypeOK, RequestType
  <2>4. a.by = q.by /\ b.by = r.by
    BY <2>1, <2>2, <2>3 DEF RequestType
  <2>5. q = r
    BY <2>4 DEF OneEach
  <2>6. QED
    BY <2>1, <2>2, <2>5
<1>7. QED
  BY <1>1, <1>2, <1>4, <1>5, <1>6, IdleTyped, DocumentsStay
     DEF IntakeKnown, Sent, Arrived, intake

LEMMA ConfigureKeeps == ASSUME ReportInv, NEW p \in Replicas, Configure(p) PROVE ReportInv'
<1> USE DEF ReportInv
<1>1. UNCHANGED <<now, recorded, intake, pass, reports, since, inbox>> /\ faults' \in 0..MaxFaults
      /\ mode' \in [Replicas -> {"online", "local", "none"}]
  BY FaultTyped DEF Configure, instance, TypeOK
<1>2. TypeOK'
  BY <1>1 DEF TypeOK, CountedTypeOK, intake
<1>3. QED
  BY <1>1, <1>2, DocumentsStay DEF OneEach, IntakeKnown, RequestsKnown, Sent, Arrived, intake

LEMMA ClockAndRunsKeep == ASSUME ReportInv, RunsGoOn PROVE ReportInv'
<1> USE DEF ReportInv
<1>1. UNCHANGED <<intake, mode, reports, since, pass, inbox, faults>>
  BY DEF RunsGoOn, instance
<1>2. CountedTypeOK'
  <2>1. CASE Tick
    BY <2>1 DEF Tick, TypeOK, CountedTypeOK
  <2>2. CASE DayOf(now) \in ReportDays /\ \E r \in Runs : Record(r)
    <3> PICK r \in Runs : Record(r)
      BY <2>2
    <3>1. DayOf(now) \in Nat
      BY <2>2, ReportAssumption
    <3>2. QED
      BY <3>1 DEF Record, TypeOK, CountedTypeOK
  <2>3. QED
    BY <2>1, <2>2 DEF RunsGoOn
<1>3. TypeOK'
  BY <1>1, <1>2 DEF TypeOK, intake
<1>4. QED
  BY <1>1, <1>3, DocumentsStay DEF OneEach, IntakeKnown, RequestsKnown, Sent, Arrived, intake

-----------------------------------------------------------------------------
(* The control plane. *)

\* Storing the report of a day is never a conflict.
LEMMA StoresKnown ==
    ASSUME ReportInv, NEW doc \in Document, Known(doc), StoreReport(doc)
    PROVE /\ stored' \in [ReportDays -> Document \cup {Unset}] /\ conflicts' = {}
          /\ stored'[doc.day] = doc
          /\ \A d \in ReportDays : stored[d] # Unset => stored'[d] = stored[d]
          /\ \A d \in ReportDays : stored'[d] # Unset =>
                reports[d] # None /\ stored'[d] = reports[d].doc
<1> USE DEF ReportInv
<1>1. doc.day \in ReportDays
  BY DEF Document
<1>2. stored[doc.day] = Unset \/ stored[doc.day] = doc
  BY <1>1 DEF IntakeKnown, Known
<1>3. stored' = [stored EXCEPT ![doc.day] = doc] /\ conflicts' = {}
  BY <1>1, <1>2 DEF StoreReport, TypeOK
<1>4. QED
  BY <1>1, <1>2, <1>3 DEF IntakeKnown, Known, TypeOK

\* An answer ends the wait of the replica that posted, if it still waits.
LEMMA Answers ==
    ASSUME ReportInv, NEW q \in inbox, NEW ok \in BOOLEAN, Answer(q, ok)
    PROVE /\ pass' \in [Replicas -> PassType] /\ inbox' \subseteq inbox /\ OneEach'
          /\ \A r \in inbox' : r.by # None =>
                r.by \in Replicas /\ pass'[r.by].pc = "post" /\ pass'[r.by].day = r.doc.day
          /\ \A p \in Replicas : pass'[p] = pass[p] \/ pass'[p] = Idle
                \/ (ok /\ pass'[p].pc = "mark" /\ pass'[p].day = q.doc.day)
<1> USE DEF ReportInv
<1>1. q \in RequestType /\ inbox' = inbox \ {q}
  BY DEF TypeOK, RequestType, Answer
<1>2. CASE q.by = None
  BY <1>1, <1>2 DEF Answer, TypeOK, PassType, OneEach
<1>3. CASE q.by # None
  <2>1. q.by \in Replicas
    BY <1>1, <1>3 DEF RequestType
  <2>2. pass[q.by].day = q.doc.day
    BY <1>3 DEF TypeOK
  <2> DEFINE w == IF ok THEN [pass[q.by] EXCEPT !.pc = "mark"] ELSE Idle
  <2>3. w \in PassType
    BY <2>1, PassTyped, IdleTyped DEF PassType
  <2>4. w = Idle \/ (ok /\ w.pc = "mark" /\ w.day = q.doc.day)
    BY <2>1, <2>2, PassTyped DEF PassType
  <2>5. Becomes(q.by, w)
    BY <1>3 DEF Answer, Becomes
  <2> HIDE DEF w
  <2>6. pass' \in [Replicas -> PassType] /\ pass'[q.by] = w
        /\ \A r \in Replicas \ {q.by} : pass'[r] = pass[r]
    BY <2>1, <2>3, <2>5, PassBecomes
  <2>7. \A r \in inbox' : r.by # None => r.by \in Replicas \ {q.by}
    BY <1>1, <1>3 DEF OneEach, TypeOK
  <2>8. QED
    BY <1>1, <2>4, <2>6, <2>7 DEF TypeOK, OneEach
<1>4. QED
  BY <1>2, <1>3

LEMMA ReceiveKeeps == ASSUME ReportInv, NEW q \in inbox, Receive(q) PROVE ReportInv'
<1> USE DEF ReportInv
<1>1. q \in RequestType /\ q.doc \in Document /\ Known(q.doc)
      /\ UNCHANGED <<now, recorded, mode, reports, since, faults>>
  BY DEF TypeOK, RequestType, RequestsKnown, Receive, instance
<1>2. CASE StoreReport(q.doc) /\ Answer(q, TRUE) /\ UNCHANGED <<known, pending>>
  <2>1. /\ stored' \in [ReportDays -> Document \cup {Unset}] /\ conflicts' = {}
        /\ stored'[q.doc.day] = q.doc
        /\ \A d \in ReportDays : stored[d] # Unset => stored'[d] = stored[d]
        /\ \A d \in ReportDays : stored'[d] # Unset =>
              reports[d] # None /\ stored'[d] = reports[d].doc
    BY <1>1, <1>2, StoresKnown
  <2>2. /\ pass' \in [Replicas -> PassType] /\ inbox' \subseteq inbox /\ OneEach'
        /\ \A r \in inbox' : r.by # None =>
              r.by \in Replicas /\ pass'[r.by].pc = "post" /\ pass'[r.by].day = r.doc.day
        /\ \A p \in Replicas : pass'[p] = pass[p] \/ pass'[p] = Idle
              \/ (pass'[p].pc = "mark" /\ pass'[p].day = q.doc.day)
    BY <1>2, Answers
  <2>3. TypeOK'
    BY <1>1, <1>2, <2>1, <2>2 DEF TypeOK, PassType, CountedTypeOK
  <2>4. \A d \in ReportDays : reports[d] # None => reports[d].doc \in Document /\ reports[d].doc # Unset
    BY ValuesAssumption DEF TypeOK, Report
  <2>5. q.doc.day \in ReportDays
    BY <1>1 DEF Document
  <2>6. \A p \in Replicas : pass'[p].pc = "mark" =>
               \/ pass[p].pc = "mark" /\ pass'[p].day = pass[p].day
               \/ LET d == pass'[p].day
                  IN d \in ReportDays /\ reports[d] # None
                     /\ (stored'[d] = reports[d].doc \/ reports[d].doc \in pending')
    BY <1>1, <2>1, <2>2, <2>5, IdleTyped DEF Known
  <2>7. \A p \in Replicas : pass'[p].pc \in {"count", "errors"} =>
               pass[p].pc \in {"count", "errors"} /\ pass'[p].at = pass[p].at
    BY <2>2, IdleTyped
  <2>8. QED
    BY <1>1, <1>2, <2>1, <2>2, <2>3, <2>4, <2>6, <2>7, DocumentsStay
       DEF IntakeKnown, RequestsKnown, Sent, Arrived
<1>3. CASE inbox' = (inbox \ {q}) \cup {[q EXCEPT !.unknown = TRUE]} /\ UNCHANGED <<intake, pass>>
  <2> DEFINE again == [q EXCEPT !.unknown = TRUE]
  <2>1. again \in RequestType /\ again.doc = q.doc /\ again.by = q.by
    BY <1>1 DEF RequestType
  <2>2. inbox' = (inbox \ {q}) \cup {again}
    BY <1>3
  <2> HIDE DEF again
  <2>3. inbox' \subseteq RequestType
        /\ \A r \in inbox' : r.by # None => pass[r.by].pc = "post" /\ pass[r.by].day = r.doc.day
    BY <2>1, <2>2 DEF TypeOK, RequestType
  <2>4. OneEach'
    BY <2>1, <2>2 DEF OneEach
  <2>5. \A r \in inbox' : Known(r.doc)
    BY <1>1, <2>1, <2>2 DEF RequestsKnown
  <2>6. TypeOK'
    BY <1>1, <1>3, <2>3 DEF TypeOK, RequestType, CountedTypeOK, intake
  <2>7. QED
    BY <1>1, <1>3, <2>4, <2>5, <2>6, DocumentsStay DEF IntakeKnown, Sent, Arrived, intake
<1>4. QED
  BY <1>2, <1>3 DEF Receive

LEMMA KeepPendingKeeps == ASSUME ReportInv, NEW q \in inbox, ReceiveUnknown(q) PROVE ReportInv'
<1> USE DEF ReportInv
<1>1. q \in RequestType /\ q.doc \in Document /\ Known(q.doc)
      /\ UNCHANGED <<now, recorded, mode, reports, since, faults, known, stored, conflicts>>
  BY DEF TypeOK, RequestType, RequestsKnown, ReceiveUnknown, KeepPending, instance
<1>2. Kept(q.doc) \in BOOLEAN /\ Answer(q, Kept(q.doc))
  BY DEF ReceiveUnknown, Kept, Room
<1>3. pending' = IF Kept(q.doc) THEN pending \cup {q.doc} ELSE pending
  BY DEF ReceiveUnknown, KeepPending, Kept
<1> DEFINE ok == Kept(q.doc)
<1>4. /\ pass' \in [Replicas -> PassType] /\ inbox' \subseteq inbox /\ OneEach'
      /\ \A r \in inbox' : r.by # None =>
            r.by \in Replicas /\ pass'[r.by].pc = "post" /\ pass'[r.by].day = r.doc.day
      /\ \A p \in Replicas : pass'[p] = pass[p] \/ pass'[p] = Idle
            \/ (ok /\ pass'[p].pc = "mark" /\ pass'[p].day = q.doc.day)
  BY <1>2, Answers
<1> HIDE DEF ok
<1>5. pending' \subseteq Document /\ pending \subseteq pending' /\ \A c \in pending' : Known(c)
  BY <1>1, <1>3 DEF TypeOK, IntakeKnown
<1>6. TypeOK'
  BY <1>1, <1>4, <1>5 DEF TypeOK, PassType, CountedTypeOK
<1>7. q.doc.day \in ReportDays
  BY <1>1 DEF Document
<1>8. \A p \in Replicas : pass'[p].pc = "mark" =>
             \/ pass[p].pc = "mark" /\ pass'[p].day = pass[p].day
             \/ LET d == pass'[p].day
                IN d \in ReportDays /\ reports[d] # None
                   /\ (stored'[d] = reports[d].doc \/ reports[d].doc \in pending')
  BY <1>1, <1>3, <1>4, <1>7, IdleTyped DEF Known, ok
<1>9. \A p \in Replicas : pass'[p].pc \in {"count", "errors"} =>
             pass[p].pc \in {"count", "errors"} /\ pass'[p].at = pass[p].at
  BY <1>4, IdleTyped
<1>10. QED
  BY <1>1, <1>4, <1>5, <1>6, <1>8, <1>9, DocumentsStay
     DEF IntakeKnown, RequestsKnown, Sent, Arrived

LEMMA RecordKeeps == ASSUME ReportInv, ControlPlane(RecordLicense) PROVE ReportInv'
<1> USE DEF ReportInv
<1>1. UNCHANGED <<now, recorded, mode, reports, since, pass, inbox, faults, pending, stored, conflicts>>
      /\ known' \in BOOLEAN
  BY DEF ControlPlane, RecordLicense, instance
<1>2. TypeOK'
  BY <1>1 DEF TypeOK, CountedTypeOK
<1>3. QED
  BY <1>1, <1>2, DocumentsStay DEF OneEach, IntakeKnown, RequestsKnown, Sent, Arrived

LEMMA PromoteKeeps == ASSUME ReportInv, NEW doc \in pending, ControlPlane(Promote(doc)) PROVE ReportInv'
<1> USE DEF ReportInv
<1>1. UNCHANGED <<now, recorded, mode, reports, since, pass, inbox, faults, known>>
      /\ pending' = pending \ {doc} /\ StoreReport(doc)
  BY DEF ControlPlane, Promote, instance
<1>2. doc \in Document /\ Known(doc)
  BY DEF TypeOK, IntakeKnown
<1>3. /\ stored' \in [ReportDays -> Document \cup {Unset}] /\ conflicts' = {}
      /\ stored'[doc.day] = doc
      /\ \A d \in ReportDays : stored[d] # Unset => stored'[d] = stored[d]
      /\ \A d \in ReportDays : stored'[d] # Unset =>
            reports[d] # None /\ stored'[d] = reports[d].doc
  BY <1>1, <1>2, StoresKnown
<1>4. TypeOK'
  BY <1>1, <1>3 DEF TypeOK, CountedTypeOK
<1>5. \A d \in ReportDays : reports[d] # None => reports[d].doc # Unset /\ reports[d].doc.day = d
  BY ValuesAssumption DEF TypeOK, Report, OfItsDay
<1>6. QED
  BY <1>1, <1>3, <1>4, <1>5, DocumentsStay DEF OneEach, IntakeKnown, RequestsKnown, Sent, Arrived

-----------------------------------------------------------------------------
LEMMA NextKeeps == ReportInv /\ [Next]_vars => ReportInv'
<1> SUFFICES ASSUME ReportInv, [Next]_vars PROVE ReportInv'
  OBVIOUS
<1>1. CASE RunsGoOn
  BY <1>1, ClockAndRunsKeep
<1>2. ASSUME NEW p \in Replicas, ReplicaStep(p) PROVE ReportInv'
  BY <1>2, QuietSteps, SaveKeeps, ClaimKeeps, MarkKeeps, EndKeeps, ConfigureKeeps DEF ReplicaStep
<1>3. CASE IntakeStep
  BY <1>3, ReceiveKeeps, KeepPendingKeeps, RecordKeeps, PromoteKeeps DEF IntakeStep
<1>4. CASE UNCHANGED vars
  BY <1>4 DEF ReportInv, OneEach, TypeOK, CountedTypeOK, SentArrived, Sent, OfItsDay, RequestsKnown,
              Known, IntakeKnown, PreparesADay, Yesterday, DayOf, MarksArrived, Arrived, vars, intake
<1>5. QED
  BY <1>1, <1>2, <1>3, <1>4 DEF Next

LEMMA NoneConflicts == ReportInv => NoConflict
<1> SUFFICES ASSUME ReportInv, NEW a \in pending, NEW b \in pending, a.day = b.day PROVE a = b
  BY DEF ReportInv, NoConflict
<1>1. QED
  BY DEF ReportInv, IntakeKnown, Known

(* What the control plane gets is one document per day, and what is marked *)
(* as sent is there: for any replicas, clocks, settings, days and failures *)
(* (PrepareDue, SendDue, Receive, PromotePending).                         *)
THEOREM ReportsArriveOnce == Spec => [](TypeOK /\ NoConflict /\ SentArrived)
<1>1. Spec => []ReportInv
  BY InitHolds, NextKeeps, PTL DEF Spec
<1>2. ReportInv => TypeOK /\ NoConflict /\ SentArrived
  BY NoneConflicts DEF ReportInv
<1>3. QED
  BY <1>1, <1>2, PTL

-----------------------------------------------------------------------------
(* What a report counts.  The day a report is about is over by the clock   *)
(* of the database, so nothing is recorded for it anymore.                 *)

Over(d) == d < DayOf(now)
PreparesOver ==
    \A p \in Replicas : pass[p].pc \in {"count", "errors"} =>
        Yesterday(p) \in ReportDays /\ Over(Yesterday(p))
CountedAll ==
    \A p \in Replicas : pass[p].pc = "errors" => pass[p].runs = RunsOf(Yesterday(p))
ReportsOver == \A d \in ReportDays : reports[d] # None => Over(d)
WholeInv == TypeOK /\ PreparesOver /\ CountedAll /\ ReportsOver /\ ReportIsWhole

LEMMA DaysGrow ==
    ASSUME NEW D \in Nat \ {0}, NEW a \in Nat, NEW b \in Nat, a <= b
    PROVE a \div D \in Nat /\ b \div D \in Nat /\ a \div D <= b \div D
OBVIOUS

\* Past the margin, the clock of a replica and the one of the database agree on the day.
LEMMA SameDay ==
    ASSUME NEW D \in Nat \ {0}, NEW a \in Nat, NEW s \in Nat, (a + s) % D >= s
    PROVE a \div D = (a + s) \div D
OBVIOUS

LEMMA WholeAtFirst == Init => WholeInv
<1>1. ASSUME Init PROVE TypeOK
  BY <1>1, InitHolds DEF ReportInv
<1>2. QED
  BY <1>1 DEF Init, WholeInv, PreparesOver, CountedAll, ReportsOver, ReportIsWhole, Idle

\* A step that prepares nothing.
LEMMA WholeStays ==
    ASSUME WholeInv, TypeOK', UNCHANGED <<now, recorded>>,
           \A d \in ReportDays : reports'[d] # None =>
               reports[d] # None /\ reports'[d].doc = reports[d].doc,
           \A p \in Replicas : pass'[p].pc \in {"count", "errors"} => pass'[p] = pass[p]
    PROVE WholeInv'
<1>1. \A d : RunsOf(d)' = RunsOf(d)
  BY DEF RunsOf
<1>2. PreparesOver' /\ CountedAll' /\ ReportsOver'
  BY <1>1 DEF WholeInv, PreparesOver, CountedAll, ReportsOver, Over, Yesterday, DayOf, RunsOf
<1>3. ReportIsWhole'
  BY <1>1 DEF WholeInv, ReportIsWhole
<1>4. QED
  BY <1>2, <1>3 DEF WholeInv

LEMMA RunsGoOnIsWhole == ASSUME WholeInv, TypeOK', RunsGoOn PROVE WholeInv'
<1>1. UNCHANGED <<reports, pass>> /\ now \in Nat /\ now' \in Nat /\ now <= now'
  BY DEF RunsGoOn, instance, WholeInv, TypeOK, CountedTypeOK, Tick, Record
<1>2. DayOf(now) \in Nat /\ DayOf(now)' \in Nat /\ DayOf(now) <= DayOf(now)'
  BY <1>1, DaysAssumption, DaysGrow DEF DayOf
<1>3. ASSUME NEW d \in Nat, Over(d) PROVE Over(d)' /\ RunsOf(d)' = RunsOf(d)
  <2>1. Over(d)'
    BY <1>2, <1>3 DEF Over
  <2>2. \A r \in Runs : recorded'[r] = d <=> recorded[r] = d
    <3>1. CASE Tick
      BY <3>1 DEF Tick
    <3>2. ASSUME NEW x \in Runs, Record(x) PROVE \A r \in Runs : recorded'[r] = d <=> recorded[r] = d
      <4>1. d # DayOf(now) /\ d # None
        BY <1>2, <1>3, DaysAssumption DEF Over
      <4>2. QED
        BY <3>2, <4>1 DEF Record, WholeInv, TypeOK, CountedTypeOK
    <3>3. QED
      BY <3>1, <3>2 DEF RunsGoOn
  <2>3. QED
    BY <2>1, <2>2 DEF RunsOf
<1>4. \A p \in Replicas : Yesterday(p)' = Yesterday(p)
  BY <1>1 DEF Yesterday, DayOf
<1>5. \A d \in ReportDays : d \in Nat
  BY ReportAssumption
<1>6. PreparesOver'
  <2> SUFFICES ASSUME NEW p \in Replicas, pass[p].pc \in {"count", "errors"}
               PROVE (Yesterday(p) \in ReportDays /\ Over(Yesterday(p)))'
    BY <1>1 DEF PreparesOver
  <2>1. Yesterday(p) \in ReportDays /\ Over(Yesterday(p))
    BY DEF WholeInv, PreparesOver
  <2>2. QED
    BY <1>2, <1>4, <1>5, <2>1 DEF Over
<1>7. CountedAll'
  <2> SUFFICES ASSUME NEW p \in Replicas, pass[p].pc = "errors"
               PROVE pass'[p].runs = RunsOf(Yesterday(p))'
    BY <1>1 DEF CountedAll
  <2>1. Yesterday(p) \in Nat /\ Over(Yesterday(p)) /\ pass[p].runs = RunsOf(Yesterday(p))
    BY <1>5 DEF WholeInv, PreparesOver, CountedAll
  <2> DEFINE y == Yesterday(p)
  <2>2. y \in Nat /\ y' = y /\ Over(y)
    BY <1>4, <2>1
  <2>3. RunsOf(y)' = {r \in Runs : recorded'[r] = y}
    BY <2>2 DEF RunsOf
  <2> HIDE DEF y
  <2>4. {r \in Runs : recorded'[r] = y} = RunsOf(y)
    BY <1>3, <2>2 DEF RunsOf
  <2>5. QED
    BY <1>1, <2>1, <2>3, <2>4 DEF y
<1>8. ReportsOver' /\ ReportIsWhole'
  BY <1>1, <1>3, <1>5 DEF WholeInv, ReportsOver, ReportIsWhole
<1>9. QED
  BY <1>6, <1>7, <1>8 DEF WholeInv

LEMMA BeginIsWhole ==
    ASSUME WholeInv, TypeOK', NEW p \in Replicas, BeginPass(p) PROVE WholeInv'
<1> DEFINE t == Clock(p)
           due == DayIsClosed(t) /\ DayOf(t) > 0 /\ mode[p] # "none"
                  /\ DayOf(t) - 1 \in ReportDays /\ reports[DayOf(t) - 1] = None
           w == [Idle EXCEPT !.pc = IF due THEN "count" ELSE "send", !.at = t]
<1>1. now \in Nat /\ Skew[p] \in Nat /\ t = now + Skew[p] /\ Skew[p] <= ClosedAfter
      /\ ClosedAfter \in Nat /\ t \in Nat
  BY ReportAssumption, ClockAssumption DEF WholeInv, TypeOK, CountedTypeOK, Clock
<1>2. UNCHANGED <<now, recorded, reports>> /\ Becomes(p, w)
  BY DEF BeginPass, Others, instance
<1>3. w \in PassType /\ w.at = t /\ w.pc = IF due THEN "count" ELSE "send"
  <2>1. t \in Nat
    BY <1>1
  <2>2. QED
    BY <2>1, IdleTyped DEF Idle, PassType
<1>4. due => DayOf(t) - 1 \in ReportDays /\ DayOf(t) - 1 < DayOf(now)
  <2> SUFFICES ASSUME due PROVE DayOf(t) - 1 < DayOf(now)
    OBVIOUS
  <2>1. (now + Skew[p]) % DayLength >= Skew[p]
    BY <1>1, DaysAssumption DEF DayIsClosed
  <2> HIDE DEF due, t
  <2>2. now \div DayLength = (now + Skew[p]) \div DayLength
    BY <1>1, <2>1, DaysAssumption, SameDay
  <2>3. DayOf(t) = DayOf(now) /\ DayOf(now) \in Nat
    BY <1>1, <2>2, DaysAssumption, DaysGrow DEF DayOf
  <2>4. QED
    BY <2>3
<1> HIDE DEF w, due
<1>5. pass'[p] = w /\ \A q \in Replicas \ {p} : pass'[q] = pass[q]
  BY <1>2, <1>3, PassBecomes DEF WholeInv
<1>6. PreparesOver' /\ CountedAll'
  BY <1>2, <1>3, <1>4, <1>5
     DEF WholeInv, PreparesOver, CountedAll, Over, Yesterday, DayOf, RunsOf
<1>7. QED
  BY <1>2, <1>6 DEF WholeInv, ReportsOver, Over, DayOf, ReportIsWhole, RunsOf

LEMMA CountIsWhole ==
    ASSUME WholeInv, TypeOK', NEW p \in Replicas, CountRuns(p) PROVE WholeInv'
<1> DEFINE w == [pass[p] EXCEPT !.pc = "errors", !.runs = RunsOf(Yesterday(p))]
<1>1. w \in PassType /\ w.at = pass[p].at /\ w.pc = "errors" /\ w.runs = RunsOf(Yesterday(p))
  BY PassTyped DEF WholeInv, PassType, RunsOf
<1>2. UNCHANGED <<now, recorded, reports>> /\ Becomes(p, w) /\ pass[p].pc = "count"
  BY DEF CountRuns, Others, instance
<1> HIDE DEF w
<1>3. pass'[p] = w /\ \A q \in Replicas \ {p} : pass'[q] = pass[q]
  BY <1>1, <1>2, PassBecomes DEF WholeInv
<1>4. PreparesOver' /\ CountedAll'
  BY <1>1, <1>2, <1>3
     DEF WholeInv, PreparesOver, CountedAll, Over, Yesterday, DayOf, RunsOf
<1>5. QED
  BY <1>2, <1>4 DEF WholeInv, ReportsOver, Over, DayOf, ReportIsWhole, RunsOf

LEMMA SaveIsWhole ==
    ASSUME WholeInv, TypeOK', NEW p \in Replicas, SaveReport(p) PROVE WholeInv'
<1> DEFINE day == Yesterday(p)
           told(runs) == IF p \in Diagnosing THEN runs ELSE {}
           doc == [day |-> day, by |-> p, runs |-> told(pass[p].runs),
                   errors |-> told(RunsOf(day))]
           made == [doc |-> doc, preparedAt |-> pass[p].at, sentAt |-> None, triedAt |-> None]
           w == [pass[p] EXCEPT !.pc = "send", !.runs = {}]
<1>1. UNCHANGED <<now, recorded>> /\ Becomes(p, w) /\ reports' = Saved(day, made)
      /\ pass[p].pc = "errors"
  BY DEF SaveReport, Others
<1>2. w \in PassType /\ w.pc = "send"
  BY PassTyped DEF WholeInv, PassType
<1>3. made.doc.by = p /\ Over(day)
      /\ (p \in Diagnosing => made.doc.runs = RunsOf(day) /\ made.doc.errors = RunsOf(day))
  BY <1>1 DEF WholeInv, CountedAll, PreparesOver
<1> HIDE DEF w, made, day
<1>4. pass'[p] = w /\ \A q \in Replicas \ {p} : pass'[q] = pass[q]
  BY <1>1, <1>2, PassBecomes DEF WholeInv
<1>5. \A d \in ReportDays : reports'[d] = reports[d] \/ (d = day /\ reports'[d] = made)
  BY <1>1 DEF Saved, WholeInv, TypeOK
<1>6. PreparesOver' /\ CountedAll'
  BY <1>1, <1>2, <1>4 DEF WholeInv, PreparesOver, CountedAll, Over, Yesterday, DayOf, RunsOf
<1>7. ReportsOver' /\ ReportIsWhole'
  BY <1>1, <1>3, <1>5 DEF WholeInv, ReportsOver, ReportIsWhole, Over, DayOf, RunsOf
<1>8. QED
  BY <1>6, <1>7 DEF WholeInv

\* The steps of a replica that sends, or that fails.
LEMMA SendingIsWhole ==
    ASSUME WholeInv, ReportInv, TypeOK', NEW p \in Replicas,
           PrepareFails(p) \/ StartOrStop(p) \/ ReadSince(p) \/ ReadLastSent(p) \/ Claim(p)
             \/ MarkSent(p) \/ PassEnds(p) \/ Configure(p)
    PROVE WholeInv'
<1>1. UNCHANGED <<now, recorded>>
  BY DEF PrepareFails, StartOrStop, ReadSince, ReadLastSent, Claim, MarkSent, PassEnds, Configure,
         Others, instance
<1>2. \A q \in Replicas : pass'[q].pc \in {"count", "errors"} => pass'[q] = pass[q]
  <2>1. pass[p] \in PassType
    BY PassTyped DEF ReportInv
  <2>2. ASSUME NEW w \in PassType, Becomes(p, w), w.pc \notin {"count", "errors"}
        PROVE \A q \in Replicas : pass'[q].pc \in {"count", "errors"} => pass'[q] = pass[q]
    BY <2>2, PassBecomes DEF ReportInv
  <2>3. CASE PrepareFails(p)
    <3>1. [pass[p] EXCEPT !.pc = "send", !.runs = {}] \in PassType
      BY <2>1 DEF PassType
    <3>2. [pass[p] EXCEPT !.pc = "send", !.runs = {}].pc = "send"
      BY <2>1 DEF PassType
    <3>3. QED
      BY <2>2, <2>3, <3>1, <3>2 DEF PrepareFails
  <2>4. CASE StartOrStop(p)
    <3>1. CASE Becomes(p, Idle)
      BY <2>2, <3>1, IdleTyped
    <3>2. CASE Goes(p, "since")
      BY <3>2 DEF Goes, ReportInv, TypeOK
    <3>3. QED
      BY <2>4, <3>1, <3>2 DEF StartOrStop
  <2>5. CASE ReadSince(p)
    <3> DEFINE w == [pass[p] EXCEPT !.pc = "last", !.since = since]
    <3>1. since \in Nat \cup {None}
      BY DEF ReportInv, TypeOK
    <3>2. w \in PassType /\ w.pc = "last"
      BY <2>1, <3>1 DEF PassType
    <3>3. Becomes(p, Idle) \/ Becomes(p, w)
      BY <2>5 DEF ReadSince
    <3> HIDE DEF w
    <3>4. QED
      BY <2>2, <3>2, <3>3, IdleTyped
  <2>6. CASE ReadLastSent(p)
    <3> DEFINE w == [pass[p] EXCEPT !.pc = "claim", !.waits = WaitsBeforeFirst(pass[p].since)]
    <3>1. WaitsBeforeFirst(pass[p].since) \in BOOLEAN
      BY DEF WaitsBeforeFirst
    <3>2. w \in PassType /\ w.pc = "claim"
      BY <2>1, <3>1 DEF PassType
    <3>3. Becomes(p, w)
      BY <2>6 DEF ReadLastSent
    <3> HIDE DEF w
    <3>4. QED
      BY <2>2, <3>2, <3>3
  <2>7. CASE Claim(p)
    <3>1. CASE Becomes(p, Idle)
      BY <2>2, <3>1, IdleTyped
    <3>2. ASSUME NEW d \in ReportDays, Becomes(p, [pass[p] EXCEPT !.pc = "post", !.day = d])
          PROVE \A q \in Replicas : pass'[q].pc \in {"count", "errors"} => pass'[q] = pass[q]
      BY <3>2 DEF Becomes, ReportInv, TypeOK
    <3>3. QED
      BY <2>7, <3>1, <3>2 DEF Claim
  <2>8. CASE MarkSent(p)
    <3> DEFINE w == [pass[p] EXCEPT !.pc = "claim", !.waits = FALSE, !.day = None]
    <3>1. w \in PassType /\ w.pc = "claim"
      BY <2>1 DEF PassType
    <3>2. Becomes(p, w)
      BY <2>8 DEF MarkSent
    <3> HIDE DEF w
    <3>3. QED
      BY <2>2, <3>1, <3>2
  <2>9. CASE PassEnds(p) \/ Configure(p)
    BY <2>2, <2>9, IdleTyped DEF PassEnds, Configure
  <2>10. QED
    BY <2>3, <2>4, <2>5, <2>6, <2>7, <2>8, <2>9
<1>3. \A d \in ReportDays : reports'[d] # None => reports[d] # None /\ reports'[d].doc = reports[d].doc
  <2>1. ASSUME NEW e \in ReportDays, reports[e] # None, NEW changed,
               changed.doc = reports[e].doc, reports' = [reports EXCEPT ![e] = changed]
        PROVE \A d \in ReportDays : reports'[d] # None => reports[d] # None /\ reports'[d].doc = reports[d].doc
    BY <2>1 DEF ReportInv, TypeOK
  <2>2. CASE Claim(p)
    <3>1. CASE UNCHANGED reports
      BY <3>1
    <3>2. ASSUME NEW e \in ReportDays, Due(p, e, Clock(p)),
                 reports' = [reports EXCEPT ![e].triedAt = Clock(p)]
          PROVE \A d \in ReportDays : reports'[d] # None => reports[d] # None /\ reports'[d].doc = reports[d].doc
      <4>1. reports[e] # None /\ reports[e] \in Report
        BY <3>2 DEF Due, ReportInv, TypeOK
      <4>2. [reports[e] EXCEPT !.triedAt = Clock(p)].doc = reports[e].doc
        BY <4>1 DEF Report
      <4>3. QED
        BY <2>1, <3>2, <4>1, <4>2
    <3>3. QED
      BY <2>2, <3>1, <3>2 DEF Claim
  <2>3. CASE MarkSent(p)
    <3> DEFINE e == pass[p].day
               t == IF reports[e].sentAt = None THEN Clock(p) ELSE reports[e].sentAt
    <3>1. e \in ReportDays /\ reports[e] # None /\ reports[e] \in Report
      BY <2>3 DEF MarkSent, ReportInv, MarksArrived, TypeOK
    <3>2. [reports[e] EXCEPT !.sentAt = t].doc = reports[e].doc
      BY <3>1 DEF Report
    <3>3. reports' = [reports EXCEPT ![e] = [reports[e] EXCEPT !.sentAt = t]]
      BY <2>3 DEF MarkSent
    <3> HIDE DEF e, t
    <3>4. QED
      BY <2>1, <3>1, <3>2, <3>3
  <2>4. CASE PrepareFails(p) \/ StartOrStop(p) \/ ReadSince(p) \/ ReadLastSent(p)
             \/ PassEnds(p) \/ Configure(p)
    BY <2>4 DEF PrepareFails, StartOrStop, ReadSince, ReadLastSent, PassEnds, Configure, Others,
                instance
  <2>5. QED
    BY <2>2, <2>3, <2>4
<1>4. QED
  BY <1>1, <1>2, <1>3, WholeStays

LEMMA IntakeIsWhole == ASSUME WholeInv, ReportInv, TypeOK', IntakeStep PROVE WholeInv'
<1>1. UNCHANGED <<now, recorded, reports>>
  BY DEF IntakeStep, Receive, ReceiveUnknown, ControlPlane, instance
<1>2. ASSUME NEW q \in inbox, NEW ok \in BOOLEAN, Answer(q, ok)
      PROVE \A p \in Replicas : pass'[p].pc \in {"count", "errors"} => pass'[p] = pass[p]
  BY <1>2, Answers, IdleTyped
<1>3. \A p \in Replicas : pass'[p].pc \in {"count", "errors"} => pass'[p] = pass[p]
  <2>1. ASSUME NEW q \in inbox, Receive(q)
        PROVE \A p \in Replicas : pass'[p].pc \in {"count", "errors"} => pass'[p] = pass[p]
    BY <1>2, <2>1 DEF Receive
  <2>2. ASSUME NEW q \in inbox, ReceiveUnknown(q)
        PROVE \A p \in Replicas : pass'[p].pc \in {"count", "errors"} => pass'[p] = pass[p]
    BY <1>2, <2>2 DEF ReceiveUnknown, Kept, Room
  <2>3. QED
    BY <2>1, <2>2 DEF IntakeStep, ControlPlane
<1>4. QED
  BY <1>1, <1>3, WholeStays

LEMMA NextIsWhole == WholeInv /\ ReportInv /\ TypeOK' /\ [Next]_vars => WholeInv'
<1> SUFFICES ASSUME WholeInv, ReportInv, TypeOK', [Next]_vars PROVE WholeInv'
  OBVIOUS
<1>1. CASE RunsGoOn
  BY <1>1, RunsGoOnIsWhole
<1>2. ASSUME NEW p \in Replicas, ReplicaStep(p) PROVE WholeInv'
  BY <1>2, BeginIsWhole, CountIsWhole, SaveIsWhole, SendingIsWhole DEF ReplicaStep
<1>3. CASE IntakeStep
  BY <1>3, IntakeIsWhole
<1>4. CASE UNCHANGED vars
  BY <1>4, WholeStays DEF vars
<1>5. QED
  BY <1>1, <1>2, <1>3, <1>4 DEF Next

(* A report counts exactly the runs recorded on its day, and its errors    *)
(* are those of the same runs: for any replicas whose clocks are at most   *)
(* closedAfter ahead of the database, and any failures (PrepareDue).       *)
THEOREM ReportsAreWhole == Spec => []ReportIsWhole
<1>1. Init => WholeInv /\ ReportInv
  BY WholeAtFirst, InitHolds
<1>2. WholeInv /\ ReportInv /\ [Next]_vars => WholeInv' /\ ReportInv'
  <2>1. ReportInv' => TypeOK'
    BY DEF ReportInv
  <2>2. QED
    BY <2>1, NextKeeps, NextIsWhole
<1>3. WholeInv => ReportIsWhole
  BY DEF WholeInv
<1>4. QED
  BY <1>1, <1>2, <1>3, PTL DEF Spec

-----------------------------------------------------------------------------
(* When the first report leaves.  A report is sent once its day is over by *)
(* the clock of who sends it, so that the first one a pass sends is later  *)
(* than the start the pass read, and those that follow need not wait.      *)

SentSince(start) == \E t \in SentTimes : t >= start
WaitFacts(p, w) ==
    /\ w.at <= Clock(p)
    /\ w.pc \in {"last", "claim", "post", "mark"} => w.since \in Nat
    /\ w.pc \in {"post", "mark"} =>
         w.day \in ReportDays /\ DayOf(w.since) <= w.day /\ w.day < DayOf(w.at)
    /\ w.pc = "claim" => w.waits \/ SentSince(w.since)
SentOnceOver == \A d \in ReportDays : Sent(d) => d < DayOf(reports[d].sentAt)
WaitInv == (\A p \in Replicas : WaitFacts(p, pass[p])) /\ SentOnceOver

LEMMA WaitAtFirst == Init => WaitInv
<1> SUFFICES ASSUME Init PROVE WaitInv
  OBVIOUS
<1>1. \A p \in Replicas : pass[p] = Idle /\ Clock(p) \in Nat
  BY ReportAssumption DEF Init, DaysInit, Clock
<1>2. SentOnceOver
  BY DEF Init, SentOnceOver, Sent
<1> QED BY <1>1, <1>2 DEF WaitInv, WaitFacts, Idle

LEMMA SentTimesAreNat == ASSUME TypeOK PROVE SentTimes \subseteq Nat
BY ReportAssumption DEF TypeOK, SentTimes, Sent, Report

\* A day that is not before another ends after all moments of it.
LEMMA LaterDay ==
    ASSUME NEW a \in Nat, NEW b \in Nat, DayOf(a) < DayOf(b) PROVE a <= b
<1> SUFFICES ASSUME b <= a PROVE FALSE
  OBVIOUS
<1>1. DayOf(a) \in Nat /\ DayOf(b) \in Nat /\ DayOf(b) <= DayOf(a)
  BY DaysAssumption, DaysGrow DEF DayOf
<1> QED BY <1>1

\* Time goes on, reports are sent, and what a pass knew stays true.
LEMMA WaitStays ==
    ASSUME TypeOK, WaitInv, TypeOK', now <= now', SentOnceOver',
           \A d \in ReportDays : Sent(d) => Sent(d)' /\ reports'[d].sentAt = reports[d].sentAt,
           \A p \in Replicas : pass'[p] = pass[p] \/ pass'[p] = Idle \/ WaitFacts(p, pass[p])'
    PROVE WaitInv'
<1>1. SentTimes \subseteq SentTimes'
  BY DEF SentTimes
<1> SUFFICES ASSUME NEW p \in Replicas PROVE WaitFacts(p, pass[p])'
  BY DEF WaitInv
<1>2. Clock(p) \in Nat /\ Clock(p)' \in Nat /\ Clock(p) <= Clock(p)' /\ pass[p].at \in Nat
  BY ReportAssumption DEF TypeOK, CountedTypeOK, Clock
<1>3. CASE pass'[p] = pass[p]
  <2> DEFINE w == pass[p]
  <2>1. w = pass'[p] /\ WaitFacts(p, w) /\ w.at \in Nat
    BY <1>2, <1>3 DEF WaitInv
  <2>2. SentSince(pass[p].since) => SentSince(pass[p].since)'
    BY <1>1, <1>3 DEF SentSince
  <2> QED BY <1>2, <1>3, <2>1, <2>2 DEF WaitFacts, DayOf
<1>4. CASE pass'[p] = Idle
  BY <1>2, <1>4 DEF WaitFacts, Idle
<1> QED BY <1>3, <1>4

\* A pass that becomes w, with the same reports.
LEMMA WaitBecomes ==
    ASSUME TypeOK, WaitInv, TypeOK', NEW p \in Replicas, NEW w \in PassType, Becomes(p, w),
           UNCHANGED <<now, reports>>, w = Idle \/ WaitFacts(p, w)
    PROVE WaitInv'
<1>1. pass'[p] = w /\ \A q \in Replicas \ {p} : pass'[q] = pass[q]
  BY PassBecomes
<1>2. SentOnceOver' /\ \A d \in ReportDays : Sent(d)' = Sent(d)
  BY DEF WaitInv, SentOnceOver, Sent, DayOf
<1>3. \A x : SentSince(x)' = SentSince(x)
  BY DEF SentSince, SentTimes, Sent
<1>4. WaitFacts(p, w) => WaitFacts(p, pass[p])'
  BY <1>1, <1>3 DEF WaitFacts, DayOf, Clock
<1>5. now <= now'
  BY DEF TypeOK, CountedTypeOK
<1> QED BY <1>1, <1>2, <1>4, <1>5, WaitStays

\* The steps of a pass up to its claims.
LEMMA WaitPrepares ==
    ASSUME TypeOK, WaitInv, TypeOK', NEW p \in Replicas,
           BeginPass(p) \/ CountRuns(p) \/ PrepareFails(p) \/ StartOrStop(p) \/ ReadSince(p)
             \/ ReadLastSent(p)
    PROVE WaitInv'
<1>1. pass[p] \in PassType /\ WaitFacts(p, pass[p])
  BY PassTyped DEF WaitInv
<1>2. UNCHANGED <<now, reports>>
  BY DEF BeginPass, CountRuns, PrepareFails, StartOrStop, ReadSince, ReadLastSent, Others, instance
<1>3. CASE BeginPass(p)
  <2> DEFINE t == Clock(p)
             due == DayIsClosed(t) /\ DayOf(t) > 0 /\ mode[p] # "none"
                    /\ DayOf(t) - 1 \in ReportDays /\ reports[DayOf(t) - 1] = None
             w == [Idle EXCEPT !.pc = IF due THEN "count" ELSE "send", !.at = t]
  <2>1. t \in Nat
    BY ReportAssumption DEF Clock, TypeOK, CountedTypeOK
  <2>2. w \in PassType /\ w.at = t /\ w.pc \in {"count", "send"}
    BY <2>1, IdleTyped DEF Idle, PassType
  <2>3. Becomes(p, w)
    BY <1>3 DEF BeginPass
  <2> HIDE DEF w
  <2>4. WaitFacts(p, w)
    BY <2>1, <2>2 DEF WaitFacts
  <2> QED BY <1>2, <2>2, <2>3, <2>4, WaitBecomes
<1>4. CASE CountRuns(p)
  <2> DEFINE w == [pass[p] EXCEPT !.pc = "errors", !.runs = RunsOf(Yesterday(p))]
  <2>1. w \in PassType /\ w.at = pass[p].at /\ w.pc = "errors"
    BY <1>1 DEF PassType, RunsOf
  <2>2. Becomes(p, w)
    BY <1>4 DEF CountRuns
  <2> HIDE DEF w
  <2>3. WaitFacts(p, w)
    BY <1>1, <2>1 DEF WaitFacts
  <2> QED BY <1>2, <2>1, <2>2, <2>3, WaitBecomes
<1>5. CASE PrepareFails(p)
  <2> DEFINE w == [pass[p] EXCEPT !.pc = "send", !.runs = {}]
  <2>1. w \in PassType /\ w.at = pass[p].at /\ w.pc = "send"
    BY <1>1 DEF PassType
  <2>2. Becomes(p, w)
    BY <1>5 DEF PrepareFails
  <2> HIDE DEF w
  <2>3. WaitFacts(p, w)
    BY <1>1, <2>1 DEF WaitFacts
  <2> QED BY <1>2, <2>1, <2>2, <2>3, WaitBecomes
<1>6. CASE StartOrStop(p)
  <2> DEFINE w == [pass[p] EXCEPT !.pc = "since"]
  <2>1. w \in PassType /\ w.at = pass[p].at /\ w.pc = "since"
    BY <1>1 DEF PassType
  <2>2. Becomes(p, w) \/ Becomes(p, Idle)
    BY <1>6 DEF StartOrStop, Goes, Becomes
  <2> HIDE DEF w
  <2>3. WaitFacts(p, w)
    BY <1>1, <2>1 DEF WaitFacts
  <2> QED BY <1>2, <2>1, <2>2, <2>3, WaitBecomes, IdleTyped
<1>7. CASE ReadSince(p)
  <2>1. CASE since = None
    BY <1>2, <1>7, <2>1, WaitBecomes, IdleTyped DEF ReadSince
  <2>2. CASE since # None
    <3> DEFINE w == [pass[p] EXCEPT !.pc = "last", !.since = since]
    <3>1. since \in Nat
      BY <2>2 DEF TypeOK
    <3>2. w \in PassType /\ w.at = pass[p].at /\ w.pc = "last" /\ w.since \in Nat
      BY <1>1, <3>1 DEF PassType
    <3>3. Becomes(p, w)
      BY <1>7, <2>2 DEF ReadSince
    <3> HIDE DEF w
    <3>4. WaitFacts(p, w)
      BY <1>1, <3>2 DEF WaitFacts
    <3> QED BY <1>2, <3>2, <3>3, <3>4, WaitBecomes
  <2> QED BY <2>1, <2>2
<1>8. CASE ReadLastSent(p)
  <2> DEFINE start == pass[p].since
             w == [pass[p] EXCEPT !.pc = "claim", !.waits = WaitsBeforeFirst(start)]
  <2>1. start \in Nat
    BY <1>1, <1>8 DEF WaitFacts, ReadLastSent
  <2>2. WaitsBeforeFirst(start) \in BOOLEAN
    BY DEF WaitsBeforeFirst
  <2>3. w \in PassType /\ w.at = pass[p].at /\ w.pc = "claim" /\ w.since = start
    BY <1>1, <2>2 DEF PassType
  <2>4. w.waits = WaitsBeforeFirst(start)
    BY <1>1 DEF PassType
  <2>5. Becomes(p, w)
    BY <1>8 DEF ReadLastSent
  <2> HIDE DEF w
  <2>6. WaitsBeforeFirst(start) \/ SentSince(start)
    BY <2>1, SentTimesAreNat DEF WaitsBeforeFirst, SentSince
  <2>7. w.waits \/ SentSince(start)
    BY <2>4, <2>6, Zenon
  <2>8. WaitFacts(p, w)
    BY <1>1, <2>1, <2>3, <2>7 DEF WaitFacts
  <2> QED BY <1>2, <2>3, <2>5, <2>8, WaitBecomes
<1> QED BY <1>3, <1>4, <1>5, <1>6, <1>7, <1>8

\* A report just saved was not sent, and none that was is saved over.
LEMMA WaitSaves ==
    ASSUME TypeOK, WaitInv, TypeOK', NEW p \in Replicas, SaveReport(p) PROVE WaitInv'
<1> DEFINE day == Yesterday(p)
           told(runs) == IF p \in Diagnosing THEN runs ELSE {}
           doc == [day |-> day, by |-> p, runs |-> told(pass[p].runs),
                   errors |-> told(RunsOf(day))]
           made == [doc |-> doc, preparedAt |-> pass[p].at, sentAt |-> None, triedAt |-> None]
           w == [pass[p] EXCEPT !.pc = "send", !.runs = {}]
<1>1. pass[p] \in PassType /\ WaitFacts(p, pass[p])
  BY PassTyped DEF WaitInv
<1>2. now' = now /\ now <= now' /\ Becomes(p, w) /\ reports' = Saved(day, made)
  BY DEF SaveReport, Others, TypeOK, CountedTypeOK
<1>3. w \in PassType /\ w.at = pass[p].at /\ w.pc = "send"
  BY <1>1 DEF PassType
<1>4. made.sentAt = None
  OBVIOUS
<1> HIDE DEF w, made, day
<1>5. pass'[p] = w /\ \A q \in Replicas \ {p} : pass'[q] = pass[q]
  BY <1>2, <1>3, PassBecomes
<1>6. \A d \in ReportDays :
         reports'[d] = reports[d] \/ (reports[d] = None /\ reports'[d] = made)
  BY <1>2 DEF Saved, TypeOK
<1>7. \A d \in ReportDays :
         /\ Sent(d) <=> Sent(d)'
         /\ Sent(d) => reports'[d].sentAt = reports[d].sentAt
  BY <1>4, <1>6 DEF Sent
<1>8. SentOnceOver'
  BY <1>7 DEF WaitInv, SentOnceOver, DayOf
<1>9. WaitFacts(p, w) /\ WaitFacts(p, pass[p])'
  BY <1>1, <1>2, <1>3, <1>5 DEF WaitFacts, Clock
<1> QED BY <1>2, <1>5, <1>7, <1>8, <1>9, WaitStays

LEMMA WaitClaims ==
    ASSUME ReportInv, WaitInv, TypeOK', NEW p \in Replicas, Claim(p) PROVE WaitInv'
<1>1. pass[p] \in PassType /\ WaitFacts(p, pass[p]) /\ TypeOK
  BY PassTyped DEF ReportInv, WaitInv
<1>2. now' = now /\ now <= now' /\ pass[p].pc = "claim"
  <2>1. now' = now /\ pass[p].pc = "claim"
    BY DEF Claim
  <2>2. now \in Nat
    BY <1>1 DEF TypeOK, CountedTypeOK
  <2> QED BY <2>1, <2>2
<1>3. CASE UNCHANGED reports /\ Becomes(p, Idle)
  BY <1>1, <1>2, <1>3, WaitBecomes, IdleTyped
<1>4. ASSUME NEW d \in ReportDays, Due(p, d, Clock(p)),
             reports' = [reports EXCEPT ![d].triedAt = Clock(p)],
             Becomes(p, [pass[p] EXCEPT !.pc = "post", !.day = d])
      PROVE WaitInv'
  <2> DEFINE w == [pass[p] EXCEPT !.pc = "post", !.day = d]
             tried == [reports[d] EXCEPT !.triedAt = Clock(p)]
  <2>1. w \in PassType /\ w.at = pass[p].at /\ w.since = pass[p].since /\ w.pc = "post" /\ w.day = d
    BY <1>1 DEF PassType
  <2> HIDE DEF w
  <2>2. pass'[p] = w /\ \A q \in Replicas \ {p} : pass'[q] = pass[q]
    BY <1>1, <1>4, <2>1, PassBecomes DEF w
  <2>3. reports[d] \in Report
    BY <1>1, <1>4 DEF Due, TypeOK
  <2>4. tried.sentAt = reports[d].sentAt
    BY <2>3 DEF Report
  <2>5. reports' = [reports EXCEPT ![d] = tried]
    BY <1>4
  <2> HIDE DEF tried
  <2>6. \A e \in ReportDays : Sent(e) => Sent(e)' /\ reports'[e].sentAt = reports[e].sentAt
    BY <1>1, <1>4, <2>4, <2>5 DEF Sent, Due, TypeOK
  <2>7. \A e \in ReportDays : Sent(e)' => Sent(e)
    BY <1>1, <1>4, <2>4, <2>5 DEF Sent, Due, TypeOK
  <2>8. SentOnceOver'
    BY <2>6, <2>7 DEF WaitInv, SentOnceOver, DayOf
  <2>9. DayOf(w.since) <= d /\ d < DayOf(w.at)
    <3>1. w.at \in Nat /\ w.since \in Nat /\ d \in Nat
      BY <1>1, <1>2, <2>1, ReportAssumption DEF WaitFacts, PassType
    <3>2. DayOf(w.at) \in Nat /\ DayOf(w.since) \in Nat
      BY <3>1, DaysAssumption, DaysGrow DEF DayOf
    <3>3. d <= DayOf(w.at) - 1 /\ DayOf(w.since) <= d
      BY <1>4, <2>1, <3>1, <3>2 DEF Due, InRange, Yesterday
    <3> QED BY <3>1, <3>2, <3>3
  <2>10. WaitFacts(p, w)
    BY <1>1, <1>2, <2>1, <2>9 DEF WaitFacts
  <2>11. WaitFacts(p, pass[p])'
    BY <1>2, <2>1, <2>2, <2>10 DEF WaitFacts, DayOf, Clock
  <2> QED BY <1>1, <1>2, <2>2, <2>6, <2>8, <2>11, WaitStays
<1> QED BY <1>3, <1>4 DEF Claim

LEMMA WaitMarks ==
    ASSUME ReportInv, WaitInv, TypeOK', NEW p \in Replicas, MarkSent(p) PROVE WaitInv'
<1> DEFINE e == pass[p].day
           start == pass[p].since
           t == IF reports[e].sentAt = None THEN Clock(p) ELSE reports[e].sentAt
           marked == [reports[e] EXCEPT !.sentAt = t]
           w == [pass[p] EXCEPT !.pc = "claim", !.waits = FALSE, !.day = None]
<1>1. pass[p] \in PassType /\ WaitFacts(p, pass[p]) /\ TypeOK /\ pass[p].pc = "mark"
  BY PassTyped DEF ReportInv, WaitInv, MarkSent
<1>2. e \in ReportDays /\ reports[e] # None /\ reports[e] \in Report
  BY <1>1 DEF ReportInv, MarksArrived, TypeOK
<1>3. /\ now' = now /\ now <= now' /\ Becomes(p, w)
      /\ reports' = [reports EXCEPT ![e] = marked]
  BY <1>1 DEF MarkSent, Others, TypeOK, CountedTypeOK
<1>4. w \in PassType /\ w.at = pass[p].at /\ w.since = start /\ w.pc = "claim"
  BY <1>1 DEF PassType
<1>5. /\ start \in Nat /\ e \in Nat /\ pass[p].at \in Nat /\ Clock(p) \in Nat
      /\ pass[p].at <= Clock(p) /\ DayOf(start) <= e /\ e < DayOf(pass[p].at)
  <2>1. now \in Nat /\ Skew[p] \in Nat
    BY <1>1, ReportAssumption DEF TypeOK, CountedTypeOK
  <2>2. Clock(p) \in Nat
    BY <2>1 DEF Clock
  <2>3. start \in Nat /\ pass[p].at <= Clock(p) /\ DayOf(start) <= e /\ e < DayOf(pass[p].at)
    BY <1>1 DEF WaitFacts
  <2>4. e \in Nat /\ pass[p].at \in Nat
    BY <1>1, <1>2, ReportAssumption DEF PassType
  <2> QED BY <2>2, <2>3, <2>4
<1>6. DayOf(start) \in Nat /\ DayOf(pass[p].at) \in Nat
      /\ DayOf(Clock(p)) \in Nat /\ DayOf(pass[p].at) <= DayOf(Clock(p))
  BY <1>5, DaysAssumption, DaysGrow DEF DayOf
<1>7. t \in Nat /\ t # None /\ e < DayOf(t)
  <2>1. CASE reports[e].sentAt = None
    BY <1>5, <1>6, <2>1, DaysAssumption
  <2>2. CASE reports[e].sentAt # None
    BY <1>2, <2>2, DaysAssumption DEF WaitInv, SentOnceOver, Sent, Report
  <2> QED BY <2>1, <2>2
<1>8. start <= t
  <2>1. DayOf(t) \in Nat
    BY <1>7, DaysAssumption, DaysGrow DEF DayOf
  <2>2. DayOf(start) < DayOf(t)
    BY <1>5, <1>6, <1>7, <2>1
  <2> QED BY <1>5, <1>7, <2>2, LaterDay
<1>9. marked.sentAt = t
  BY <1>2 DEF Report
<1>10. marked # None
  <2>1. marked \in Report
    BY <1>2, <1>7 DEF Report
  <2> QED BY <2>1, ValuesAssumption
<1>11. reports[e].sentAt # None => t = reports[e].sentAt
  OBVIOUS
<1> HIDE DEF marked, w, t
<1>12. pass'[p] = w /\ \A q \in Replicas \ {p} : pass'[q] = pass[q]
  BY <1>1, <1>3, <1>4, PassBecomes
<1>13. reports'[e] = marked /\ \A d \in ReportDays \ {e} : reports'[d] = reports[d]
  BY <1>1, <1>2, <1>3 DEF TypeOK
<1>14. \A d \in ReportDays : Sent(d) => Sent(d)' /\ reports'[d].sentAt = reports[d].sentAt
  BY <1>7, <1>9, <1>10, <1>11, <1>13 DEF Sent
<1>15. SentOnceOver'
  BY <1>7, <1>9, <1>13 DEF WaitInv, SentOnceOver, Sent, DayOf
<1>16. t \in SentTimes'
  BY <1>2, <1>7, <1>9, <1>10, <1>13 DEF SentTimes, Sent
<1>17. WaitFacts(p, pass[p])'
  BY <1>1, <1>3, <1>4, <1>5, <1>8, <1>12, <1>16, <1>7 DEF WaitFacts, SentSince, Clock
<1> QED BY <1>1, <1>3, <1>12, <1>14, <1>15, <1>17, WaitStays

\* The control plane answers: the pass that posted marks its report, or ends.
LEMMA WaitAnswers ==
    ASSUME TypeOK, WaitInv, TypeOK', NEW q \in inbox, NEW ok \in BOOLEAN, Answer(q, ok),
           UNCHANGED <<now, reports>>
    PROVE WaitInv'
<1>1. CASE q.by = None
  <2>1. pass' = pass /\ now <= now'
    BY <1>1 DEF Answer, TypeOK, CountedTypeOK
  <2>2. SentOnceOver' /\ \A d \in ReportDays : Sent(d)' = Sent(d)
    BY DEF WaitInv, SentOnceOver, Sent, DayOf
  <2> QED BY <2>1, <2>2, WaitStays
<1>2. CASE q.by # None
  <2> DEFINE p == q.by
             w == IF ok THEN [pass[p] EXCEPT !.pc = "mark"] ELSE Idle
  <2>1. p \in Replicas /\ pass[p].pc = "post"
    BY <1>2 DEF TypeOK
  <2>2. pass[p] \in PassType /\ WaitFacts(p, pass[p])
    BY <2>1, PassTyped DEF WaitInv
  <2>3. Becomes(p, w)
    BY <1>2 DEF Answer, Becomes
  <2>4. CASE ok
    <3> DEFINE x == [pass[p] EXCEPT !.pc = "mark"]
    <3>1. /\ x \in PassType /\ x.at = pass[p].at /\ x.since = pass[p].since /\ x.day = pass[p].day
          /\ x.pc = "mark"
      BY <2>2 DEF PassType
    <3>2. Becomes(p, x)
      BY <2>3, <2>4
    <3> HIDE DEF x, p
    <3>3. WaitFacts(p, x)
      BY <2>1, <2>2, <3>1 DEF WaitFacts
    <3> QED BY <2>1, <3>1, <3>2, <3>3, WaitBecomes
  <2>5. CASE ~ok
    BY <2>1, <2>3, <2>5, WaitBecomes, IdleTyped
  <2> QED BY <2>4, <2>5
<1> QED BY <1>1, <1>2

LEMMA WaitUndisturbed ==
    ASSUME TypeOK, WaitInv, TypeOK', UNCHANGED <<pass, reports>>, now <= now'
    PROVE WaitInv'
<1>1. SentOnceOver' /\ \A d \in ReportDays : Sent(d)' = Sent(d)
  BY DEF WaitInv, SentOnceOver, Sent, DayOf
<1> QED BY <1>1, WaitStays

LEMMA NextWaits == ReportInv /\ WaitInv /\ TypeOK' /\ [Next]_vars => WaitInv'
<1> SUFFICES ASSUME ReportInv, WaitInv, TypeOK', [Next]_vars PROVE WaitInv'
  OBVIOUS
<1>1. TypeOK /\ now \in Nat /\ now <= now
  BY DEF ReportInv, TypeOK, CountedTypeOK
<1>2. CASE RunsGoOn
  BY <1>1, <1>2, WaitUndisturbed DEF RunsGoOn, instance, Tick, Record
<1>3. ASSUME NEW p \in Replicas, ReplicaStep(p) PROVE WaitInv'
  <2>1. CASE SaveReport(p)
    BY <1>1, <2>1, WaitSaves
  <2>2. CASE PassEnds(p)
    BY <1>1, <2>2, WaitBecomes, IdleTyped DEF PassEnds, instance
  <2>3. CASE Configure(p)
    BY <1>1, <2>3, WaitUndisturbed DEF Configure, instance
  <2> QED BY <1>1, <1>3, <2>1, <2>2, <2>3, WaitPrepares, WaitClaims, WaitMarks DEF ReplicaStep
<1>4. CASE IntakeStep
  <2>1. ASSUME NEW q \in inbox, Receive(q) PROVE WaitInv'
    <3>1. UNCHANGED <<now, reports>>
      BY <2>1 DEF Receive, instance
    <3> QED BY <1>1, <2>1, <3>1, WaitAnswers, WaitUndisturbed DEF Receive
  <2>2. ASSUME NEW q \in inbox, ReceiveUnknown(q) PROVE WaitInv'
    <3>1. UNCHANGED <<now, reports>> /\ Kept(q.doc) \in BOOLEAN
      BY <2>2 DEF ReceiveUnknown, instance, Kept, Room
    <3> QED BY <1>1, <2>2, <3>1, WaitAnswers DEF ReceiveUnknown
  <2>3. ASSUME NEW a, ControlPlane(a) PROVE WaitInv'
    BY <1>1, <2>3, WaitUndisturbed DEF ControlPlane, instance
  <2> QED BY <1>4, <2>1, <2>2, <2>3 DEF IntakeStep
<1>5. CASE UNCHANGED vars
  BY <1>1, <1>5, WaitUndisturbed DEF vars
<1> QED BY <1>2, <1>3, <1>4, <1>5 DEF Next

\* Only the claim of a pass lets it post.
LEMMA OnlyClaimsPost ==
    ASSUME TypeOK, [Next]_vars, NEW p \in Replicas, pass[p].pc = "claim", pass'[p].pc = "post"
    PROVE Claim(p)
<1> SUFFICES ASSUME ~Claim(p), pass'[p] # pass[p] PROVE FALSE
  OBVIOUS
<1>1. ASSUME NEW q \in Replicas, NEW w, Becomes(q, w)
      PROVE q = p /\ pass'[p] = w
  BY <1>1 DEF Becomes, TypeOK
<1>2. ASSUME NEW q \in Replicas, ReplicaStep(q) PROVE FALSE
  <2>1. ASSUME NEW pc, Goes(q, pc) PROVE q = p
    BY <2>1 DEF Goes, TypeOK
  <2>2. q = p
    BY <1>1, <1>2, <2>1
       DEF ReplicaStep, BeginPass, CountRuns, SaveReport, PrepareFails, StartOrStop, ReadSince,
           ReadLastSent, Claim, MarkSent, PassEnds, Configure
  <2>3. PassEnds(p) \/ Configure(p)
    BY <1>2, <2>2
       DEF ReplicaStep, BeginPass, CountRuns, SaveReport, PrepareFails, StartOrStop, ReadSince,
           ReadLastSent, MarkSent
  <2> QED BY <1>1, <2>3, IdleTyped DEF PassEnds, Configure
<1>3. ASSUME NEW q \in inbox, NEW ok, Answer(q, ok) PROVE FALSE
  BY <1>3, IdleTyped DEF Answer, TypeOK
<1>4. CASE IntakeStep
  BY <1>3, <1>4 DEF IntakeStep, Receive, ReceiveUnknown, ControlPlane
<1> QED BY <1>2, <1>4 DEF Next, RunsGoOn, vars

(* Until a report was sent since the instance sends, one leaves only after *)
(* its wait: for any replicas, whatever their clocks and settings, and     *)
(* however many pass at once (SendDue, WaitsBeforeFirst).                  *)
THEOREM FirstReportWaits == Spec => FirstWaits
<1> DEFINE Step == \A p \in Replicas, d \in ReportDays :
        pass[p].pc = "claim" /\ pass[p].since = since /\ pass'[p].pc = "post" /\ pass'[p].day = d =>
            \/ \E t \in SentTimes : t >= since
            \/ reports[d].preparedAt + WaitBeforeFirst <= Clock(p)
<1>1. Init => ReportInv /\ WaitInv
  BY InitHolds, WaitAtFirst
<1>2. ReportInv /\ WaitInv /\ [Next]_vars => ReportInv' /\ WaitInv'
  <2>1. ReportInv' => TypeOK'
    BY DEF ReportInv
  <2> QED BY <2>1, NextKeeps, NextWaits
<1>3. ReportInv /\ WaitInv /\ [Next]_vars => [Step]_vars
  <2> SUFFICES ASSUME ReportInv, WaitInv, [Next]_vars, NEW p \in Replicas, NEW d \in ReportDays,
                      pass[p].pc = "claim", pass[p].since = since, pass'[p].pc = "post",
                      pass'[p].day = d, ~SentSince(since)
               PROVE reports[d].preparedAt + WaitBeforeFirst <= Clock(p)
    BY DEF SentSince
  <2>1. TypeOK /\ pass[p] \in PassType
    BY PassTyped DEF ReportInv
  <2>2. Claim(p)
    BY <2>1, OnlyClaimsPost
  <2>3. pass[p].waits
    BY DEF WaitInv, WaitFacts
  <2>4. PICK e \in ReportDays : Due(p, e, Clock(p))
                  /\ Becomes(p, [pass[p] EXCEPT !.pc = "post", !.day = e])
    BY <2>1, <2>2, IdleTyped DEF Claim, Becomes, TypeOK
  <2>5. e = d
    BY <2>1, <2>4 DEF Becomes, TypeOK, PassType
  <2> QED BY <2>3, <2>4, <2>5 DEF Due
<1> QED BY <1>1, <1>2, <1>3, PTL DEF Spec, FirstWaits
=============================================================================
