--------------------------- MODULE RunUsageProofs ---------------------------
(***************************************************************************)
(* That a run is counted once, that it is not closed while it works, and   *)
(* that the end the API answered for is the one kept, for any number of    *)
(* runs, settlers, attempts and days.                                      *)
(***************************************************************************)
EXTENDS RunUsage, TLAPS

\* The types of one row, workflow and pass, named for the proofs.
RowType == [status : {"none", "running"} \cup Ended, day : Nat \cup {None}]
FlowType == [pc : Phases, tries : 0..MaxTries, started : Nat, outcome : Told, closes : Told]
PassType == [left : SUBSET Runs, run : Runs \cup {None}, status : Ended]

\* What the parts of the state say of each other between two steps.
OpenUndated == \A r \in Runs : row[r].status \notin Ended => row[r].day = None
OverWhenSaid == \A r \in Runs : fate[r] # "running" => wf[r].pc = "over"
OverWhenAsked ==
    \A s \in Settlers, r \in Runs : settler[s].run = r => wf[r].pc = "over"
EndIsCalled == \A c \in calls : c.what = "end" => wf[c.run].pc \in {"end", "over"}
GoneIsGone == \A c \in calls : c.job = "gone" => c.run \in gone
OwnEndFirst ==
    \A r \in Runs : wf[r].pc = "end" /\ row[r].status \in Ended
                       => row[r].status = wf[r].outcome
ToldIsOver == \A r \in told : wf[r].pc = "over"
UsageInv ==
    /\ TypeOK /\ NotClosedEarly /\ ToldIsKept
    /\ OpenUndated /\ OverWhenSaid /\ OverWhenAsked /\ EndIsCalled /\ GoneIsGone
    /\ OwnEndFirst /\ ToldIsOver

\* What a step may do to the row of a run, and to its workflow.
RowBecomes(r, x) ==
    \/ row[r].status = "none" /\ x = [status |-> "running", day |-> None]
    \/ /\ row[r].status \in {"none", "running"} /\ wf[r].pc \in {"end", "over"}
       /\ x.status = wf[r].outcome /\ x.day = DayOf(now)
    \/ /\ row[r].status = "running" /\ wf[r].pc = "over"
       /\ x.status \in Ended /\ x.day = DayOf(now)
RowStep ==
    \/ row' = row
    \/ \E r \in Runs, x \in RowType :
          row' = [row EXCEPT ![r] = x] /\ RowBecomes(r, x) /\ now' = now
FlowStep ==
    \A r \in Runs :
       /\ wf[r].pc \in {"end", "over"} =>
             wf'[r].pc \in {"end", "over"} /\ wf'[r].outcome = wf[r].outcome
       /\ wf[r].pc = "over" => wf'[r].pc = "over"
       /\ wf[r].pc # "end" /\ wf'[r].pc = "end" => wf[r].pc = "work"
       /\ wf[r].pc \notin {"end", "over"} /\ wf'[r].pc = "over" => row[r].status \notin Ended

LEMMA DayIsNat ==
    ASSUME NEW t \in Nat PROVE DayOf(t) \in Nat
BY UsageAssumption DEF DayOf

LEMMA ClosedIsRow ==
    ASSUME TypeOK, NEW status \in Ended
    PROVE Closed(status) \in RowType /\ Closed(status).status = status
          /\ Closed(status).day = DayOf(now) /\ DayOf(now) \in Nat
<1>1. DayOf(now) \in Nat
  BY DayIsNat DEF TypeOK
<1> QED BY <1>1 DEF Closed, RowType

LEMMA CallIsTyped ==
    ASSUME NEW r \in Runs, NEW what \in {"start", "end"}, NEW n \in 1..MaxTries,
           TypeOK, Call(r, what, n)
    PROVE calls' \subseteq Called
<1> DEFINE c == [run |-> r, what |-> what, try |-> n, job |-> "unread"]
<1>1. c \in Called
  BY DEF Called
<1> QED BY <1>1 DEF Call, TypeOK

\* A workflow that becomes w.
LEMMA FlowBecomes ==
    ASSUME NEW r \in Runs, NEW w \in FlowType, TypeOK, wf' = [wf EXCEPT ![r] = w]
    PROVE wf' \in [Runs -> FlowType] /\ wf'[r] = w
          /\ \A q \in Runs \ {r} : wf'[q] = wf[q]
BY DEF TypeOK, FlowType

LEMMA GoesOnBecomes ==
    ASSUME NEW r \in Runs, TypeOK, GoesOn(r)
    PROVE \E w \in FlowType :
             /\ wf' = [wf EXCEPT ![r] = w] /\ w.outcome = wf[r].outcome
             /\ w.pc = IF wf[r].pc = "start" THEN "work" ELSE "over"
             /\ fate' \in [Runs -> {"running", "forgotten"} \cup Ended]
             /\ \A q \in Runs \ {r} : fate'[q] = fate[q]
             /\ wf[r].pc = "start" => fate'[r] = fate[r]
<1> DEFINE p == IF wf[r].pc = "start" THEN "work" ELSE "over"
           w == [wf[r] EXCEPT !.pc = p, !.tries = 0]
<1>1. wf[r] \in FlowType
  BY DEF TypeOK, FlowType
<1>p. p \in Phases
  BY DEF Phases
<1>0. 0 \in 0..MaxTries
  BY UsageAssumption
<1>2. w \in FlowType /\ w.outcome = wf[r].outcome /\ w.pc = p
  <2> HIDE DEF p
  <2> QED BY <1>0, <1>1, <1>p DEF FlowType
<1>3. wf' = [wf EXCEPT ![r] = w]
  BY DEF GoesOn
<1>4. wf[r].closes \in Ended
  BY <1>1 DEF FlowType, Ended
<1>5. /\ fate' \in [Runs -> {"running", "forgotten"} \cup Ended]
      /\ \A q \in Runs \ {r} : fate'[q] = fate[q]
      /\ wf[r].pc = "start" => fate'[r] = fate[r]
  BY <1>4 DEF GoesOn, TypeOK
<1> HIDE DEF w
<1> QED BY <1>2, <1>3, <1>5


\* What each action does, in these words: types, the row, the workflow.
Typed == TypeOK' /\ RowStep /\ FlowStep /\ OverWhenSaid'

LEMMA GoesOnFlow ==
    ASSUME UsageInv, NEW r \in Runs, wf[r].pc \in {"start", "end"}, GoesOn(r)
    PROVE /\ wf' \in [Runs -> FlowType] /\ FlowStep
          /\ fate' \in [Runs -> {"running", "forgotten"} \cup Ended]
          /\ OverWhenSaid'
          /\ wf[r].pc = "end" => wf'[r].pc = "over"
<1>1. TypeOK /\ OverWhenSaid
  BY DEF UsageInv
<1>2. PICK w \in FlowType :
             /\ wf' = [wf EXCEPT ![r] = w] /\ w.outcome = wf[r].outcome
             /\ w.pc = IF wf[r].pc = "start" THEN "work" ELSE "over"
             /\ fate' \in [Runs -> {"running", "forgotten"} \cup Ended]
             /\ \A q \in Runs \ {r} : fate'[q] = fate[q]
             /\ wf[r].pc = "start" => fate'[r] = fate[r]
  BY <1>1, GoesOnBecomes
<1>3. wf' \in [Runs -> FlowType] /\ wf'[r] = w /\ \A q \in Runs \ {r} : wf'[q] = wf[q]
  BY <1>1, <1>2, FlowBecomes
<1>4. FlowStep
  BY <1>2, <1>3 DEF FlowStep
<1>5. OverWhenSaid'
  BY <1>1, <1>2, <1>3 DEF OverWhenSaid
<1> QED BY <1>2, <1>3, <1>4, <1>5

LEMMA StartRunTyped == ASSUME UsageInv, NEW r \in Runs, StartRun(r) PROVE Typed
<1> DEFINE w == [wf[r] EXCEPT !.pc = "start", !.tries = 1, !.started = now]
<1>1. TypeOK
  BY DEF UsageInv
<1>2. wf[r] \in FlowType /\ now \in Nat
  BY <1>1 DEF TypeOK, FlowType
<1>3. 1 \in 1..MaxTries /\ 1 \in 0..MaxTries
  BY UsageAssumption
<1>4. w \in FlowType /\ w.pc = "start"
  BY <1>2, <1>3 DEF FlowType, Phases
<1>5. wf' = [wf EXCEPT ![r] = w]
  BY DEF StartRun
<1> HIDE DEF w
<1>6. wf' \in [Runs -> FlowType] /\ wf'[r] = w /\ \A q \in Runs \ {r} : wf'[q] = wf[q]
  BY <1>1, <1>4, <1>5, FlowBecomes
<1>7. calls' \subseteq Called
  BY <1>1, <1>3, CallIsTyped DEF StartRun
<1>8. TypeOK'
  BY <1>1, <1>6, <1>7 DEF StartRun, TypeOK, FlowType
<1>9. RowStep
  BY DEF StartRun, RowStep
<1>10. FlowStep
  BY <1>4, <1>6 DEF StartRun, FlowStep
<1>11. OverWhenSaid'
  BY <1>6 DEF StartRun, UsageInv, OverWhenSaid
<1> QED BY <1>8, <1>9, <1>10, <1>11 DEF Typed

LEMMA TimesOutTyped == ASSUME UsageInv, NEW r \in Runs, TimesOut(r) PROVE Typed
<1>1. TypeOK
  BY DEF UsageInv
<1>2. wf[r] \in FlowType /\ wf[r].pc \in {"start", "end"}
  BY <1>1 DEF TypeOK, FlowType, TimesOut
<1>3. faults' \in 0..MaxFaults
  BY <1>1, UsageAssumption DEF TimesOut, Fault, TypeOK
<1>4. RowStep
  BY DEF TimesOut, RowStep
<1>5. CASE wf[r].tries < MaxTries /\ wf' = [wf EXCEPT ![r].tries = @ + 1]
           /\ Call(r, wf[r].pc, wf[r].tries + 1) /\ UNCHANGED fate
  <2> DEFINE w == [wf[r] EXCEPT !.tries = wf[r].tries + 1]
  <2>1. wf[r].tries + 1 \in 1..MaxTries /\ wf[r].tries + 1 \in 0..MaxTries
    BY <1>2, <1>5, UsageAssumption DEF FlowType
  <2>2. w \in FlowType /\ w.pc = wf[r].pc /\ w.outcome = wf[r].outcome
    BY <1>2, <2>1 DEF FlowType
  <2>3. wf' = [wf EXCEPT ![r] = w]
    BY <1>5
  <2> HIDE DEF w
  <2>4. wf' \in [Runs -> FlowType] /\ wf'[r] = w /\ \A q \in Runs \ {r} : wf'[q] = wf[q]
    BY <1>1, <2>2, <2>3, FlowBecomes
  <2>5. calls' \subseteq Called
    BY <1>1, <1>2, <1>5, <2>1, CallIsTyped
  <2>6. TypeOK'
    BY <1>1, <1>3, <1>5, <2>4, <2>5 DEF TimesOut, TypeOK, FlowType
  <2>7. FlowStep
    BY <2>2, <2>4 DEF FlowStep
  <2>8. OverWhenSaid'
    BY <1>2, <1>5, <2>2, <2>4 DEF UsageInv, OverWhenSaid
  <2> QED BY <1>4, <2>6, <2>7, <2>8 DEF Typed
<1>6. CASE GoesOn(r) /\ UNCHANGED calls
  <2>1. /\ wf' \in [Runs -> FlowType] /\ FlowStep /\ OverWhenSaid'
        /\ fate' \in [Runs -> {"running", "forgotten"} \cup Ended]
    BY <1>2, <1>6, GoesOnFlow
  <2>2. TypeOK'
    BY <1>1, <1>3, <1>6, <2>1 DEF TimesOut, TypeOK, FlowType
  <2> QED BY <1>4, <2>1, <2>2 DEF Typed
<1> QED BY <1>5, <1>6 DEF TimesOut

LEMMA CancelTyped == ASSUME UsageInv, NEW r \in Runs, Cancel(r) PROVE Typed
<1> DEFINE p == IF wf[r].pc = "start" THEN "work" ELSE wf[r].pc
           w == [wf[r] EXCEPT !.pc = p]
<1>1. TypeOK
  BY DEF UsageInv
<1>2. wf[r] \in FlowType
  BY <1>1 DEF TypeOK, FlowType
<1>3. p \in Phases
  BY <1>2 DEF FlowType, Phases
<1>4. w \in FlowType /\ w.pc = p /\ w.outcome = wf[r].outcome
  <2> HIDE DEF p
  <2> QED BY <1>2, <1>3 DEF FlowType
<1>5. wf' = [wf EXCEPT ![r] = w]
  BY DEF Cancel
<1> HIDE DEF w
<1>6. wf' \in [Runs -> FlowType] /\ wf'[r] = w /\ \A q \in Runs \ {r} : wf'[q] = wf[q]
  BY <1>1, <1>4, <1>5, FlowBecomes
<1>7. TypeOK'
  BY <1>1, <1>6 DEF Cancel, TypeOK, FlowType
<1>8. RowStep
  BY DEF Cancel, RowStep
<1>9. FlowStep
  BY <1>4, <1>6 DEF Cancel, FlowStep
<1>10. OverWhenSaid'
  BY <1>4, <1>6 DEF Cancel, UsageInv, OverWhenSaid
<1> QED BY <1>7, <1>8, <1>9, <1>10 DEF Typed

LEMMA FnEndsTyped == ASSUME UsageInv, NEW r \in Runs, FnEnds(r) PROVE Typed
<1>1. TypeOK
  BY DEF UsageInv
<1>2. wf[r] \in FlowType /\ wf[r].pc = "work"
  BY <1>1 DEF TypeOK, FlowType, FnEnds
<1>3. PICK err \in {"none", "failed", "canceled"} :
        wf' = [wf EXCEPT ![r].pc = "end", ![r].tries = 1,
                         ![r].outcome = RunOutcome(r, err), ![r].closes = ClosesWith(err)]
  BY DEF FnEnds
<1>4. 1 \in 1..MaxTries /\ 1 \in 0..MaxTries
  BY UsageAssumption
<1>5. RunOutcome(r, err) \in Told /\ ClosesWith(err) \in Told
  BY DEF RunOutcome, ClosesWith, Told
<1> DEFINE w == [wf[r] EXCEPT !.pc = "end", !.tries = 1, !.outcome = RunOutcome(r, err),
                              !.closes = ClosesWith(err)]
<1>6. w \in FlowType /\ w.pc = "end"
  BY <1>2, <1>4, <1>5 DEF FlowType, Phases
<1>7. wf' = [wf EXCEPT ![r] = w]
  BY <1>3
<1> HIDE DEF w
<1>8. wf' \in [Runs -> FlowType] /\ wf'[r] = w /\ \A q \in Runs \ {r} : wf'[q] = wf[q]
  BY <1>1, <1>6, <1>7, FlowBecomes
<1>9. calls' \subseteq Called
  BY <1>1, <1>4, CallIsTyped DEF FnEnds
<1>10. TypeOK'
  BY <1>1, <1>8, <1>9 DEF FnEnds, TypeOK, FlowType
<1>11. RowStep
  BY DEF FnEnds, RowStep
<1>12. FlowStep
  BY <1>2, <1>6, <1>8 DEF FnEnds, FlowStep
<1>13. OverWhenSaid'
  BY <1>2, <1>6, <1>8 DEF FnEnds, UsageInv, OverWhenSaid
<1> QED BY <1>10, <1>11, <1>12, <1>13 DEF Typed

LEMMA TerminateTyped == ASSUME UsageInv, NEW r \in Runs, Terminate(r) PROVE Typed
<1> DEFINE w == [wf[r] EXCEPT !.pc = "over"]
<1>1. TypeOK
  BY DEF UsageInv
<1>2. wf[r] \in FlowType
  BY <1>1 DEF TypeOK, FlowType
<1>3. w \in FlowType /\ w.pc = "over" /\ w.outcome = wf[r].outcome
  BY <1>2 DEF FlowType, Phases
<1>4. wf' = [wf EXCEPT ![r] = w]
  BY DEF Terminate
<1> HIDE DEF w
<1>5. wf' \in [Runs -> FlowType] /\ wf'[r] = w /\ \A q \in Runs \ {r} : wf'[q] = wf[q]
  BY <1>1, <1>3, <1>4, FlowBecomes
<1>6. PICK status \in {"terminated", "timed_out"} : fate' = [fate EXCEPT ![r] = status]
  BY DEF Terminate
<1>7. fate' \in [Runs -> {"running", "forgotten"} \cup Ended]
      /\ \A q \in Runs \ {r} : fate'[q] = fate[q]
  BY <1>1, <1>6 DEF TypeOK, Ended
<1>8. faults' \in 0..MaxFaults
  BY <1>1, UsageAssumption DEF Terminate, Fault, TypeOK
<1>9. TypeOK'
  BY <1>1, <1>5, <1>7, <1>8 DEF Terminate, TypeOK, FlowType
<1>10. RowStep
  BY DEF Terminate, RowStep
<1>11. FlowStep
  BY <1>3, <1>5 DEF Terminate, FlowStep, UsageInv, NotClosedEarly
<1>12. OverWhenSaid'
  BY <1>3, <1>5, <1>7 DEF UsageInv, OverWhenSaid
<1> QED BY <1>9, <1>10, <1>11, <1>12 DEF Typed

LEMMA ForgetTyped == ASSUME UsageInv, NEW r \in Runs, Forget(r) PROVE Typed
<1>1. TypeOK' /\ RowStep /\ FlowStep
  BY DEF UsageInv, TypeOK, Forget, RowStep, FlowStep
<1>2. OverWhenSaid'
  BY DEF UsageInv, TypeOK, Forget, OverWhenSaid, Ended, Told
<1> QED BY <1>1, <1>2 DEF Typed

LEMMA DeleteJobTyped == ASSUME UsageInv, NEW r \in Runs, DeleteJob(r) PROVE Typed
<1>1. TypeOK' /\ RowStep
  BY DEF UsageInv, TypeOK, DeleteJob, RowStep
<1>2. FlowStep /\ OverWhenSaid'
  BY DEF UsageInv, DeleteJob, FlowStep, OverWhenSaid
<1> QED BY <1>1, <1>2 DEF Typed

LEMMA JobOfTyped == ASSUME UsageInv, NEW c \in calls, JobOf(c) PROVE Typed
<1> DEFINE j == IF c.run \in gone THEN "gone" ELSE "found"
           d == [c EXCEPT !.job = j]
<1>1. c \in Called
  BY DEF UsageInv, TypeOK
<1>2. d \in Called
  <2>1. j \in {"unread", "found", "gone"}
    OBVIOUS
  <2> HIDE DEF j
  <2> QED BY <1>1, <2>1 DEF Called
<1>3. calls' = (calls \ {c}) \cup {d}
  BY DEF JobOf
<1> HIDE DEF d
<1>4. TypeOK'
  BY <1>2, <1>3 DEF JobOf, UsageInv, TypeOK
<1>5. RowStep /\ FlowStep /\ OverWhenSaid'
  BY DEF JobOf, UsageInv, RowStep, FlowStep, OverWhenSaid
<1> QED BY <1>4, <1>5 DEF Typed

\* The statement a handler runs leaves a row, and writes one row at most.
LEMMA HandleRow ==
    ASSUME UsageInv, NEW c \in calls, now' = now,
           \/ c.what = "start" /\ RecordRunStarted(c)
           \/ c.what = "end" /\ RecordRunEnded(c)
    PROVE RowStep /\ row' \in [Runs -> RowType]
<1>1. TypeOK /\ c \in Called
  BY DEF UsageInv, TypeOK
<1>2. c.run \in Runs /\ row \in [Runs -> RowType] /\ wf[c.run] \in FlowType
  BY <1>1 DEF Called, TypeOK, RowType, FlowType
<1>3. CASE row' = row
  BY <1>2, <1>3 DEF RowStep
<1>4. ASSUME NEW x \in RowType, row' = [row EXCEPT ![c.run] = x], RowBecomes(c.run, x)
      PROVE RowStep /\ row' \in [Runs -> RowType]
  BY <1>2, <1>4 DEF RowStep
<1>5. CASE c.what = "start" /\ RecordRunStarted(c)
  <2> DEFINE x == [status |-> "running", day |-> None]
  <2>1. x \in RowType
    BY DEF RowType
  <2>2. CASE row[c.run].status = "none" /\ row' = [row EXCEPT ![c.run] = x]
    BY <1>4, <2>1, <2>2 DEF RowBecomes
  <2> QED BY <1>3, <1>5, <2>2 DEF RecordRunStarted
<1>6. CASE c.what = "end" /\ RecordRunEnded(c)
  <2> DEFINE x == Closed(wf[c.run].outcome)
  <2>1. wf[c.run].outcome \in Ended
    BY <1>2 DEF FlowType, Ended
  <2>2. x \in RowType /\ x.status = wf[c.run].outcome /\ x.day = DayOf(now)
    BY <1>1, <2>1, ClosedIsRow
  <2>3. wf[c.run].pc \in {"end", "over"}
    BY <1>6 DEF UsageInv, EndIsCalled
  <2>4. CASE row[c.run].status \in OpenFor(c) /\ row' = [row EXCEPT ![c.run] = x]
    <3> HIDE DEF x
    <3>1. row[c.run].status \in {"none", "running"}
      BY <2>4 DEF OpenFor
    <3>2. RowBecomes(c.run, x)
      BY <2>2, <2>3, <3>1 DEF RowBecomes
    <3> QED BY <1>4, <2>2, <2>4, <3>2
  <2> QED BY <1>3, <1>6, <2>4 DEF RecordRunEnded
<1> QED BY <1>5, <1>6

LEMMA HandleTyped == ASSUME UsageInv, NEW c \in calls, Handle(c) PROVE Typed
<1>1. TypeOK /\ c \in Called
  BY DEF UsageInv, TypeOK
<1>2. c.run \in Runs /\ c.what \in {"start", "end"}
  BY <1>1 DEF Called
<1>3. RowStep /\ row' \in [Runs -> RowType]
  BY HandleRow DEF Handle
<1>4. /\ wf' \in [Runs -> FlowType] /\ FlowStep /\ OverWhenSaid'
      /\ fate' \in [Runs -> {"running", "forgotten"} \cup Ended]
      /\ told' \subseteq Runs
  <2>1. CASE Awaited(c) /\ GoesOn(c.run) /\ (told' = IF c.what = "end" THEN told \cup {c.run} ELSE told)
    <3>1. wf[c.run].pc \in {"start", "end"}
      BY <1>2, <2>1 DEF Awaited
    <3>2. told' \subseteq Runs
      BY <1>1, <1>2, <2>1 DEF TypeOK
    <3> QED BY <1>2, <2>1, <3>1, <3>2, GoesOnFlow
  <2>2. CASE UNCHANGED <<wf, told, fate>>
    <3>1. wf \in [Runs -> FlowType]
      BY <1>1 DEF TypeOK, FlowType
    <3> QED BY <1>1, <2>2, <3>1 DEF TypeOK, FlowStep, UsageInv, OverWhenSaid
  <2> QED BY <2>1, <2>2 DEF Handle
<1>5. TypeOK'
  BY <1>1, <1>3, <1>4 DEF Handle, TypeOK, RowType, FlowType
<1> QED BY <1>3, <1>4, <1>5 DEF Typed

LEMMA RefusedTyped == ASSUME UsageInv, NEW c \in calls, Refused(c) PROVE Typed
<1>1. TypeOK /\ c \in Called
  BY DEF UsageInv, TypeOK
<1>2. c.run \in Runs /\ wf[c.run].pc \in {"start", "end"}
  BY <1>1 DEF Called, Refused, Awaited
<1>3. /\ wf' \in [Runs -> FlowType] /\ FlowStep /\ OverWhenSaid'
      /\ fate' \in [Runs -> {"running", "forgotten"} \cup Ended]
  BY <1>2, GoesOnFlow DEF Refused
<1>4. faults' \in 0..MaxFaults
  BY <1>1, UsageAssumption DEF Refused, Fault, TypeOK
<1>5. TypeOK'
  BY <1>1, <1>3, <1>4 DEF Refused, TypeOK, FlowType
<1>6. RowStep
  BY DEF Refused, RowStep
<1> QED BY <1>3, <1>5, <1>6 DEF Typed

LEMMA ListTyped == ASSUME UsageInv, NEW s \in Settlers, List(s) PROVE Typed
<1>1. TypeOK'
  BY DEF UsageInv, TypeOK, List
<1>2. RowStep /\ FlowStep /\ OverWhenSaid'
  BY DEF List, UsageInv, RowStep, FlowStep, OverWhenSaid
<1> QED BY <1>1, <1>2 DEF Typed

LEMMA FaultTyped == ASSUME TypeOK, Fault PROVE faults' \in 0..MaxFaults
BY UsageAssumption DEF TypeOK, Fault

LEMMA AskFateTyped ==
    ASSUME UsageInv, NEW s \in Settlers, NEW r \in Runs, AskFate(s, r) PROVE Typed
<1>1. TypeOK /\ settler \in [Settlers -> PassType] /\ settler[s] \in PassType
  BY DEF UsageInv, TypeOK, PassType
<1>2. faults' \in 0..MaxFaults
  BY <1>1, FaultTyped DEF AskFate, TypeOK
<1>3. settler' \in [Settlers -> PassType]
  <2> DEFINE left == settler[s].left \ {r}
  <2>1. left \subseteq Runs
    BY <1>1 DEF PassType
  <2>2. CASE settler' = [settler EXCEPT ![s] = [left |-> left, run |-> r, status |-> FateOf(r)]]
             /\ FateOf(r) # "running"
    <3>1. FateOf(r) \in Ended
      BY <1>1, <2>2 DEF TypeOK, FateOf, Ended
    <3>2. [left |-> left, run |-> r, status |-> FateOf(r)] \in PassType
      BY <2>1, <3>1 DEF PassType
    <3> QED BY <1>1, <2>2, <3>2
  <2>3. CASE settler' = [settler EXCEPT ![s].left = left]
    <3>1. [settler[s] EXCEPT !.left = left] \in PassType
      BY <1>1, <2>1 DEF PassType
    <3> QED BY <1>1, <2>3, <3>1
  <2> QED BY <2>2, <2>3 DEF AskFate
<1>4. TypeOK'
  BY <1>1, <1>2, <1>3 DEF AskFate, TypeOK, PassType
<1>5. RowStep /\ FlowStep /\ OverWhenSaid'
  BY DEF AskFate, UsageInv, RowStep, FlowStep, OverWhenSaid
<1> QED BY <1>4, <1>5 DEF Typed

LEMMA SettleTyped == ASSUME UsageInv, NEW s \in Settlers, Settle(s) PROVE Typed
<1>1. TypeOK /\ settler \in [Settlers -> PassType] /\ settler[s] \in PassType
      /\ row \in [Runs -> RowType]
  BY DEF UsageInv, TypeOK, PassType, RowType
<1>2. faults' \in 0..MaxFaults
  BY <1>1, FaultTyped DEF Settle, TypeOK
<1> DEFINE p == [settler[s] EXCEPT !.run = None, !.status = "terminated"]
<1>3. p \in PassType /\ settler' = [settler EXCEPT ![s] = p]
  BY <1>1 DEF Settle, PassType, Ended
<1>4. settler' \in [Settlers -> PassType]
  <2> HIDE DEF p
  <2> QED BY <1>1, <1>3
<1>5. RowStep /\ row' \in [Runs -> RowType]
  <2>1. CASE row' = row
    BY <1>1, <2>1 DEF RowStep
  <2>2. CASE row' = Settled(settler[s].run, settler[s].status)
    <3> DEFINE r == settler[s].run
               x == Closed(settler[s].status)
    <3>1. r \in Runs /\ settler[s].status \in Ended
      BY <1>1 DEF Settle, PassType
    <3>2. wf[r].pc = "over"
      BY <3>1 DEF UsageInv, OverWhenAsked
    <3>3. x \in RowType /\ x.status = settler[s].status /\ x.day = DayOf(now)
      BY <1>1, <3>1, ClosedIsRow
    <3>4. CASE row[r].status = "running" /\ row' = [row EXCEPT ![r] = x]
      <4> HIDE DEF x, r
      <4>1. RowBecomes(r, x)
        BY <3>1, <3>2, <3>3, <3>4 DEF RowBecomes
      <4>2. now' = now
        BY DEF Settle
      <4> QED BY <1>1, <3>1, <3>3, <3>4, <4>1, <4>2 DEF RowStep
    <3> QED BY <2>1, <2>2, <3>4 DEF Settled
  <2> QED BY <2>1, <2>2 DEF Settle
<1>6. TypeOK'
  BY <1>1, <1>2, <1>4, <1>5 DEF Settle, TypeOK, PassType, RowType
<1>7. FlowStep /\ OverWhenSaid'
  BY DEF Settle, UsageInv, FlowStep, OverWhenSaid
<1> QED BY <1>5, <1>6, <1>7 DEF Typed

LEMMA StopPassTyped == ASSUME UsageInv, NEW s \in Settlers, StopPass(s) PROVE Typed
<1>1. TypeOK
  BY DEF UsageInv
<1>2. faults' \in 0..MaxFaults
  BY <1>1, FaultTyped DEF StopPass
<1>3. AtRest \in PassType
  BY DEF AtRest, PassType, Ended
<1>4. TypeOK'
  BY <1>1, <1>2, <1>3 DEF StopPass, TypeOK, PassType
<1>5. RowStep /\ FlowStep /\ OverWhenSaid'
  BY DEF StopPass, UsageInv, RowStep, FlowStep, OverWhenSaid
<1> QED BY <1>4, <1>5 DEF Typed

LEMMA TickTyped == ASSUME UsageInv, Tick PROVE Typed
<1>1. TypeOK'
  BY DEF UsageInv, TypeOK, Tick
<1>2. RowStep /\ FlowStep /\ OverWhenSaid'
  BY DEF Tick, UsageInv, RowStep, FlowStep, OverWhenSaid
<1> QED BY <1>1, <1>2 DEF Typed

LEMMA StepTyped == ASSUME UsageInv, Next PROVE Typed
<1>1. ASSUME NEW r \in Runs, WorkflowStep(r) PROVE Typed
  BY <1>1, StartRunTyped, TimesOutTyped, CancelTyped, FnEndsTyped, TerminateTyped,
     ForgetTyped, DeleteJobTyped DEF WorkflowStep
<1>2. ASSUME NEW c \in calls, ApiStep(c) PROVE Typed
  BY <1>2, JobOfTyped, HandleTyped, RefusedTyped DEF ApiStep
<1>3. ASSUME NEW s \in Settlers, SettlerStep(s) PROVE Typed
  BY <1>3, ListTyped, AskFateTyped, SettleTyped, StopPassTyped DEF SettlerStep
<1> QED BY <1>1, <1>2, <1>3, TickTyped DEF Next

\* A closed row is never written again.
LEMMA EndedStays ==
    ASSUME TypeOK, RowStep, NEW r \in Runs, row[r].status \in Ended
    PROVE row'[r] = row[r]
<1>1. ASSUME NEW q \in Runs, NEW x \in RowType, RowBecomes(q, x),
             row' = [row EXCEPT ![q] = x]
      PROVE row'[r] = row[r]
  <2>1. row[q].status \in {"none", "running"}
    BY <1>1 DEF RowBecomes
  <2>2. q # r
    BY <2>1 DEF Ended, Told
  <2> QED BY <1>1, <2>2
<1> QED BY <1>1 DEF RowStep

\* What the rows say of their runs, whatever the step.
LEMMA RowsKept ==
    ASSUME UsageInv, Typed
    PROVE NotClosedEarly' /\ OpenUndated' /\ OwnEndFirst'
<1>1. TypeOK /\ TypeOK' /\ RowStep /\ FlowStep /\ row \in [Runs -> RowType]
  BY DEF UsageInv, Typed, TypeOK, RowType
<1>2. DayOf(now) \in Nat /\ None \notin Nat
  BY <1>1, DayIsNat, UsageAssumption DEF TypeOK
<1> SUFFICES ASSUME NEW r \in Runs
    PROVE /\ row'[r].status \in Ended => wf'[r].pc \in {"end", "over"} /\ row'[r].day # None
          /\ row'[r].status \notin Ended => row'[r].day = None
          /\ wf'[r].pc = "end" /\ row'[r].status \in Ended
                => row'[r].status = wf'[r].outcome
  BY DEF NotClosedEarly, OpenUndated, OwnEndFirst
<1>3. /\ row[r].status \in Ended => wf[r].pc \in {"end", "over"} /\ row[r].day # None
      /\ row[r].status \notin Ended => row[r].day = None
      /\ wf[r].pc = "end" /\ row[r].status \in Ended => row[r].status = wf[r].outcome
  BY DEF UsageInv, NotClosedEarly, OpenUndated, OwnEndFirst
<1>4. /\ wf[r].pc \in {"end", "over"} =>
             wf'[r].pc \in {"end", "over"} /\ wf'[r].outcome = wf[r].outcome
      /\ wf[r].pc = "over" => wf'[r].pc = "over"
      /\ wf[r].pc # "end" /\ wf'[r].pc = "end" => wf[r].pc = "work"
  BY <1>1 DEF FlowStep
<1>5. CASE row'[r] = row[r]
  BY <1>3, <1>4, <1>5
<1>6. ASSUME NEW x \in RowType, row'[r] = x, RowBecomes(r, x)
      PROVE /\ row'[r].status \in Ended => wf'[r].pc \in {"end", "over"} /\ row'[r].day # None
            /\ row'[r].status \notin Ended => row'[r].day = None
            /\ wf'[r].pc = "end" /\ row'[r].status \in Ended
                  => row'[r].status = wf'[r].outcome
  <2>1. CASE row[r].status = "none" /\ x = [status |-> "running", day |-> None]
    BY <1>6, <2>1 DEF Ended, Told
  <2>2. CASE /\ row[r].status \in {"none", "running"} /\ wf[r].pc \in {"end", "over"}
             /\ x.status = wf[r].outcome /\ x.day = DayOf(now)
    <3>1. wf[r].outcome \in Ended
      BY <1>1 DEF TypeOK, Ended
    <3> QED BY <1>2, <1>4, <1>6, <2>2, <3>1
  <2>3. CASE /\ row[r].status = "running" /\ wf[r].pc = "over"
             /\ x.status \in Ended /\ x.day = DayOf(now)
    BY <1>2, <1>4, <1>6, <2>3
  <2> QED BY <1>6, <2>1, <2>2, <2>3 DEF RowBecomes
<1>7. ASSUME NEW q \in Runs, NEW x \in RowType, row' = [row EXCEPT ![q] = x],
             RowBecomes(q, x)
      PROVE row'[r] = row[r] \/ (row'[r] = x /\ RowBecomes(r, x))
  BY <1>1, <1>7
<1> QED BY <1>1, <1>5, <1>6, <1>7 DEF RowStep

LEMMA AskedKept == ASSUME UsageInv, Next, Typed PROVE OverWhenAsked'
<1> SUFFICES ASSUME NEW s \in Settlers, NEW r \in Runs, settler'[s].run = r
    PROVE wf'[r].pc = "over"
  BY DEF OverWhenAsked
<1>1. TypeOK /\ settler \in [Settlers -> PassType]
  BY DEF UsageInv, TypeOK, PassType
<1>2. CASE settler[s].run = r
  BY <1>2 DEF UsageInv, OverWhenAsked, Typed, FlowStep
<1>3. ASSUME NEW q \in Settlers, NEW p \in Runs, AskFate(q, p), settler[s].run # r
      PROVE wf[r].pc = "over"
  <2>1. q = s /\ p = r /\ FateOf(r) # "running"
    BY <1>1, <1>3 DEF AskFate, PassType
  <2> QED BY <2>1 DEF FateOf, UsageInv, OverWhenSaid
<1>4. ASSUME NEW q \in Settlers, SettlerStep(q), settler[s].run # r
      PROVE wf[r].pc = "over"
  <2>1. CASE List(q)
    BY <1>1, <1>4, <2>1 DEF List, PassType
  <2>2. CASE Settle(q)
    BY <1>1, <1>4, <2>2, UsageAssumption DEF Settle, PassType
  <2>3. CASE StopPass(q)
    BY <1>1, <1>4, <2>3, UsageAssumption DEF StopPass, PassType, AtRest
  <2> QED BY <1>3, <1>4, <2>1, <2>2, <2>3 DEF SettlerStep
<1>5. CASE settler[s].run # r
  <2>1. settler' # settler
    BY <1>5
  <2>2. PICK q \in Settlers : SettlerStep(q)
    BY <2>1 DEF Next, Tick, WorkflowStep, StartRun, TimesOut, Cancel, FnEnds, Terminate,
         Forget, DeleteJob, ApiStep, JobOf, Handle, Refused
  <2> QED BY <1>4, <1>5, <2>2 DEF Typed, FlowStep
<1> QED BY <1>2, <1>5

LEMMA CallsKept == ASSUME UsageInv, Next, Typed PROVE EndIsCalled' /\ GoneIsGone'
<1>1. TypeOK /\ FlowStep /\ EndIsCalled /\ GoneIsGone /\ gone \subseteq gone'
  BY DEF UsageInv, Typed, Next, Tick, WorkflowStep, StartRun, TimesOut, Cancel, FnEnds,
     Terminate, Forget, DeleteJob, ApiStep, JobOf, Handle, Refused, SettlerStep, List,
     AskFate, Settle, StopPass
<1> SUFFICES ASSUME NEW c \in calls'
    PROVE /\ c.what = "end" => wf'[c.run].pc \in {"end", "over"}
          /\ c.job = "gone" => c.run \in gone'
  BY DEF EndIsCalled, GoneIsGone
<1>2. CASE c \in calls
  BY <1>1, <1>2 DEF FlowStep, TypeOK, Called, EndIsCalled, GoneIsGone
<1>3. ASSUME NEW r \in Runs, StartRun(r), c \notin calls
      PROVE c.what # "end" /\ c.job # "gone"
  BY <1>3 DEF StartRun, Call
<1>4. ASSUME NEW r \in Runs, FnEnds(r), c \notin calls
      PROVE c.job # "gone" /\ wf'[c.run].pc = "end"
  <2>1. c.run = r /\ c.job # "gone"
    BY <1>4 DEF FnEnds, Call
  <2>2. wf'[r].pc = "end"
    BY <1>1, <1>4 DEF FnEnds, TypeOK
  <2> QED BY <2>1, <2>2
<1>5. ASSUME NEW r \in Runs, TimesOut(r), c \notin calls
      PROVE c.job # "gone" /\ (c.what = "end" => wf'[c.run].pc \in {"end", "over"})
  <2>1. c.run = r /\ c.job # "gone" /\ c.what = wf[r].pc
    BY <1>5 DEF TimesOut, Call
  <2> QED BY <1>1, <2>1 DEF FlowStep
<1>6. ASSUME NEW d \in calls, JobOf(d), c \notin calls
      PROVE /\ c.what = "end" => wf'[c.run].pc \in {"end", "over"}
            /\ c.job = "gone" => c.run \in gone'
  <2> DEFINE j == IF d.run \in gone THEN "gone" ELSE "found"
  <2>1. c = [d EXCEPT !.job = j] /\ d \in Called
    BY <1>1, <1>6 DEF JobOf, TypeOK
  <2>2. c.run = d.run /\ c.what = d.what /\ c.job = j
    <3> HIDE DEF j
    <3> QED BY <2>1 DEF Called
  <2>3. wf' = wf
    BY <1>6 DEF JobOf
  <2> QED BY <1>1, <2>2, <2>3 DEF EndIsCalled
<1>7. CASE c \notin calls
  <2>1. \/ \E r \in Runs : StartRun(r) \/ FnEnds(r) \/ TimesOut(r)
        \/ \E d \in calls : JobOf(d)
    BY <1>7 DEF Next, Tick, WorkflowStep, Cancel, Terminate, Forget, DeleteJob, ApiStep,
         Handle, Refused, SettlerStep, List, AskFate, Settle, StopPass
  <2>2. CASE \E r \in Runs : StartRun(r)
    BY <1>3, <1>7, <2>2
  <2>3. CASE \E r \in Runs : FnEnds(r)
    BY <1>4, <1>7, <2>3
  <2>4. CASE \E r \in Runs : TimesOut(r)
    BY <1>5, <1>7, <2>4
  <2>5. CASE \E d \in calls : JobOf(d)
    BY <1>6, <1>7, <2>5
  <2> QED BY <2>1, <2>2, <2>3, <2>4, <2>5
<1> QED BY <1>2, <1>7

LEMMA ToldKept == ASSUME UsageInv, Next, Typed PROVE ToldIsOver' /\ ToldIsKept'
<1>1. TypeOK /\ RowStep /\ FlowStep /\ ToldIsOver /\ ToldIsKept /\ gone \subseteq gone'
  BY DEF UsageInv, Typed, Next, Tick, WorkflowStep, StartRun, TimesOut, Cancel, FnEnds,
     Terminate, Forget, DeleteJob, ApiStep, JobOf, Handle, Refused, SettlerStep, List,
     AskFate, Settle, StopPass
<1> SUFFICES ASSUME NEW r \in Runs, r \in told'
    PROVE wf'[r].pc = "over" /\ (r \notin gone' => row'[r].status = wf'[r].outcome)
  <2>1. told' \subseteq Runs
    BY DEF Typed, TypeOK
  <2> QED BY <2>1 DEF ToldIsOver, ToldIsKept
<1>2. wf[r].outcome \in Ended
  BY <1>1 DEF TypeOK, Ended
<1>3. CASE r \in told
  <2>1. wf[r].pc = "over" /\ wf'[r].pc = "over" /\ wf'[r].outcome = wf[r].outcome
    BY <1>1, <1>3 DEF ToldIsOver, FlowStep
  <2>2. r \notin gone' => row[r].status = wf[r].outcome
    BY <1>1, <1>3 DEF ToldIsKept
  <2> QED BY <1>1, <1>2, <2>1, <2>2, EndedStays
<1>4. CASE r \notin told
  <2>1. PICK c \in calls : Handle(c)
    BY <1>4 DEF Next, Tick, WorkflowStep, StartRun, TimesOut, Cancel, FnEnds, Terminate,
         Forget, DeleteJob, ApiStep, JobOf, Refused, SettlerStep, List, AskFate, Settle,
         StopPass
  <2>2. c.run = r /\ c.what = "end" /\ Awaited(c) /\ GoesOn(r)
    BY <1>4, <2>1 DEF Handle
  <2>3. wf[r].pc = "end"
    BY <2>2 DEF Awaited
  <2>4. wf'[r].pc = "over" /\ wf'[r].outcome = wf[r].outcome
    BY <1>1, <2>2, <2>3, GoesOnFlow DEF FlowStep
  <2>5. ASSUME r \notin gone' PROVE row'[r].status = wf[r].outcome
    <3>1. c.job = "found"
      BY <1>1, <2>1, <2>2, <2>5 DEF Handle, UsageInv, GoneIsGone, TypeOK, Called
    <3>2. RecordRunEnded(c)
      BY <2>1, <2>2 DEF Handle
    <3>3. CASE row[r].status \in {"none", "running"}
      <4>1. row' = [row EXCEPT ![r] = Closed(wf[r].outcome)]
        BY <2>2, <3>1, <3>2, <3>3 DEF RecordRunEnded, OpenFor
      <4>2. Closed(wf[r].outcome).status = wf[r].outcome
        BY <1>1, <1>2, ClosedIsRow
      <4> QED BY <1>1, <4>1, <4>2 DEF TypeOK, RowType
    <3>4. CASE row[r].status \in Ended
      BY <1>1, <2>3, <3>4, EndedStays DEF UsageInv, OwnEndFirst
    <3> QED BY <1>1, <3>3, <3>4 DEF TypeOK
  <2> QED BY <2>4, <2>5
<1> QED BY <1>3, <1>4

-----------------------------------------------------------------------------
LEMMA InitHolds == ASSUME Init PROVE UsageInv
<1>1. TypeOK
  BY UsageAssumption DEF Init, TypeOK, AtRest, Phases, Ended, Told
<1>2. NotClosedEarly /\ OpenUndated /\ OwnEndFirst /\ OverWhenSaid
  BY DEF Init, NotClosedEarly, OpenUndated, OwnEndFirst, OverWhenSaid, Ended, Told
<1>3. OverWhenAsked
  BY UsageAssumption DEF Init, OverWhenAsked, AtRest
<1>4. EndIsCalled /\ GoneIsGone /\ ToldIsOver /\ ToldIsKept
  BY DEF Init, EndIsCalled, GoneIsGone, ToldIsOver, ToldIsKept
<1> QED BY <1>1, <1>2, <1>3, <1>4 DEF UsageInv

LEMMA NextKeeps == ASSUME UsageInv, [Next]_vars PROVE UsageInv'
<1>1. CASE Next
  <2>1. Typed
    BY <1>1, StepTyped
  <2>2. NotClosedEarly' /\ OpenUndated' /\ OwnEndFirst'
    BY <2>1, RowsKept
  <2>3. OverWhenAsked' /\ EndIsCalled' /\ GoneIsGone'
    BY <1>1, <2>1, AskedKept, CallsKept
  <2>4. ToldIsOver' /\ ToldIsKept'
    BY <1>1, <2>1, ToldKept
  <2> QED BY <2>1, <2>2, <2>3, <2>4 DEF UsageInv, Typed
<1>2. CASE UNCHANGED vars
  BY <1>2 DEF vars, UsageInv, TypeOK, NotClosedEarly, ToldIsKept, OpenUndated,
     OverWhenSaid, OverWhenAsked, EndIsCalled, GoneIsGone, OwnEndFirst, ToldIsOver
<1> QED BY <1>1, <1>2

(* The row of a run is closed no sooner than the run has done its work,    *)
(* and the end the API answered for is the one it keeps: for any number of *)
(* runs, settlers, attempts, lost and late calls.                          *)
THEOREM UsageRowsHold == Spec => [](TypeOK /\ NotClosedEarly /\ ToldIsKept)
<1>1. Init => UsageInv
  BY InitHolds
<1>2. UsageInv /\ [Next]_vars => UsageInv'
  BY NextKeeps
<1>3. UsageInv => TypeOK /\ NotClosedEarly /\ ToldIsKept
  BY DEF UsageInv
<1> QED BY <1>1, <1>2, <1>3, PTL DEF Spec

\* The day each run counts for.
DayRecorded == [r \in Runs |-> row[r].day]

\* A step is one of the days runs count for, or leaves them as they are.
LEMMA StepCounts ==
    ASSUME UsageInv, [Next]_vars
    PROVE [Days!DaysNext]_<<now, DayRecorded>>
<1>1. TypeOK /\ row \in [Runs -> RowType] /\ DayRecorded \in [Runs -> Nat \cup {None}]
  BY DEF UsageInv, TypeOK, RowType, DayRecorded
<1>2. CASE Tick
  <2>1. DayRecorded' = DayRecorded
    BY <1>2 DEF Tick, DayRecorded
  <2>2. Days!Tick
    BY <1>2, <2>1 DEF Tick, Days!Tick, DayRecorded
  <2> QED BY <2>2 DEF Days!DaysNext
<1>3. ASSUME NEW r \in Runs, NEW x \in RowType, row' = [row EXCEPT ![r] = x],
             RowBecomes(r, x), now' = now
      PROVE [Days!DaysNext]_<<now, DayRecorded>>
  <2>1. DayRecorded' = [DayRecorded EXCEPT ![r] = x.day]
    BY <1>1, <1>3 DEF DayRecorded
  <2>2. row[r].status \notin Ended
    BY <1>3 DEF RowBecomes, Ended, Told
  <2>3. DayRecorded[r] = None
    BY <2>2 DEF UsageInv, OpenUndated, DayRecorded
  <2>4. CASE x.day = DayOf(now)
    <3>1. DayRecorded' = [DayRecorded EXCEPT ![r] = DayOf(now)]
      BY <2>1, <2>4
    <3>2. Days!Record(r)
      BY <1>3, <2>3, <3>1 DEF Days!Record, Days!DayOf, DayOf, DayRecorded
    <3> QED BY <3>2 DEF Days!DaysNext
  <2>5. CASE x = [status |-> "running", day |-> None]
    <3>1. DayRecorded' = DayRecorded
      BY <1>1, <2>1, <2>3, <2>5
    <3> QED BY <1>3, <3>1
  <2> QED BY <1>3, <2>4, <2>5 DEF RowBecomes
<1>4. CASE row' = row /\ now' = now
  BY <1>4 DEF DayRecorded
<1>5. CASE Next
  <2>1. RowStep
    BY <1>5, StepTyped DEF Typed
  <2>2. Tick \/ now' = now
    BY <1>5 DEF Next, WorkflowStep, StartRun, TimesOut, Cancel, FnEnds, Terminate, Forget,
       DeleteJob, ApiStep, JobOf, Handle, Refused, SettlerStep, List, AskFate, Settle, StopPass
  <2> QED BY <1>2, <1>3, <1>4, <2>1, <2>2 DEF RowStep
<1>6. CASE UNCHANGED vars
  BY <1>4, <1>6 DEF vars
<1> QED BY <1>5, <1>6

(* The rows of run_usage implement the promise of RunsByDay: a run counts  *)
(* once, on the day the database recorded its end on, and for good.        *)
THEOREM RunsAreCountedOnce == Spec => CountedOnce
<1>1. Init => Days!DaysInit
  BY DEF Init, Days!DaysInit
<1>2. UsageInv /\ [Next]_vars => [Days!DaysNext]_<<now, DayRecorded>>
  BY StepCounts
<1>3. Init => UsageInv
  BY InitHolds
<1>4. UsageInv /\ [Next]_vars => UsageInv'
  BY NextKeeps
<1>5. DayRecorded = [r \in Runs |-> row[r].day]
  BY DEF DayRecorded
<1> QED BY <1>1, <1>2, <1>3, <1>4, PTL DEF Spec, CountedOnce, Days!DaysSpec, DayRecorded
=============================================================================
