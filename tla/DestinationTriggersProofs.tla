--------------------- MODULE DestinationTriggersProofs ---------------------
(* Proofs about DestinationTriggers, for all jobs, destinations, triggers  *)
(* and workers, and for any number of failures.                            *)
EXTENDS DestinationTriggers, TLAPS

(* What every step of an attempt may rely on and keep: it is still of the  *)
(* same activity of the same job, and no run moves.                        *)
LEMMA GoesFrame ==
  ASSUME IndInv, NEW w \in Workers, NEW b \in AttemptType, Goes(w, b),
         attempt[w].doing # "nothing",
         b.job = attempt[w].job, b.doing = attempt[w].doing, WellFormed(b),
         TellsOriginal(b.recorded), UNCHANGED <<original, run, abandoned>>
  PROVE  /\ attempt' \in [Workers -> AttemptType] /\ attempt'[w] = b
         /\ \A v \in Workers : v # w => attempt'[v] = attempt[v]
         /\ AttemptFacts' /\ WaitFacts'
         /\ \A v \in Workers : TellsOriginal(attempt[v].recorded)'
         /\ (~ abandoned => Awaited)'
<1>1. attempt \in [Workers -> AttemptType] /\ attempt' = [attempt EXCEPT ![w] = b]
  BY DEF IndInv, TypeOK, Goes
<1>2. /\ attempt' \in [Workers -> AttemptType] /\ attempt'[w] = b
      /\ \A v \in Workers : v # w => attempt'[v] = attempt[v]
  BY <1>1
<1>3. AttemptFacts'
  BY <1>2 DEF IndInv, AttemptFacts, WellFormed, Entries
<1>4. WaitFacts'
  BY <1>2 DEF IndInv, TypeOK, WaitFacts, RunType
<1>5. \A v \in Workers : TellsOriginal(attempt[v].recorded)'
  BY <1>2 DEF IndInv, RecordsTellOriginal, TellsOriginal, Entries
<1>6. (~ abandoned => Awaited)'
  BY <1>2 DEF IndInv, Awaited
<1> QED BY <1>2, <1>3, <1>4, <1>5, <1>6

(* Unless one was abandoned, a job has one attempt, the one its run waits  *)
(* for.                                                                    *)
LEMMA AwaitedAlone ==
  ASSUME IndInv, ~ abandoned, NEW w \in Workers, attempt[w].doing # "nothing"
  PROVE  /\ attempt[w].job \in Jobs /\ run[attempt[w].job].waits = w
         /\ run[attempt[w].job].phase \in Waiting
         /\ attempt[w].doing = Activity(run[attempt[w].job].phase)
         /\ \A v \in Workers : v # w /\ attempt[v].doing # "nothing" => attempt[v].job # attempt[w].job
<1>1. attempt[w].job \in Jobs
  BY DEF IndInv, AttemptFacts, WellFormed
<1>2. \A v \in Workers : attempt[v].doing # "nothing" => run[attempt[v].job].waits = v
  BY DEF IndInv, Awaited
<1>3. w # None
  BY WorkersAssumption
<1>4. /\ run[attempt[w].job].phase \in Waiting
      /\ attempt[w].doing = Activity(run[attempt[w].job].phase)
  BY <1>1, <1>2, <1>3 DEF IndInv, WaitFacts
<1> QED BY <1>1, <1>2, <1>4

LEMMA InitInv == Init => IndInv
<1> SUFFICES ASSUME Init PROVE IndInv
  OBVIOUS
<1>1. EmptyRecord \in Record /\ Entries(EmptyRecord) = {}
  BY DEF Record, Entry, EmptyRecord, NoEntry, Entries
<1>2. Idle \in AttemptType
  BY <1>1 DEF Idle, AttemptType
<1>3. /\ original \in [Held -> Modes] /\ db = original
      /\ \A j \in Jobs : /\ record[j] = EmptyRecord
                         /\ run[j].phase = "none" /\ run[j].waits = None
      /\ \A w \in Workers : attempt[w] = Idle
  BY TriggersAssumption DEF Init
<1>4. TypeOK
  <2>1. record \in [Jobs -> Record] /\ attempt \in [Workers -> AttemptType]
    BY <1>1, <1>2 DEF Init
  <2>2. run \in [Jobs -> RunType]
    BY DEF Init, RunType, Over
  <2>3. before \in [Held -> SUBSET Held] /\ destinations \in [Jobs -> SUBSET Destinations]
    BY DEF Init
  <2> QED BY <1>3, <2>1, <2>2, <2>3 DEF Init, TypeOK
<1>5. AttemptFacts
  BY <1>1, <1>3 DEF AttemptFacts, WellFormed, Idle
<1>6. RecordsTellOriginal
  BY <1>1, <1>3 DEF RecordsTellOriginal, TellsOriginal, Idle
<1>7. Awaited /\ RecordFacts /\ OutOfTheWayIsRecorded
  BY <1>1, <1>3 DEF Awaited, RecordFacts, KnowsRecord, OutOfTheWayIsRecorded, OutOfTheWay, Idle
<1>8. SuspendFacts
  BY <1>3 DEF SuspendFacts, WritesUndisturbed, Idle
<1> QED BY <1>3, <1>4, <1>5, <1>6, <1>7, <1>8 DEF IndInv, WaitFacts, DbFacts

-----------------------------------------------------------------------------
(* The steps of a suspending attempt.                                      *)
LEMMA ReadToSuspendStep ==
  ASSUME IndInv, NEW w \in Workers, ReadToSuspend(w)
  PROVE  IndInv'
<1> DEFINE a == attempt[w]
           b == [a EXCEPT !.recorded = record[a.job], !.dests = destinations[a.job],
                          !.toRead = destinations[a.job], !.pc = "merge"]
<1>1. /\ a \in AttemptType /\ a.doing = "suspend" /\ a.pc = "read" /\ a.job \in Jobs
      /\ a.todo = {} /\ ~ a.failed /\ Goes(w, b)
      /\ UNCHANGED <<envVars, dbVars, record, run, abandoned, faults>>
  BY DEF ReadToSuspend, IndInv, TypeOK, AttemptFacts, WellFormed
<1>2. record[a.job] \in Record /\ destinations[a.job] \in SUBSET Destinations
  BY <1>1 DEF IndInv, TypeOK
<1>3. /\ b \in AttemptType /\ b.job = a.job /\ b.doing = a.doing /\ b.pc = "merge"
      /\ b.recorded = record[a.job] /\ b.dests = destinations[a.job] /\ b.toRead = b.dests
      /\ b.todo = {}
  BY <1>1, <1>2 DEF AttemptType
<1>4. WellFormed(b) /\ TellsOriginal(b.recorded)
  BY <1>1, <1>3 DEF WellFormed, IndInv, RecordsTellOriginal
<1> HIDE DEF b
<1>5. /\ attempt' \in [Workers -> AttemptType] /\ attempt'[w] = b
      /\ \A v \in Workers : v # w => attempt'[v] = attempt[v]
      /\ AttemptFacts' /\ WaitFacts'
      /\ \A v \in Workers : TellsOriginal(attempt[v].recorded)'
      /\ (~ abandoned => Awaited)'
  BY <1>1, <1>3, <1>4, GoesFrame DEF envVars
<1>6. TypeOK' /\ DbFacts' /\ RecordsTellOriginal'
  BY <1>1, <1>5 DEF IndInv, TypeOK, DbFacts, RecordsTellOriginal, TellsOriginal, Entries, envVars, dbVars
<1>7. (~ abandoned => RecordFacts)'
  BY <1>1, <1>3, <1>5 DEF IndInv, RecordFacts, KnowsRecord, Entries
<1>8. (~ abandoned => OutOfTheWayIsRecorded)'
  BY <1>1, <1>3, <1>5 DEF IndInv, OutOfTheWayIsRecorded, OutOfTheWay, PutsBack, Entries, envVars, dbVars
<1>9. (~ abandoned /\ OneJob => SuspendFacts)'
  BY <1>1, <1>3, <1>5 DEF IndInv, SuspendFacts, WritesUndisturbed, OneJob, Entries, envVars, dbVars
<1> QED BY <1>5, <1>6, <1>7, <1>8, <1>9 DEF IndInv

LEMMA ReadTriggersStep ==
  ASSUME IndInv, NEW w \in Workers, NEW d \in Destinations, ReadTriggers(w, d)
  PROVE  IndInv'
<1> DEFINE a == attempt[w]
           m == MergeFound(a.recorded, d)
           b == [a EXCEPT !.recorded = m, !.toRead = @ \ {d}]
<1>1. /\ a \in AttemptType /\ a.doing = "suspend" /\ a.pc = "merge" /\ a.job \in Jobs
      /\ a.todo = {} /\ ~ a.failed /\ d \in a.toRead /\ Goes(w, b) /\ a.recorded \in Record
      /\ UNCHANGED <<envVars, dbVars, record, run, abandoned, faults>>
  BY DEF ReadTriggers, IndInv, TypeOK, AttemptFacts, WellFormed, AttemptType
<1>2. /\ m \in Record
      /\ \A x \in Held :
           m[x] = IF x \in Found(d) \ Entries(a.recorded)
                  THEN [mode |-> db[x],
                        after |-> {y \in Entries(a.recorded) : y[1] = d}
                                  \cup (before[x] \cap Found(d))]
                  ELSE a.recorded[x]
  BY <1>1 DEF MergeFound, Record, Entry, Found, Entries, IndInv, TypeOK
<1>3. /\ b \in AttemptType /\ b.job = a.job /\ b.doing = a.doing /\ b.pc = "merge"
      /\ b.recorded = m /\ b.dests = a.dests /\ b.toRead = a.toRead \ {d} /\ b.todo = {}
      /\ b.failed = a.failed
  <2>1. /\ m \in Record /\ b = [[a EXCEPT !.recorded = m] EXCEPT !.toRead = a.toRead \ {d}]
    BY <1>1, <1>2 DEF AttemptType
  <2> HIDE DEF m
  <2> QED BY <1>1, <2>1 DEF AttemptType
<1>a. Entries(m) = Entries(a.recorded) \cup Found(d)
  <2>1. \A x \in Held : db[x] # "none"
    BY DEF IndInv, TypeOK, Modes, Firing
  <2>2. ASSUME NEW x \in Found(d) \ Entries(a.recorded) PROVE x \in Held /\ m[x].mode = db[x]
    <3> HIDE DEF m
    <3>1. x \in Held
      BY DEF Found
    <3>2. m[x] = [mode |-> db[x],
                  after |-> {y \in Entries(a.recorded) : y[1] = d} \cup (before[x] \cap Found(d))]
      BY <1>2, <2>2, <3>1, Zenon
    <3> QED BY <3>1, <3>2
  <2>3. \A x \in Held : x \notin Found(d) \ Entries(a.recorded) => m[x] = a.recorded[x]
    BY <1>2
  <2> HIDE DEF m
  <2> QED BY <2>1, <2>2, <2>3 DEF Entries
<1>4. WellFormed(b) /\ TellsOriginal(b.recorded)
  <2>1. TellsOriginal(a.recorded) /\ \A x \in Found(d) : db[x] = original[x] /\ original[x] # "off"
    BY DEF IndInv, RecordsTellOriginal, DbFacts, Found
  <2>2. ASSUME NEW x \in Entries(m) PROVE m[x].mode = original[x] /\ original[x] # "off"
    <3> HIDE DEF m
    <3>1. x \in Held
      BY <2>2 DEF Entries
    <3>2. CASE x \in Found(d) \ Entries(a.recorded)
      <4>1. m[x] = [mode |-> db[x],
                    after |-> {y \in Entries(a.recorded) : y[1] = d} \cup (before[x] \cap Found(d))]
        BY <1>2, <3>1, <3>2, Zenon
      <4> QED BY <2>1, <3>2, <4>1
    <3>3. CASE x \notin Found(d) \ Entries(a.recorded)
      <4>1. m[x] = a.recorded[x] /\ x \in Entries(a.recorded)
        BY <1>2, <1>a, <3>1, <3>3, <2>2
      <4> QED BY <2>1, <4>1 DEF TellsOriginal
    <3> QED BY <3>2, <3>3
  <2>3. TellsOriginal(m)
    BY <2>2 DEF TellsOriginal
  <2> HIDE DEF m
  <2> QED BY <1>1, <1>3, <2>3 DEF WellFormed
<1> HIDE DEF m
<1> HIDE DEF b
<1>5. /\ attempt' \in [Workers -> AttemptType] /\ attempt'[w] = b
      /\ \A v \in Workers : v # w => attempt'[v] = attempt[v]
      /\ AttemptFacts' /\ WaitFacts'
      /\ \A v \in Workers : TellsOriginal(attempt[v].recorded)'
      /\ (~ abandoned => Awaited)'
  BY <1>1, <1>3, <1>4, GoesFrame DEF envVars
<1>6. TypeOK' /\ DbFacts' /\ RecordsTellOriginal'
  BY <1>1, <1>5 DEF IndInv, TypeOK, DbFacts, RecordsTellOriginal, TellsOriginal, Entries, envVars, dbVars
<1>7. (~ abandoned => RecordFacts)'
  BY <1>1, <1>3, <1>5, <1>a DEF IndInv, RecordFacts, KnowsRecord, Entries
<1>8. (~ abandoned => OutOfTheWayIsRecorded)'
  BY <1>1, <1>3, <1>5 DEF IndInv, OutOfTheWayIsRecorded, OutOfTheWay, PutsBack, Entries, envVars, dbVars
<1>9. (~ abandoned /\ OneJob => SuspendFacts)'
  BY <1>1, <1>3, <1>5, <1>a DEF IndInv, SuspendFacts, WritesUndisturbed, OneJob, Found, Entries, envVars, dbVars
<1> QED BY <1>5, <1>6, <1>7, <1>8, <1>9 DEF IndInv

LEMMA StoreRecordStep ==
  ASSUME IndInv, NEW w \in Workers, StoreRecord(w)
  PROVE  IndInv'
<1> DEFINE a == attempt[w]
           left == {x \in Entries(a.recorded) : x[1] \in a.dests}
           b == [a EXCEPT !.pc = "apply", !.todo = left]
<1>1. /\ a \in AttemptType /\ a.doing = "suspend" /\ a.pc = "merge" /\ a.job \in Jobs
      /\ a.toRead = {} /\ Goes(w, b) /\ a.recorded \in Record
      /\ record' = [record EXCEPT ![a.job] = a.recorded]
      /\ UNCHANGED <<envVars, dbVars, run, abandoned, faults>>
  BY DEF StoreRecord, IndInv, TypeOK, AttemptFacts, WellFormed, AttemptType
<1>2. /\ record' \in [Jobs -> Record] /\ record'[a.job] = a.recorded
      /\ \A j \in Jobs : j # a.job => record'[j] = record[j]
  BY <1>1 DEF IndInv, TypeOK
<1>3. /\ b \in AttemptType /\ b.job = a.job /\ b.doing = a.doing /\ b.pc = "apply"
      /\ b.recorded = a.recorded /\ b.dests = a.dests /\ b.todo = left /\ b.failed = a.failed
  BY <1>1 DEF AttemptType, Entries
<1>b. ~ a.failed
  BY <1>1 DEF IndInv, AttemptFacts, WellFormed
<1>4. WellFormed(b) /\ TellsOriginal(b.recorded)
  BY <1>1, <1>3, <1>b DEF WellFormed, IndInv, RecordsTellOriginal
<1> HIDE DEF b
<1>5. /\ attempt' \in [Workers -> AttemptType] /\ attempt'[w] = b
      /\ \A v \in Workers : v # w => attempt'[v] = attempt[v]
      /\ AttemptFacts' /\ WaitFacts'
      /\ \A v \in Workers : TellsOriginal(attempt[v].recorded)'
      /\ (~ abandoned => Awaited)'
  BY <1>1, <1>3, <1>4, GoesFrame DEF envVars
<1>6. TypeOK' /\ DbFacts' /\ RecordsTellOriginal'
  <2>1. \A j \in Jobs : TellsOriginal(record[j])'
    BY <1>1, <1>2, <1>4, <1>3 DEF IndInv, RecordsTellOriginal, TellsOriginal, Entries, envVars
  <2> QED BY <1>1, <1>2, <1>5, <2>1 DEF IndInv, TypeOK, DbFacts, RecordsTellOriginal, envVars, dbVars
<1>c. ASSUME ~ abandoned
      PROVE  /\ \A v \in Workers : v # w /\ attempt[v].doing # "nothing" => attempt[v].job # a.job
             /\ Entries(record[a.job]) \subseteq Entries(a.recorded)
             /\ run[a.job].phase = "suspending"
  <2>1. /\ run[a.job].phase = "suspending"
        /\ \A v \in Workers : v # w /\ attempt[v].doing # "nothing" => attempt[v].job # a.job
    BY <1>1, <1>c, AwaitedAlone DEF Activity, Waiting
  <2> QED BY <1>1, <1>c, <2>1 DEF IndInv, RecordFacts, KnowsRecord
<1>7. (~ abandoned => RecordFacts)'
  BY <1>1, <1>2, <1>3, <1>5, <1>c DEF IndInv, RecordFacts, KnowsRecord, Entries, AttemptFacts, WellFormed
<1>8. (~ abandoned => OutOfTheWayIsRecorded)'
  BY <1>1, <1>2, <1>3, <1>5, <1>c DEF IndInv, OutOfTheWayIsRecorded, OutOfTheWay, PutsBack, Entries, envVars, dbVars
<1>9. (~ abandoned /\ OneJob => SuspendFacts)'
  BY <1>1, <1>3, <1>5 DEF IndInv, SuspendFacts, WritesUndisturbed, OneJob, Entries, envVars, dbVars
<1> QED BY <1>5, <1>6, <1>7, <1>8, <1>9 DEF IndInv

LEMMA SuspendOneStep ==
  ASSUME IndInv, NEW w \in Workers, NEW x \in Held, SuspendOne(w, x)
  PROVE  IndInv'
<1> DEFINE a == attempt[w]
           b == [a EXCEPT !.todo = @ \ {x}]
<1>1. /\ a \in AttemptType /\ a.doing = "suspend" /\ a.pc = "apply" /\ a.job \in Jobs
      /\ ~ a.failed /\ a.todo \subseteq Entries(a.recorded) /\ x \in a.todo
      /\ Goes(w, b) /\ TakeAway(x)
      /\ UNCHANGED <<envVars, record, run, abandoned, faults>>
  BY DEF SuspendOne, Following, IndInv, TypeOK, AttemptFacts, WellFormed
<1>2. /\ db' \in [Held -> Modes] /\ before' \in [Held -> SUBSET Held] /\ db'[x] = "off"
      /\ \A y \in Held : y # x => db'[y] = db[y]
  BY <1>1 DEF TakeAway, IndInv, TypeOK, Modes
<1>3. /\ b \in AttemptType /\ b.job = a.job /\ b.doing = a.doing /\ b.pc = "apply"
      /\ b.recorded = a.recorded /\ b.dests = a.dests /\ b.todo = a.todo \ {x} /\ ~ b.failed
  BY <1>1 DEF AttemptType
<1>4. WellFormed(b) /\ TellsOriginal(b.recorded)
  BY <1>1, <1>3 DEF WellFormed, IndInv, RecordsTellOriginal
<1> HIDE DEF b
<1>5. /\ attempt' \in [Workers -> AttemptType] /\ attempt'[w] = b
      /\ \A v \in Workers : v # w => attempt'[v] = attempt[v]
      /\ AttemptFacts' /\ WaitFacts'
      /\ \A v \in Workers : TellsOriginal(attempt[v].recorded)'
      /\ (~ abandoned => Awaited)'
  BY <1>1, <1>3, <1>4, GoesFrame DEF envVars
<1>6. TypeOK' /\ DbFacts' /\ RecordsTellOriginal'
  BY <1>1, <1>2, <1>5 DEF IndInv, TypeOK, DbFacts, RecordsTellOriginal, TellsOriginal, Entries, envVars
<1>7. (~ abandoned => RecordFacts)'
  BY <1>1, <1>3, <1>5 DEF IndInv, RecordFacts, KnowsRecord, Entries
<1>8. (~ abandoned => OutOfTheWayIsRecorded)'
  <2> SUFFICES ASSUME ~ abandoned, NEW y \in Held, db'[y] # original[y]
               PROVE  /\ db'[y] = "off"
                      /\ \E j \in Jobs : y \in Entries(record[j]) /\ ~ PutsBack(j, y)'
    BY <1>1 DEF OutOfTheWayIsRecorded, OutOfTheWay, Entries, envVars
  <2>1. \A j \in Jobs : PutsBack(j, y)' => PutsBack(j, y)
    BY <1>1, <1>3, <1>5 DEF PutsBack
  <2>2. CASE y = x
    <3>1. y \in Entries(record[a.job])
      BY <1>1, <2>2 DEF IndInv, RecordFacts, KnowsRecord
    <3>2. ~ PutsBack(a.job, y)
      BY <1>1, AwaitedAlone DEF PutsBack
    <3> QED BY <1>1, <1>2, <2>1, <2>2, <3>1, <3>2
  <2>3. CASE y # x
    BY <1>2, <2>1, <2>3 DEF IndInv, OutOfTheWayIsRecorded, OutOfTheWay
  <2> QED BY <2>2, <2>3
<1>9. (~ abandoned /\ OneJob => SuspendFacts)'
  BY <1>1, <1>2, <1>3, <1>5 DEF IndInv, SuspendFacts, WritesUndisturbed, OneJob, Entries, envVars
<1> QED BY <1>5, <1>6, <1>7, <1>8, <1>9 DEF IndInv

-----------------------------------------------------------------------------
(* The steps of a restoring attempt.                                       *)
LEMMA ReadToRestoreStep ==
  ASSUME IndInv, NEW w \in Workers, ReadToRestore(w)
  PROVE  IndInv'
<1> DEFINE a == attempt[w]
           r == record[a.job]
           p == IF Entries(r) = {} THEN "end" ELSE "apply"
           b == [a EXCEPT !.recorded = r, !.todo = Entries(r), !.pc = p]
<1>1. /\ a \in AttemptType /\ a.doing = "restore" /\ a.pc = "read" /\ a.job \in Jobs
      /\ ~ a.failed /\ Goes(w, b)
      /\ UNCHANGED <<envVars, dbVars, record, run, abandoned, faults>>
  BY DEF ReadToRestore, IndInv, TypeOK, AttemptFacts, WellFormed
<1>2. r \in Record /\ Entries(r) \subseteq Held /\ p \in {"end", "apply"}
  BY <1>1 DEF IndInv, TypeOK, Entries
<1>a. TellsOriginal(r) /\ (p = "end" => Entries(r) = {})
  BY <1>1 DEF IndInv, RecordsTellOriginal
<1>3. /\ b \in AttemptType /\ b.job = a.job /\ b.doing = a.doing /\ b.pc = p
      /\ b.recorded = r /\ b.todo = Entries(r) /\ ~ b.failed
  <2> HIDE DEF p, r
  <2> QED BY <1>1, <1>2 DEF AttemptType
<1>4. WellFormed(b) /\ TellsOriginal(b.recorded)
  <2> HIDE DEF p, b
  <2> QED BY <1>1, <1>2, <1>3, <1>a DEF WellFormed
<1> HIDE DEF p
<1> HIDE DEF b
<1>5. /\ attempt' \in [Workers -> AttemptType] /\ attempt'[w] = b
      /\ \A v \in Workers : v # w => attempt'[v] = attempt[v]
      /\ AttemptFacts' /\ WaitFacts'
      /\ \A v \in Workers : TellsOriginal(attempt[v].recorded)'
      /\ (~ abandoned => Awaited)'
  BY <1>1, <1>3, <1>4, GoesFrame DEF envVars
<1>6. TypeOK' /\ DbFacts' /\ RecordsTellOriginal'
  BY <1>1, <1>5 DEF IndInv, TypeOK, DbFacts, RecordsTellOriginal, TellsOriginal, Entries, envVars, dbVars
<1>7. (~ abandoned => RecordFacts)'
  BY <1>1, <1>2, <1>3, <1>5, <1>a DEF IndInv, RecordFacts, KnowsRecord, Entries
<1>8. (~ abandoned => OutOfTheWayIsRecorded)'
  <2>1. \A j \in Jobs, y \in Held : y \in Entries(record[j]) /\ PutsBack(j, y)' => PutsBack(j, y)
    BY <1>1, <1>3, <1>5 DEF PutsBack
  <2> QED BY <1>1, <2>1 DEF IndInv, OutOfTheWayIsRecorded, OutOfTheWay, Entries, envVars, dbVars
<1>9. (~ abandoned /\ OneJob => SuspendFacts)'
  BY <1>1, <1>3, <1>5 DEF IndInv, SuspendFacts, WritesUndisturbed, OneJob, Entries, envVars, dbVars
<1> QED BY <1>5, <1>6, <1>7, <1>8, <1>9 DEF IndInv

LEMMA PutBackFacts ==
  ASSUME IndInv, NEW x \in Held, NEW mode, mode = original[x], PutBack(x, mode)
  PROVE  /\ db' \in [Held -> Modes] /\ before' \in [Held -> SUBSET Held]
         /\ db'[x] = original[x] /\ \A y \in Held : y # x => db'[y] = db[y]
<1>1. /\ db \in [Held -> Modes] /\ before \in [Held -> SUBSET Held]
      /\ original[x] \in Modes /\ db[x] \in {original[x], "off"}
  BY TriggersAssumption DEF IndInv, TypeOK, DbFacts
<1>2. Found(x[1]) \subseteq Held
  BY DEF Found
<1>3. CASE x[1] \in MySQL /\ db[x] # "off"
  BY <1>1, <1>3 DEF PutBack, dbVars
<1>4. CASE ~ (x[1] \in MySQL /\ db[x] # "off")
  <2>1. /\ db' = [db EXCEPT ![x] = original[x]]
        /\ before' = before \/ before' = [before EXCEPT ![x] = Found(x[1])]
    BY <1>4 DEF PutBack
  <2> QED BY <1>1, <1>2, <2>1
<1> QED BY <1>3, <1>4

(* A step that puts triggers back, one or none.                            *)
LEMMA RestoringStep ==
  ASSUME IndInv, NEW w \in Workers, attempt[w].doing = "restore", attempt[w].pc = "apply",
         NEW b \in AttemptType, Goes(w, b),
         b.job = attempt[w].job, b.doing = "restore", b.recorded = attempt[w].recorded,
         b.pc \in {"apply", "store"}, b.todo \subseteq attempt[w].todo,
         b.pc = "apply" => ~ b.failed, b.pc = "store" /\ ~ b.failed => b.todo = {},
         db' \in [Held -> Modes], before' \in [Held -> SUBSET Held],
         \A y \in Held : db'[y] = db[y] \/ db'[y] = original[y],
         \A y \in attempt[w].todo \ b.todo : db'[y] = original[y],
         UNCHANGED <<envVars, record, run, abandoned>>, faults' \in Nat
  PROVE  IndInv'
<1> DEFINE a == attempt[w]
<1>1. /\ a \in AttemptType /\ a.job \in Jobs /\ a.todo \subseteq Entries(a.recorded)
  BY DEF IndInv, TypeOK, AttemptFacts, WellFormed
<1>2. WellFormed(b) /\ TellsOriginal(b.recorded)
  BY <1>1 DEF WellFormed, IndInv, RecordsTellOriginal
<1>5. /\ attempt' \in [Workers -> AttemptType] /\ attempt'[w] = b
      /\ \A v \in Workers : v # w => attempt'[v] = attempt[v]
      /\ AttemptFacts' /\ WaitFacts'
      /\ \A v \in Workers : TellsOriginal(attempt[v].recorded)'
      /\ (~ abandoned => Awaited)'
  BY <1>2, GoesFrame DEF envVars
<1>6. TypeOK' /\ RecordsTellOriginal'
  BY <1>5 DEF IndInv, TypeOK, RecordsTellOriginal, TellsOriginal, Entries, envVars
<1>a. DbFacts'
  BY DEF IndInv, DbFacts, envVars
<1>7. (~ abandoned => RecordFacts)'
  BY <1>1, <1>5 DEF IndInv, RecordFacts, KnowsRecord, Entries
<1>8. (~ abandoned => OutOfTheWayIsRecorded)'
  <2> SUFFICES ASSUME ~ abandoned, NEW y \in Held, db'[y] # original[y]
               PROVE  /\ db'[y] = "off"
                      /\ \E j \in Jobs : y \in Entries(record[j]) /\ ~ PutsBack(j, y)'
    BY DEF OutOfTheWayIsRecorded, OutOfTheWay, Entries, envVars
  <2>1. db'[y] = db[y] /\ y \notin a.todo \ b.todo
    OBVIOUS
  <2>2. \A j \in Jobs : PutsBack(j, y)' => PutsBack(j, y)
    BY <1>5, <2>1 DEF PutsBack
  <2> QED BY <2>1, <2>2 DEF IndInv, OutOfTheWayIsRecorded, OutOfTheWay
<1>9. (~ abandoned /\ OneJob => SuspendFacts)'
  <2> SUFFICES ASSUME ~ abandoned, OneJob PROVE SuspendFacts'
    BY DEF OneJob
  <2>1. /\ \A v \in Workers : v # w => attempt[v].doing = "nothing"
        /\ \A j \in Jobs : run[j].phase # "syncing"
    <3>1. /\ run[a.job].phase \in Waiting
          /\ \A v \in Workers : v # w /\ attempt[v].doing # "nothing" => attempt[v].job # a.job
      BY AwaitedAlone
    <3> QED BY <1>1, <3>1 DEF OneJob, Waiting, IndInv, AttemptFacts, WellFormed
  <2> QED BY <1>5, <2>1 DEF SuspendFacts, WritesUndisturbed
<1> QED BY <1>5, <1>6, <1>a, <1>7, <1>8, <1>9 DEF IndInv

LEMMA RestoreOneStep ==
  ASSUME IndInv, NEW w \in Workers, NEW x \in Held, RestoreOne(w, x)
  PROVE  IndInv'
<1> DEFINE a == attempt[w]
           p == IF a.todo = {x} THEN "store" ELSE "apply"
           b == [a EXCEPT !.todo = @ \ {x}, !.pc = p]
<1>1. /\ a \in AttemptType /\ a.doing = "restore" /\ a.pc = "apply" /\ ~ a.failed
      /\ a.todo \subseteq Entries(a.recorded) /\ x \in a.todo /\ Goes(w, b)
      /\ PutBack(x, a.recorded[x].mode)
      /\ UNCHANGED <<envVars, record, run, abandoned, faults>>
  BY DEF RestoreOne, Following, IndInv, TypeOK, AttemptFacts, WellFormed
<1>2. a.recorded[x].mode = original[x]
  BY <1>1 DEF IndInv, RecordsTellOriginal, TellsOriginal
<1>3. /\ db' \in [Held -> Modes] /\ before' \in [Held -> SUBSET Held]
      /\ db'[x] = original[x] /\ \A y \in Held : y # x => db'[y] = db[y]
  BY <1>1, <1>2, PutBackFacts
<1>4. p \in {"apply", "store"} /\ (p = "store" => a.todo \ {x} = {})
  OBVIOUS
<1> HIDE DEF p
<1>5. /\ b \in AttemptType /\ b.job = a.job /\ b.doing = "restore" /\ b.pc = p
      /\ b.recorded = a.recorded /\ b.todo = a.todo \ {x} /\ ~ b.failed
  BY <1>1, <1>4 DEF AttemptType
<1> HIDE DEF b
<1>6. faults' \in Nat
  BY <1>1 DEF IndInv, TypeOK
<1> QED BY <1>1, <1>3, <1>4, <1>5, <1>6, RestoringStep

LEMMA RestoreStopsStep ==
  ASSUME IndInv, NEW w \in Workers, RestoreStops(w)
  PROVE  IndInv'
<1> DEFINE a == attempt[w]
           b == [a EXCEPT !.pc = "store", !.failed = TRUE]
<1>1. /\ a \in AttemptType /\ a.doing = "restore" /\ a.pc = "apply"
      /\ a.todo \subseteq Entries(a.recorded) /\ Goes(w, b)
      /\ UNCHANGED <<envVars, record, run, abandoned>>
  BY DEF RestoreStops, IndInv, TypeOK, AttemptFacts, WellFormed
<1>2. faults' \in Nat
  BY DEF RestoreStops, Fault, IndInv, TypeOK
<1>3. /\ db' \in [Held -> Modes] /\ before' \in [Held -> SUBSET Held]
      /\ \A y \in Held : db'[y] = db[y] \/ db'[y] = original[y]
  <2>1. CASE UNCHANGED dbVars
    BY <2>1 DEF dbVars, IndInv, TypeOK
  <2>2. CASE ~ UNCHANGED dbVars
    <3>1. PICK x \in Following(a.todo, a.recorded) : PutBack(x, a.recorded[x].mode)
      BY <2>2 DEF RestoreStops
    <3>2. x \in Held /\ a.recorded[x].mode = original[x]
      BY <1>1, <3>1 DEF Following, Entries, IndInv, RecordsTellOriginal, TellsOriginal
    <3> QED BY <3>1, <3>2, PutBackFacts
  <2> QED BY <2>1, <2>2
<1>4. /\ b \in AttemptType /\ b.job = a.job /\ b.doing = "restore" /\ b.pc = "store"
      /\ b.recorded = a.recorded /\ b.todo = a.todo /\ b.failed
  BY <1>1 DEF AttemptType
<1> HIDE DEF b
<1> QED BY <1>1, <1>2, <1>3, <1>4, RestoringStep

LEMMA StoreRemainingStep ==
  ASSUME IndInv, NEW w \in Workers, StoreRemaining(w)
  PROVE  IndInv'
<1> DEFINE a == attempt[w]
           r == [x \in Held |-> IF x \in a.todo
                                THEN [a.recorded[x] EXCEPT !.after = @ \cap a.todo] ELSE NoEntry]
           b == [a EXCEPT !.pc = "end"]
<1>1. /\ a \in AttemptType /\ a.doing = "restore" /\ a.pc = "store" /\ a.job \in Jobs
      /\ a.todo \subseteq Entries(a.recorded) /\ (~ a.failed => a.todo = {})
      /\ a.recorded \in Record /\ Goes(w, b)
      /\ record' = [record EXCEPT ![a.job] = r]
      /\ UNCHANGED <<envVars, dbVars, run, abandoned, faults>>
  BY DEF StoreRemaining, IndInv, TypeOK, AttemptFacts, WellFormed, AttemptType
<1>2. r \in Record /\ Entries(r) = a.todo /\ \A x \in a.todo : r[x].mode = a.recorded[x].mode
  <2>1. ASSUME NEW x \in Held PROVE r[x] \in Entry /\ (x \in a.todo <=> r[x].mode # "none")
    BY <1>1 DEF Record, Entry, NoEntry, Entries
  <2>2. \A x \in a.todo : r[x].mode = a.recorded[x].mode
    BY <1>1 DEF Record, Entry, Entries
  <2>3. a.todo \subseteq Held /\ r \in Record
    BY <1>1, <2>1 DEF Entries, Record
  <2> HIDE DEF r
  <2> QED BY <2>1, <2>2, <2>3 DEF Entries
<1>a. TellsOriginal(r)
  <2> HIDE DEF r
  <2> QED BY <1>1, <1>2 DEF TellsOriginal, IndInv, RecordsTellOriginal
<1> HIDE DEF r
<1>b. /\ record' \in [Jobs -> Record] /\ record'[a.job] = r
      /\ \A j \in Jobs : j # a.job => record'[j] = record[j]
  BY <1>1, <1>2 DEF IndInv, TypeOK
<1>3. /\ b \in AttemptType /\ b.job = a.job /\ b.doing = a.doing /\ b.pc = "end"
      /\ b.recorded = a.recorded /\ b.todo = a.todo /\ b.failed = a.failed
  BY <1>1 DEF AttemptType
<1>4. WellFormed(b) /\ TellsOriginal(b.recorded)
  BY <1>1, <1>3 DEF WellFormed, IndInv, RecordsTellOriginal
<1> HIDE DEF b
<1>5. /\ attempt' \in [Workers -> AttemptType] /\ attempt'[w] = b
      /\ \A v \in Workers : v # w => attempt'[v] = attempt[v]
      /\ AttemptFacts' /\ WaitFacts'
      /\ \A v \in Workers : TellsOriginal(attempt[v].recorded)'
      /\ (~ abandoned => Awaited)'
  BY <1>1, <1>3, <1>4, GoesFrame DEF envVars
<1>6. TypeOK' /\ DbFacts' /\ RecordsTellOriginal'
  <2>1. \A j \in Jobs : TellsOriginal(record[j])'
    BY <1>1, <1>a, <1>b DEF IndInv, RecordsTellOriginal, TellsOriginal, Entries, envVars
  <2> QED BY <1>1, <1>b, <1>5, <2>1 DEF IndInv, TypeOK, DbFacts, RecordsTellOriginal, envVars, dbVars
<1>c. ASSUME ~ abandoned
      PROVE  /\ \A v \in Workers : v # w /\ attempt[v].doing # "nothing" => attempt[v].job # a.job
             /\ run[a.job].phase \in Waiting /\ record[a.job] = a.recorded
  BY <1>1, <1>c, AwaitedAlone DEF IndInv, RecordFacts, KnowsRecord
<1>7. (~ abandoned => RecordFacts)'
  BY <1>1, <1>2, <1>b, <1>3, <1>5, <1>c
     DEF IndInv, RecordFacts, KnowsRecord, Entries, AttemptFacts, WellFormed, Waiting
<1>8. (~ abandoned => OutOfTheWayIsRecorded)'
  <2> SUFFICES ASSUME ~ abandoned, NEW y \in Held, db[y] # original[y]
               PROVE  /\ db[y] = "off"
                      /\ \E j \in Jobs : y \in Entries(record'[j]) /\ ~ PutsBack(j, y)'
    BY <1>1 DEF OutOfTheWayIsRecorded, OutOfTheWay, Entries, envVars, dbVars
  <2>1. PICK j \in Jobs : y \in Entries(record[j]) /\ ~ PutsBack(j, y) /\ db[y] = "off"
    BY DEF IndInv, OutOfTheWayIsRecorded, OutOfTheWay
  <2>2. ~ PutsBack(j, y)'
    BY <1>3, <1>5, <2>1 DEF PutsBack
  <2>3. y \in Entries(record'[j])
    BY <1>1, <1>2, <1>b, <2>1 DEF PutsBack
  <2> QED BY <2>1, <2>2, <2>3
<1>9. (~ abandoned /\ OneJob => SuspendFacts)'
  BY <1>1, <1>3, <1>5 DEF IndInv, SuspendFacts, WritesUndisturbed, OneJob, Entries, envVars, dbVars
<1> QED BY <1>5, <1>6, <1>7, <1>8, <1>9 DEF IndInv

-----------------------------------------------------------------------------
(* An attempt returns, and its run goes on if it waits for it.             *)
LEMMA AfterAttemptFacts ==
  ASSUME IndInv, NEW j \in Jobs, run[j].waits # None, NEW ok \in BOOLEAN
  PROVE  LET r == AfterAttempt(run[j], ok)
         IN  /\ r \in RunType /\ r.waits = None
             /\ r.phase \notin {"none", "terminated"}
             /\ r.phase = "restored" => ok /\ run[j].phase = "restoring"
             /\ r.phase = "syncing" => ok /\ run[j].phase = "suspending"
<1>1. run[j] \in RunType /\ run[j].phase \in {"suspending", "restoring", "leaving"}
  BY DEF IndInv, TypeOK, WaitFacts, Waiting
<1>2. ASSUME NEW p \in Waiting \cup Over \cup {"syncing"}
      PROVE  Enter(run[j], p) \in RunType /\ Enter(run[j], p).waits = None /\ Enter(run[j], p).phase = p
  BY <1>1 DEF Enter, RunType
<1>3. /\ OnSuccess[run[j].phase] \in {"syncing", "restored", "left"}
      /\ OnError[run[j].phase] \in {"leaving", "left"}
      /\ OnSuccess[run[j].phase] = "restored" => run[j].phase = "restoring"
      /\ OnSuccess[run[j].phase] = "syncing" => run[j].phase = "suspending"
  BY <1>1 DEF OnSuccess, OnError
<1>4. CASE ok
  <2>1. AfterAttempt(run[j], ok) = Enter(run[j], OnSuccess[run[j].phase])
    BY <1>4 DEF AfterAttempt
  <2>2. OnSuccess[run[j].phase] \in Waiting \cup Over \cup {"syncing"}
    BY <1>3 DEF Waiting, Over
  <2> QED BY <1>2, <1>3, <1>4, <2>1, <2>2
<1>5. CASE ~ ok /\ run[j].tries < Tries(run[j].phase)
  <2>1. AfterAttempt(run[j], ok) = [run[j] EXCEPT !.waits = None]
    BY <1>5 DEF AfterAttempt
  <2> QED BY <1>1, <2>1 DEF RunType
<1>6. CASE ~ ok /\ ~ (run[j].tries < Tries(run[j].phase))
  <2>1. AfterAttempt(run[j], ok) = Enter(run[j], OnError[run[j].phase])
    BY <1>6 DEF AfterAttempt
  <2>2. OnError[run[j].phase] \in Waiting \cup Over \cup {"syncing"}
    BY <1>3 DEF Waiting, Over
  <2> QED BY <1>2, <1>3, <2>1, <2>2
<1> QED BY <1>4, <1>5, <1>6

LEMMA ReturnsStep ==
  ASSUME IndInv, NEW w \in Workers, attempt[w].doing # "nothing",
         NEW ok \in BOOLEAN, Returns(w, ok),
         ok => \/ attempt[w].doing = "suspend" /\ attempt[w].pc = "apply" /\ attempt[w].todo = {}
               \/ attempt[w].doing = "restore" /\ attempt[w].pc = "end" /\ ~ attempt[w].failed,
         UNCHANGED <<envVars, dbVars, record, abandoned>>, faults' \in Nat
  PROVE  IndInv'
<1> DEFINE a == attempt[w]
<1>1. /\ EmptyRecord \in Record /\ Entries(EmptyRecord) = {}
      /\ Idle.doing = "nothing" /\ Idle.todo = {} /\ Idle.recorded = EmptyRecord /\ Idle.pc = "none"
  BY DEF Record, Entry, EmptyRecord, NoEntry, Entries, Idle
<1>2. Idle \in AttemptType
  BY <1>1 DEF Idle, AttemptType
<1>3. /\ attempt' \in [Workers -> AttemptType] /\ attempt'[w] = Idle
      /\ \A v \in Workers : v # w => attempt'[v] = attempt[v]
  BY <1>2 DEF Returns, IndInv, TypeOK
<1>4. w # None
  BY WorkersAssumption
<1>5. /\ run' \in [Jobs -> RunType]
      /\ \A j \in Jobs : run[j].waits # w => run'[j] = run[j]
      /\ \A j \in Jobs : run[j].waits = w =>
           /\ run'[j].waits = None /\ run'[j].phase \notin {"none", "terminated"}
           /\ run'[j].phase = "restored" => ok /\ run[j].phase = "restoring"
           /\ run'[j].phase = "syncing" => ok /\ run[j].phase = "suspending"
  <2>1. run' = [j \in Jobs |-> IF run[j].waits = w THEN AfterAttempt(run[j], ok) ELSE run[j]]
    BY DEF Returns
  <2>2. \A j \in Jobs : run[j] \in RunType
    BY DEF IndInv, TypeOK
  <2> QED BY <1>4, <2>1, <2>2, AfterAttemptFacts
<1>6. AttemptFacts'
  <2>1. WellFormed(Idle)
    BY <1>1, <1>2 DEF WellFormed
  <2> QED BY <1>3, <2>1 DEF IndInv, AttemptFacts, WellFormed, Entries
<1>7. WaitFacts'
  <2>1. \A j \in Jobs : run[j].waits \in Workers \cup {None}
    BY DEF IndInv, TypeOK, RunType
  <2>2. \A j \in Jobs : run'[j].waits # None => run[j].waits # w /\ run'[j] = run[j]
    BY <1>5
  <2> QED BY <1>3, <2>1, <2>2 DEF IndInv, WaitFacts
<1>8. TypeOK' /\ DbFacts' /\ RecordsTellOriginal'
  BY <1>1, <1>3, <1>5 DEF IndInv, TypeOK, DbFacts, RecordsTellOriginal, TellsOriginal, Entries, envVars, dbVars
<1>9. ASSUME ~ abandoned, NEW j \in Jobs, run[j].waits = w PROVE a.job = j /\ a.doing = Activity(run[j].phase)
  BY <1>4, <1>9 DEF IndInv, WaitFacts
<1>10. (~ abandoned => Awaited)'
  BY <1>1, <1>3, <1>5 DEF IndInv, Awaited, AttemptFacts, WellFormed
<1>11. (~ abandoned => RecordFacts)'
  <2> SUFFICES ASSUME ~ abandoned PROVE RecordFacts'
    OBVIOUS
  <2>1. \A v \in Workers : KnowsRecord(attempt[v], record[attempt[v].job])'
    BY <1>1, <1>3 DEF IndInv, RecordFacts, KnowsRecord, Entries
  <2>2. ASSUME NEW j \in Jobs, run'[j].phase \in {"none", "restored"} PROVE Entries(record[j]) = {}
    <3>1. CASE run[j].waits = w
      <4>1. ok /\ run[j].phase = "restoring" /\ a.job = j /\ a.doing = "restore"
        BY <1>5, <1>9, <2>2, <3>1 DEF Activity
      <4> QED BY <4>1 DEF IndInv, RecordFacts, KnowsRecord
    <3>2. CASE run[j].waits # w
      BY <1>5, <2>2, <3>2 DEF IndInv, RecordFacts
    <3> QED BY <3>1, <3>2
  <2> QED BY <2>1, <2>2 DEF RecordFacts, Entries
<1>12. (~ abandoned => OutOfTheWayIsRecorded)'
  BY <1>1, <1>3 DEF IndInv, OutOfTheWayIsRecorded, OutOfTheWay, PutsBack, Entries, envVars, dbVars
<1>13. (~ abandoned /\ OneJob => SuspendFacts)'
  <2> SUFFICES ASSUME ~ abandoned, OneJob PROVE SuspendFacts'
    BY DEF OneJob
  <2>1. \A j \in Jobs, x \in Held :
          run'[j].phase = "syncing" /\ x[1] \in destinations[j] => db[x] = "off"
    <3> SUFFICES ASSUME NEW j \in Jobs, NEW x \in Held, run'[j].phase = "syncing", x[1] \in destinations[j]
                 PROVE  db[x] = "off"
      OBVIOUS
    <3>1. CASE run[j].waits = w
      <4>1. ok /\ a.job = j /\ a.doing = "suspend"
        BY <1>5, <1>9, <3>1 DEF Activity
      <4> QED BY <4>1 DEF IndInv, SuspendFacts
    <3>2. CASE run[j].waits # w
      BY <1>5, <3>2 DEF IndInv, SuspendFacts, WritesUndisturbed
    <3> QED BY <3>1, <3>2
  <2> QED BY <1>1, <1>3, <2>1 DEF IndInv, SuspendFacts, WritesUndisturbed, Entries, envVars, dbVars
<1> QED BY <1>6, <1>7, <1>8, <1>10, <1>11, <1>12, <1>13 DEF IndInv

(* The workflow moves by itself: no attempt, record or trigger does.       *)
LEMMA RunMoves ==
  ASSUME IndInv, NEW j \in Jobs, NEW p, NEW r \in RunType, run' = [run EXCEPT ![j] = r],
         r.phase = p, r.waits = None,
         p \notin {"none", "restored", "syncing"},
         abandoned' = (abandoned \/ run[j].waits # None),
         UNCHANGED <<envVars, dbVars, record, attempt>>, faults' \in Nat
  PROVE  IndInv'
<1>1. /\ run' \in [Jobs -> RunType] /\ run'[j] = r
      /\ \A k \in Jobs : k # j => run'[k] = run[k]
  BY DEF IndInv, TypeOK
<1>2. TypeOK' /\ AttemptFacts' /\ DbFacts' /\ RecordsTellOriginal'
  BY <1>1 DEF IndInv, TypeOK, AttemptFacts, WellFormed, DbFacts, RecordsTellOriginal, TellsOriginal, Entries,
              envVars, dbVars
<1>3. WaitFacts'
  BY <1>1 DEF IndInv, WaitFacts
<1>4. (~ abandoned => Awaited)'
  BY <1>1, WorkersAssumption DEF IndInv, Awaited, AttemptFacts, WellFormed
<1>5. (~ abandoned => RecordFacts)'
  BY <1>1 DEF IndInv, RecordFacts, KnowsRecord, Entries
<1>a. ~ abandoned' => ~ abandoned
  OBVIOUS
<1>6. (~ abandoned => OutOfTheWayIsRecorded)'
  BY <1>a DEF IndInv, OutOfTheWayIsRecorded, OutOfTheWay, PutsBack, Entries, envVars, dbVars
<1>7. (~ abandoned /\ OneJob => SuspendFacts)'
  BY <1>1 DEF IndInv, SuspendFacts, WritesUndisturbed, OneJob, Entries, envVars, dbVars
<1> QED BY <1>2, <1>3, <1>4, <1>5, <1>6, <1>7 DEF IndInv

LEMMA StartAttemptStep ==
  ASSUME IndInv, NEW j \in Jobs, NEW w \in Workers, StartAttempt(j, w)
  PROVE  IndInv'
<1> DEFINE b == Started(j, Activity(run[j].phase))
           r == [run[j] EXCEPT !.waits = w, !.tries = @ + 1]
<1>1. /\ run[j] \in RunType /\ run[j].phase \in Waiting /\ run[j].waits = None
      /\ attempt[w].doing = "nothing" /\ Goes(w, b) /\ run' = [run EXCEPT ![j] = r]
      /\ UNCHANGED <<envVars, dbVars, record, abandoned, faults>>
  BY DEF StartAttempt, IndInv, TypeOK
<1>2. /\ r \in RunType /\ r.waits = w /\ r.phase = run[j].phase
  <2> DEFINE n == run[j].tries + 1
             q == [run[j] EXCEPT !.waits = w]
  <2>1. n \in Nat /\ w \in Workers \cup {None}
    BY <1>1 DEF RunType
  <2>2. q \in RunType /\ q.waits = w /\ q.phase = run[j].phase
    BY <1>1, <2>1 DEF RunType
  <2>3. r = [q EXCEPT !.tries = n]
    BY <1>1 DEF RunType
  <2> HIDE DEF n, q, r
  <2> QED BY <2>1, <2>2, <2>3 DEF RunType
<1> HIDE DEF r
<1>3. EmptyRecord \in Record /\ Entries(EmptyRecord) = {}
  BY DEF Record, Entry, EmptyRecord, NoEntry, Entries
<1>4. /\ b \in AttemptType /\ b.job = j /\ b.doing = Activity(run[j].phase) /\ b.pc = "read"
      /\ b.recorded = EmptyRecord /\ b.todo = {} /\ ~ b.failed
  <2>1. Idle \in AttemptType /\ Idle.recorded = EmptyRecord /\ Idle.todo = {} /\ ~ Idle.failed
    BY <1>3 DEF Idle, AttemptType
  <2>2. Activity(run[j].phase) \in {"suspend", "restore"}
    BY DEF Activity
  <2> QED BY <2>1, <2>2 DEF Started, AttemptType
<1> HIDE DEF b
<1>5. /\ run' \in [Jobs -> RunType] /\ run'[j] = r
      /\ \A k \in Jobs : k # j => run'[k] = run[k]
      /\ attempt' \in [Workers -> AttemptType] /\ attempt'[w] = b
      /\ \A v \in Workers : v # w => attempt'[v] = attempt[v]
  BY <1>1, <1>2, <1>4 DEF IndInv, TypeOK, Goes
<1>6. AttemptFacts'
  <2>1. WellFormed(b)
    BY <1>4 DEF WellFormed, Activity
  <2> QED BY <1>5, <2>1 DEF IndInv, AttemptFacts, WellFormed, Entries
<1>7. WaitFacts'
  <2>1. \A k \in Jobs : k # j /\ run[k].waits # None => run[k].waits # w
    BY <1>1 DEF IndInv, WaitFacts, Activity
  <2>2. \A k \in Jobs : run[k].waits \in Workers \cup {None}
    BY DEF IndInv, TypeOK, RunType
  <2> QED BY <1>1, <1>2, <1>4, <1>5, <2>1, <2>2 DEF IndInv, WaitFacts
<1>8. TypeOK' /\ DbFacts' /\ RecordsTellOriginal'
  BY <1>1, <1>3, <1>4, <1>5 DEF IndInv, TypeOK, DbFacts, RecordsTellOriginal, TellsOriginal, Entries, envVars, dbVars
<1>9. (~ abandoned => Awaited)'
  <2>1. \A v \in Workers : v # w /\ attempt[v].doing # "nothing" /\ ~ abandoned => attempt[v].job # j
    BY <1>1, WorkersAssumption DEF IndInv, Awaited
  <2> QED BY <1>1, <1>2, <1>4, <1>5, <2>1 DEF IndInv, Awaited, AttemptFacts, WellFormed
<1>10. (~ abandoned => RecordFacts)'
  BY <1>1, <1>2, <1>4, <1>5 DEF IndInv, RecordFacts, KnowsRecord, Entries, Waiting
<1>11. (~ abandoned => OutOfTheWayIsRecorded)'
  BY <1>1, <1>4, <1>5 DEF IndInv, OutOfTheWayIsRecorded, OutOfTheWay, PutsBack, Entries, envVars, dbVars
<1>12. (~ abandoned /\ OneJob => SuspendFacts)'
  BY <1>1, <1>2, <1>4, <1>5 DEF IndInv, SuspendFacts, WritesUndisturbed, OneJob, Entries, envVars, dbVars, Waiting
<1> QED BY <1>6, <1>7, <1>8, <1>9, <1>10, <1>11, <1>12 DEF IndInv

LEMMA EditJobStep ==
  ASSUME IndInv, NEW j \in Jobs, NEW ds \in SUBSET Destinations, EditJob(j, ds)
  PROVE  IndInv'
<1>1. /\ destinations' = [destinations EXCEPT ![j] = ds] /\ run[j].phase \in Over
      /\ UNCHANGED <<original, dbVars, record, run, attempt, abandoned, faults>>
  BY DEF EditJob
<1>2. TypeOK' /\ AttemptFacts' /\ WaitFacts' /\ DbFacts' /\ RecordsTellOriginal'
  BY <1>1 DEF IndInv, TypeOK, AttemptFacts, WellFormed, WaitFacts, DbFacts, RecordsTellOriginal,
              TellsOriginal, Entries, dbVars
<1>3. (~ abandoned => Awaited /\ RecordFacts /\ OutOfTheWayIsRecorded)'
  BY <1>1 DEF IndInv, Awaited, RecordFacts, KnowsRecord, OutOfTheWayIsRecorded, OutOfTheWay, PutsBack,
              Entries, dbVars
<1>4. (~ abandoned /\ OneJob => SuspendFacts)'
  <2> SUFFICES ASSUME ~ abandoned, OneJob PROVE SuspendFacts'
    BY <1>1 DEF OneJob
  <2>1. \A w \in Workers : attempt[w].doing = "nothing"
    <3> SUFFICES ASSUME NEW w \in Workers, attempt[w].doing # "nothing" PROVE FALSE
      OBVIOUS
    <3>1. attempt[w].job \in Jobs /\ run[attempt[w].job].phase \in Waiting
      BY AwaitedAlone
    <3> QED BY <1>1, <3>1 DEF OneJob, Waiting, Over
  <2>2. \A k \in Jobs : run[k].phase # "syncing"
    BY <1>1 DEF OneJob, Over
  <2> QED BY <1>1, <2>1, <2>2 DEF SuspendFacts, WritesUndisturbed
<1> QED BY <1>2, <1>3, <1>4 DEF IndInv

-----------------------------------------------------------------------------
LEMMA RunStepInv ==
  ASSUME IndInv, NEW j \in Jobs, BeginRun(j) \/ SyncEnds(j) \/ CancelRun(j) \/ TerminateRun(j)
  PROVE  IndInv'
<1>1. run[j] \in RunType /\ faults \in Nat
  BY DEF IndInv, TypeOK
<1>2. run[j].phase \notin Waiting => run[j].waits = None
  BY DEF IndInv, WaitFacts
<1>3. ASSUME NEW p \in Waiting \cup Over
      PROVE  /\ Enter(run[j], p) \in RunType /\ Enter(run[j], p).waits = None
             /\ Enter(run[j], p).phase = p
  BY <1>1 DEF Enter, RunType
<1>4. CASE BeginRun(j)
  <2> DEFINE e == Enter(run[j], "suspending")
             r == [e EXCEPT !.runs = @ + 1]
  <2>1. e \in RunType /\ e.waits = None /\ e.phase = "suspending"
    BY <1>3 DEF Waiting
  <2>2. run' = [run EXCEPT ![j] = r]
    BY <1>4 DEF BeginRun
  <2> HIDE DEF e
  <2>3. r \in RunType /\ r.waits = None /\ r.phase = "suspending"
    BY <2>1 DEF RunType
  <2> HIDE DEF r
  <2>4. abandoned' = (abandoned \/ run[j].waits # None)
    <3>1. run[j].waits = None /\ abandoned' = abandoned
      BY <1>2, <1>4 DEF BeginRun, Over, Waiting
    <3> QED BY <3>1 DEF IndInv, TypeOK
  <2>5. UNCHANGED <<envVars, dbVars, record, attempt>> /\ faults' \in Nat
    BY <1>1, <1>4 DEF BeginRun
  <2> QED BY <2>2, <2>3, <2>4, <2>5, RunMoves
<1>5. CASE SyncEnds(j)
  <2>1. PICK p \in {"restoring", "leaving"} : run' = [run EXCEPT ![j] = Enter(run[j], p)]
    BY <1>5 DEF SyncEnds
  <2>2. Enter(run[j], p) \in RunType /\ Enter(run[j], p).waits = None /\ Enter(run[j], p).phase = p
    BY <1>3 DEF Waiting
  <2>4. abandoned' = (abandoned \/ run[j].waits # None)
    <3>1. run[j].waits = None /\ abandoned' = abandoned
      BY <1>2, <1>5 DEF SyncEnds, Waiting
    <3> QED BY <3>1 DEF IndInv, TypeOK
  <2>5. UNCHANGED <<envVars, dbVars, record, attempt>> /\ faults' \in Nat
    BY <1>1, <1>5 DEF SyncEnds
  <2> QED BY <2>1, <2>2, <2>4, <2>5, RunMoves
<1>6. CASE CancelRun(j) \/ TerminateRun(j)
  <2>1. PICK p \in {"leaving", "terminated"} : run' = [run EXCEPT ![j] = Enter(run[j], p)]
    BY <1>6 DEF CancelRun, TerminateRun
  <2>2. Enter(run[j], p) \in RunType /\ Enter(run[j], p).waits = None /\ Enter(run[j], p).phase = p
    BY <1>3 DEF Waiting, Over
  <2>4. abandoned' = (abandoned \/ run[j].waits # None)
    BY <1>6 DEF CancelRun, TerminateRun
  <2>5. UNCHANGED <<envVars, dbVars, record, attempt>> /\ faults' \in Nat
    BY <1>1, <1>6 DEF CancelRun, TerminateRun, Fault
  <2> QED BY <2>1, <2>2, <2>4, <2>5, RunMoves
<1> QED BY <1>4, <1>5, <1>6

LEMMA ReturningStep ==
  ASSUME IndInv, NEW w \in Workers, SuspendReturns(w) \/ RestoreReturns(w) \/ AttemptFails(w)
  PROVE  IndInv'
<1>1. faults \in Nat /\ attempt[w].failed \in BOOLEAN
  BY DEF IndInv, TypeOK, AttemptType
<1>2. CASE SuspendReturns(w)
  <2>1. /\ attempt[w].doing = "suspend" /\ attempt[w].pc = "apply" /\ attempt[w].todo = {}
        /\ Returns(w, TRUE) /\ UNCHANGED <<envVars, dbVars, record, abandoned, faults>>
    BY <1>2 DEF SuspendReturns
  <2> QED BY <1>1, <2>1, ReturnsStep
<1>3. CASE RestoreReturns(w)
  <2> DEFINE ok == ~ attempt[w].failed
  <2>1. /\ attempt[w].doing = "restore" /\ attempt[w].pc = "end"
        /\ Returns(w, ok) /\ UNCHANGED <<envVars, dbVars, record, abandoned, faults>>
    BY <1>3 DEF RestoreReturns
  <2>2. ok \in BOOLEAN /\ (ok => ~ attempt[w].failed)
    OBVIOUS
  <2> HIDE DEF ok
  <2> QED BY <1>1, <2>1, <2>2, ReturnsStep
<1>4. CASE AttemptFails(w)
  <2>1. /\ attempt[w].doing # "nothing" /\ Returns(w, FALSE) /\ Fault
        /\ UNCHANGED <<envVars, dbVars, record, abandoned>>
    BY <1>4, Zenon DEF AttemptFails
  <2>2. faults' \in Nat
    BY <1>1, <2>1 DEF Fault
  <2> QED BY <2>1, <2>2, ReturnsStep
<1> QED BY <1>2, <1>3, <1>4

LEMMA NextInv == IndInv /\ [Next]_vars => IndInv'
<1> SUFFICES ASSUME IndInv, [Next]_vars PROVE IndInv'
  OBVIOUS
<1>1. CASE UNCHANGED vars
  BY <1>1 DEF vars, envVars, dbVars, IndInv, TypeOK, AttemptFacts, WellFormed, WaitFacts, DbFacts,
              RecordsTellOriginal, TellsOriginal, Awaited, RecordFacts, KnowsRecord,
              OutOfTheWayIsRecorded, OutOfTheWay, PutsBack, SuspendFacts, WritesUndisturbed, OneJob,
              Entries
<1>2. ASSUME NEW w \in Workers, AttemptStep(w) PROVE IndInv'
  BY <1>2, ReadToSuspendStep, ReadTriggersStep, StoreRecordStep, SuspendOneStep, ReadToRestoreStep,
     RestoreOneStep, RestoreStopsStep, StoreRemainingStep, ReturningStep DEF AttemptStep
<1>3. ASSUME NEW j \in Jobs, RunStep(j) PROVE IndInv'
  BY <1>3, RunStepInv, StartAttemptStep, EditJobStep DEF RunStep
<1> QED BY <1>1, <1>2, <1>3 DEF Next

(* The inductive invariant holds in every run of the activities.           *)
THEOREM Invariance == Spec => []IndInv
<1> QED BY InitInv, NextInv, PTL DEF Spec

(* The state is well typed, in every run, for all jobs and destinations.   *)
THEOREM TypeCorrect == Spec => []TypeOK
<1>1. IndInv => TypeOK
  BY DEF IndInv
<1> QED BY <1>1, Invariance, PTL

(* What is recorded of a trigger is its state before any run, whatever     *)
(* fails, is lost, canceled or terminated, and whatever the other jobs of  *)
(* its destination do.                                                     *)
THEOREM RecordsAreTrue == Spec => []RecordsTellOriginal
<1>1. IndInv => RecordsTellOriginal
  BY DEF IndInv
<1> QED BY <1>1, Invariance, PTL

(* Unless a run stops waiting for an attempt that goes on, a trigger is    *)
(* never out of the way without a record that puts it back.                *)
THEOREM NothingIsLost == Spec => []OutOfTheWayIsRecorded
<1>1. IndInv => OutOfTheWayIsRecorded
  BY DEF IndInv, OutOfTheWayIsRecorded
<1> QED BY <1>1, Invariance, PTL

(* And once every job's run has put its triggers back, all are as before.  *)
THEOREM AllAsBefore == Spec => []RestoredAsBefore
<1>1. IndInv => RestoredAsBefore
  <2> SUFFICES ASSUME IndInv, ~ abandoned, AllRestored PROVE db = original
    BY DEF RestoredAsBefore
  <2>1. db \in [Held -> Modes] /\ original \in [Held -> Modes]
    BY TriggersAssumption DEF IndInv, TypeOK
  <2>2. \A j \in Jobs : Entries(record[j]) = {}
    BY DEF IndInv, RecordFacts, AllRestored
  <2>3. \A x \in Held : db[x] = original[x]
    BY <2>2 DEF IndInv, OutOfTheWayIsRecorded, OutOfTheWay
  <2> QED BY <2>1, <2>3
<1> QED BY <1>1, Invariance, PTL

(* While the only job there is syncs, its destinations' triggers are out   *)
(* of the way.                                                             *)
THEOREM NothingFires == Spec => []WritesUndisturbed
<1>1. IndInv => WritesUndisturbed
  BY DEF IndInv, SuspendFacts, WritesUndisturbed
<1> QED BY <1>1, Invariance, PTL

-----------------------------------------------------------------------------
(* The places of the triggers, for one job whose steps do not fail.        *)

(* The one attempt there is, and what its job has come to.                 *)
LEMMA OnlyAttempt ==
  ASSUME IndInv, PlaceInv, OneJob, NEW w \in Workers, attempt[w].doing # "nothing"
  PROVE  /\ attempt[w].job \in Jobs /\ \A j \in Jobs : j = attempt[w].job
         /\ \A v \in Workers : v # w => attempt[v].doing = "nothing"
         /\ attempt[w] \in AttemptType /\ ~ attempt[w].failed
         /\ attempt[w].todo \subseteq Entries(attempt[w].recorded)
         /\ AttemptPlaces(attempt[w], record[attempt[w].job])
         /\ Listed(record[attempt[w].job]) /\ ~ abandoned
         /\ run[attempt[w].job].phase \in Waiting /\ run[attempt[w].job].waits = w /\ w # None
         /\ attempt[w].doing = Activity(run[attempt[w].job].phase)
<1>1. ~ abandoned /\ AttemptPlaces(attempt[w], record[attempt[w].job])
  BY DEF PlaceInv
<1>2. /\ attempt[w].job \in Jobs /\ run[attempt[w].job].waits = w
      /\ run[attempt[w].job].phase \in Waiting
      /\ attempt[w].doing = Activity(run[attempt[w].job].phase)
      /\ \A v \in Workers : v # w /\ attempt[v].doing # "nothing" => attempt[v].job # attempt[w].job
  BY <1>1, AwaitedAlone
<1>3. \A v \in Workers : attempt[v].doing # "nothing" => attempt[v].job \in Jobs
  BY DEF IndInv, AttemptFacts, WellFormed
<1>4. attempt[w] \in AttemptType /\ attempt[w].todo \subseteq Entries(attempt[w].recorded)
  BY DEF IndInv, TypeOK, AttemptFacts, WellFormed
<1> QED BY <1>1, <1>2, <1>3, <1>4, WorkersAssumption DEF OneJob, AttemptPlaces, PlaceInv

(* It takes a step, and nothing else does.                                 *)
LEMMA AttemptPlacesStep ==
  ASSUME IndInv, PlaceInv, OneJob, NEW w \in Workers, attempt[w].doing # "nothing",
         NEW j \in Jobs, j = attempt[w].job, NEW b \in AttemptType, Goes(w, b), b.job = j,
         abandoned' = abandoned, original' = original,
         PresentInPlace', Listed(record[j])', RunPlaces(run[j], record[j])',
         AttemptPlaces(attempt[w], record[j])'
  PROVE  PlaceInv'
<1>1. /\ \A k \in Jobs : k = j
      /\ \A v \in Workers : v # w => attempt[v].doing = "nothing"
      /\ ~ abandoned
  BY OnlyAttempt
<1>2. /\ attempt'[w] = b /\ \A v \in Workers : v # w => attempt'[v] = attempt[v]
  BY DEF Goes, IndInv, TypeOK
<1>3. \A k \in Jobs : Listed(record[k])' /\ RunPlaces(run[k], record[k])'
  <2> SUFFICES ASSUME NEW k \in Jobs PROVE Listed(record[k])' /\ RunPlaces(run[k], record[k])'
    OBVIOUS
  <2>1. k = j
    BY <1>1
  <2> QED BY <2>1
<1>4. ASSUME NEW v \in Workers, attempt'[v].doing # "nothing"
      PROVE  AttemptPlaces(attempt[v], record[attempt[v].job])'
  <2>1. v = w /\ attempt'[v].job = j
    BY <1>1, <1>2, <1>4
  <2> QED BY <2>1
<1> QED BY <1>1, <1>3, <1>4 DEF PlaceInv

(* Nothing is out of the way while no record says so.                      *)
LEMMA NothingOut ==
  ASSUME IndInv, ~ abandoned, \A j \in Jobs : Entries(record[j]) = {}
  PROVE  \A x \in Held : db[x] = original[x]
BY DEF IndInv, OutOfTheWayIsRecorded, OutOfTheWay

LEMMA EmptyIsListed ==
  ASSUME NEW r, Entries(r) = {} PROVE Listed(r) /\ AllOff(r)
BY DEF Listed, AllOff

(* The list of a destination joins those of others, whole and in order.    *)
LEMMA MergeIsListed ==
  ASSUME TypeOK, PresentInPlace, \A x \in Held : db[x] = original[x],
         NEW r \in Record, Listed(r), NEW d \in Destinations
  PROVE  /\ Listed(MergeFound(r, d))
         /\ Entries(MergeFound(r, d)) = Entries(r) \cup Found(d)
<1> DEFINE m == MergeFound(r, d)
<1>1. \A x \in Held :
         m[x] = IF x \in Found(d) \ Entries(r)
                THEN [mode |-> db[x],
                      after |-> {y \in Entries(r) : y[1] = d} \cup (before[x] \cap Found(d))]
                ELSE r[x]
  BY DEF MergeFound
<1> HIDE DEF m
<1>2. \A x \in Held : db[x] # "none"
  BY DEF TypeOK, Modes, Firing
<1>3. ASSUME NEW x \in Found(d) \ Entries(r)
      PROVE  /\ x \in Held /\ m[x].mode = db[x]
             /\ m[x].after = {y \in Entries(r) : y[1] = d} \cup (before[x] \cap Found(d))
  <2>1. x \in Held
    BY DEF Found
  <2>2. m[x] = [mode |-> db[x],
                after |-> {y \in Entries(r) : y[1] = d} \cup (before[x] \cap Found(d))]
    BY <1>1, <1>3, <2>1, Zenon
  <2> QED BY <2>1, <2>2
<1>4. \A x \in Held : x \notin Found(d) \ Entries(r) => m[x] = r[x]
  BY <1>1
<1>5. Entries(m) = Entries(r) \cup Found(d)
  BY <1>2, <1>3, <1>4 DEF Entries, Found
<1>6. ASSUME NEW x \in Entries(m), NEW y \in Held, x[1] = y[1], original[y] # "off"
      PROVE  y \in Entries(m)
  BY <1>5, <1>6 DEF Listed, Found
<1>7. ASSUME NEW x \in Entries(m), NEW y \in Entries(m), IsBefore(x, y)
      PROVE  x \in m[y].after
  <2>1. x[1] = y[1] /\ x \in Held /\ y \in Held
    BY <1>7 DEF IsBefore, Entries
  <2>2. CASE y \in Entries(r)
    <3>1. x \in Entries(r)
      <4>1. x \in Entries(r) \/ original[x] # "off"
        BY <1>5, <2>1 DEF Found
      <4> QED BY <2>1, <2>2, <4>1 DEF Listed
    <3>2. m[y] = r[y]
      BY <1>4, <2>1, <2>2
    <3> QED BY <1>7, <2>2, <3>1, <3>2 DEF Listed
  <2>3. CASE y \notin Entries(r)
    <3>1. y \in Found(d) \ Entries(r) /\ y[1] = d
      BY <1>5, <2>3 DEF Found
    <3>2. x \notin Entries(r) => x \in Found(d)
      BY <1>5
    <3>3. x \in Found(d) => x \in before[y]
      BY <1>7, <2>1, <3>1 DEF PresentInPlace, Found
    <3> QED BY <1>3, <2>1, <3>1, <3>2, <3>3
  <2> QED BY <2>2, <2>3
<1>8. Listed(m)
  BY <1>6, <1>7 DEF Listed
<1> QED BY <1>5, <1>8 DEF m

LEMMA PlacesReadToSuspend ==
  ASSUME IndInv, PlaceInv, OneJob, NEW w \in Workers, ReadToSuspend(w)
  PROVE  PlaceInv'
<1> DEFINE a == attempt[w]
           j == a.job
           b == [a EXCEPT !.recorded = record[j], !.dests = destinations[j],
                          !.toRead = destinations[j], !.pc = "merge"]
<1>1. /\ a.doing = "suspend" /\ a.pc = "read" /\ Goes(w, b)
      /\ UNCHANGED <<original, dbVars, record, run, abandoned>>
  BY DEF ReadToSuspend, envVars
<1>2. j \in Jobs /\ a \in AttemptType /\ ~ a.failed /\ Entries(record[j]) = {} /\ Listed(record[j])
      /\ PresentInPlace /\ RunPlaces(run[j], record[j])
  BY <1>1, OnlyAttempt DEF AttemptPlaces, PlaceInv
<1>3. record[j] \in Record /\ destinations[j] \in SUBSET Destinations
  BY <1>2 DEF IndInv, TypeOK
<1>4. /\ b \in AttemptType /\ b.job = j /\ b.doing = "suspend" /\ b.pc = "merge" /\ ~ b.failed
      /\ b.recorded = record[j] /\ b.toRead = b.dests
  BY <1>1, <1>2, <1>3 DEF AttemptType
<1> HIDE DEF b
<1>5. attempt'[w] = b
  BY <1>1 DEF Goes, IndInv, TypeOK
<1>6. PICK k \in Jobs : k = j
  BY <1>2
<1>7. PresentInPlace' /\ Listed(record[k])' /\ RunPlaces(run[k], record[k])'
  BY <1>1, <1>2, <1>6 DEF PresentInPlace, IsBefore, Listed, RunPlaces, AllOff, Entries, dbVars
<1>8. AttemptPlaces(attempt[w], record[k])'
  BY <1>1, <1>2, <1>4, <1>5, <1>6 DEF AttemptPlaces, Listed, IsBefore, Entries
<1> QED BY <1>1, <1>4, <1>6, <1>7, <1>8, AttemptPlacesStep

LEMMA PlacesReadTriggers ==
  ASSUME IndInv, PlaceInv, OneJob, NEW w \in Workers, NEW d \in Destinations, ReadTriggers(w, d)
  PROVE  PlaceInv'
<1> DEFINE a == attempt[w]
           j == a.job
           m == MergeFound(a.recorded, d)
           b == [a EXCEPT !.recorded = m, !.toRead = @ \ {d}]
<1>1. /\ a.doing = "suspend" /\ a.pc = "merge" /\ Goes(w, b) /\ d \in a.toRead
      /\ UNCHANGED <<original, dbVars, record, run, abandoned>>
  BY DEF ReadTriggers, envVars
<1>2. /\ j \in Jobs /\ a \in AttemptType /\ ~ a.failed /\ Entries(record[j]) = {}
      /\ \A k \in Jobs : k = j
      /\ Listed(record[j]) /\ Listed(a.recorded) /\ d \in a.dests /\ a.toRead \subseteq a.dests
      /\ \A x \in Entries(a.recorded) : x[1] \in a.dests
      /\ PresentInPlace /\ RunPlaces(run[j], record[j]) /\ a.recorded \in Record /\ ~ abandoned
  BY <1>1, OnlyAttempt DEF AttemptPlaces, PlaceInv, AttemptType
<1>3. Listed(m) /\ Entries(m) = Entries(a.recorded) \cup Found(d)
  <2>1. \A x \in Held : db[x] = original[x]
    <3>1. \A k \in Jobs : Entries(record[k]) = {}
      BY <1>2
    <3> QED BY <1>2, <3>1, NothingOut
  <2> QED BY <1>2, <2>1, MergeIsListed DEF IndInv
<1>4. m \in Record
  BY <1>2 DEF MergeFound, Record, Entry, Found, Entries, IndInv, TypeOK
<1>5. \A x \in Entries(m) : x[1] \in a.dests
  BY <1>2, <1>3 DEF Found
<1> HIDE DEF m
<1>6. /\ b \in AttemptType /\ b.job = j /\ b.doing = "suspend" /\ b.pc = "merge" /\ ~ b.failed
      /\ b.recorded = m /\ b.toRead \subseteq b.dests /\ b.dests = a.dests
  <2>1. b = [[a EXCEPT !.recorded = m] EXCEPT !.toRead = a.toRead \ {d}]
    BY <1>2 DEF AttemptType
  <2> QED BY <1>1, <1>2, <1>4, <2>1 DEF AttemptType
<1> HIDE DEF b
<1>7. attempt'[w] = b
  BY <1>1 DEF Goes, IndInv, TypeOK
<1>8. PICK k \in Jobs : k = j
  BY <1>2
<1>9. PresentInPlace' /\ Listed(record[k])' /\ RunPlaces(run[k], record[k])'
  BY <1>1, <1>2, <1>8 DEF PresentInPlace, IsBefore, Listed, RunPlaces, AllOff, Entries, dbVars
<1>10. AttemptPlaces(attempt[w], record[k])'
  <2>1. Listed(attempt[w].recorded)'
    BY <1>1, <1>3, <1>6, <1>7 DEF Listed, IsBefore, Entries
  <2> QED BY <1>1, <1>2, <1>5, <1>6, <1>7, <1>8, <2>1 DEF AttemptPlaces, Entries
<1> QED BY <1>1, <1>6, <1>8, <1>9, <1>10, AttemptPlacesStep

LEMMA PlacesStoreRecord ==
  ASSUME IndInv, PlaceInv, OneJob, NEW w \in Workers, StoreRecord(w)
  PROVE  PlaceInv'
<1> DEFINE a == attempt[w]
           j == a.job
           left == {x \in Entries(a.recorded) : x[1] \in a.dests}
           b == [a EXCEPT !.pc = "apply", !.todo = left]
<1>1. /\ a.doing = "suspend" /\ a.pc = "merge" /\ Goes(w, b)
      /\ record' = [record EXCEPT ![j] = a.recorded]
      /\ UNCHANGED <<original, dbVars, run, abandoned>>
  BY DEF StoreRecord, envVars
<1>2. /\ j \in Jobs /\ a \in AttemptType /\ ~ a.failed /\ Listed(a.recorded)
      /\ \A x \in Entries(a.recorded) : x[1] \in a.dests
      /\ PresentInPlace /\ run[j].phase = "suspending" /\ run[j].waits # None
  BY <1>1, OnlyAttempt DEF AttemptPlaces, PlaceInv, Activity, Waiting
<1>3. /\ b \in AttemptType /\ b.job = j /\ b.doing = "suspend" /\ b.pc = "apply" /\ ~ b.failed
      /\ b.todo = Entries(a.recorded)
  <2>1. left = Entries(a.recorded) /\ left \in SUBSET Held
    BY <1>2 DEF Entries
  <2> HIDE DEF left
  <2> QED BY <1>1, <1>2, <2>1 DEF AttemptType
<1> HIDE DEF b
<1>4. attempt'[w] = b
  BY <1>1 DEF Goes, IndInv, TypeOK
<1>5. PICK k \in Jobs : k = j
  BY <1>2
<1>6. record'[k] = a.recorded
  BY <1>1, <1>5 DEF IndInv, TypeOK
<1>7. PresentInPlace' /\ Listed(record[k])' /\ RunPlaces(run[k], record[k])'
  BY <1>1, <1>2, <1>5, <1>6 DEF PresentInPlace, IsBefore, Listed, RunPlaces, Entries, dbVars
<1>8. AttemptPlaces(attempt[w], record[k])'
  BY <1>3, <1>4, <1>6 DEF AttemptPlaces, Entries
<1> QED BY <1>1, <1>3, <1>5, <1>7, <1>8, AttemptPlacesStep

(* A trigger is taken away, of those that are left one fewer.              *)
LEMMA PlacesSuspendOne ==
  ASSUME IndInv, PlaceInv, OneJob, NEW w \in Workers, NEW x \in Held, SuspendOne(w, x)
  PROVE  PlaceInv'
<1> DEFINE a == attempt[w]
           j == a.job
           b == [a EXCEPT !.todo = @ \ {x}]
<1>1. /\ a.doing = "suspend" /\ a.pc = "apply" /\ Goes(w, b) /\ TakeAway(x)
      /\ UNCHANGED <<original, record, run, abandoned>>
  BY DEF SuspendOne, envVars
<1>2. /\ j \in Jobs /\ a \in AttemptType /\ ~ a.failed /\ Listed(record[j])
      /\ \A y \in Entries(record[j]) \ a.todo : db[y] = "off"
      /\ PresentInPlace /\ run[j].phase = "suspending" /\ run[j].waits # None
  BY <1>1, OnlyAttempt DEF AttemptPlaces, PlaceInv, Activity, Waiting
<1>3. /\ b \in AttemptType /\ b.job = j /\ b.doing = "suspend" /\ b.pc = "apply" /\ ~ b.failed
      /\ b.todo = a.todo \ {x}
  BY <1>1, <1>2 DEF AttemptType
<1> HIDE DEF b
<1>4. attempt'[w] = b
  BY <1>1 DEF Goes, IndInv, TypeOK
<1>5. /\ db'[x] = "off" /\ \A y \in Held : y # x => db'[y] = db[y]
      /\ \A y \in Held : before'[y] = IF x[1] \in MySQL
                                      THEN IF y = x THEN {} ELSE before[y] \ {x}
                                      ELSE before[y]
  BY <1>1 DEF TakeAway, IndInv, TypeOK
<1>6. PresentInPlace'
  <2> SUFFICES ASSUME NEW u \in Held, NEW v \in Held, IsBefore(u, v)',
                      u[1] \in MySQL => db'[u] # "off" /\ db'[v] # "off"
               PROVE  u \in before'[v]
    BY DEF PresentInPlace
  <2>1. IsBefore(u, v) /\ u[1] = v[1]
    BY <1>1 DEF IsBefore
  <2>2. u[1] \in MySQL => u # x /\ v # x
    BY <1>5
  <2>3. u[1] \in MySQL => db[u] # "off" /\ db[v] # "off"
    BY <1>5, <2>2
  <2>4. u \in before[v]
    BY <1>2, <2>1, <2>3 DEF PresentInPlace
  <2>5. x[1] \in MySQL => u # x /\ v # x
    BY <2>1, <2>2, <2>4
  <2> QED BY <1>5, <2>4, <2>5
<1>7. PICK k \in Jobs : k = j
  BY <1>2
<1>8. Listed(record[k])' /\ RunPlaces(run[k], record[k])'
  BY <1>1, <1>2, <1>7 DEF IsBefore, Listed, RunPlaces, Entries
<1>9. AttemptPlaces(attempt[w], record[k])'
  <2>1. \A y \in Entries(record[k]) \ b.todo : db'[y] = "off"
    BY <1>2, <1>3, <1>5, <1>7 DEF Entries
  <2> QED BY <1>1, <1>3, <1>4, <2>1 DEF AttemptPlaces, Entries
<1> QED BY <1>1, <1>3, <1>6, <1>7, <1>8, <1>9, AttemptPlacesStep

LEMMA PlacesReadToRestore ==
  ASSUME IndInv, PlaceInv, OneJob, NEW w \in Workers, ReadToRestore(w)
  PROVE  PlaceInv'
<1> DEFINE a == attempt[w]
           j == a.job
           to == IF Entries(record[j]) = {} THEN "end" ELSE "apply"
           b == [a EXCEPT !.recorded = record[j], !.todo = Entries(record[j]), !.pc = to]
<1>1. /\ a.doing = "restore" /\ a.pc = "read" /\ Goes(w, b)
      /\ UNCHANGED <<original, dbVars, record, run, abandoned>>
  BY DEF ReadToRestore, envVars
<1>2. /\ j \in Jobs /\ a \in AttemptType /\ ~ a.failed /\ Listed(record[j]) /\ AllOff(record[j])
      /\ PresentInPlace /\ RunPlaces(run[j], record[j])
  BY <1>1, OnlyAttempt DEF AttemptPlaces, PlaceInv
<1>3. record[j] \in Record /\ Entries(record[j]) \in SUBSET Held /\ to \in {"end", "apply"}
  BY <1>2 DEF IndInv, TypeOK, Entries
<1>4. /\ b \in AttemptType /\ b.job = j /\ b.doing = "restore" /\ b.pc \in {"end", "apply"}
      /\ ~ b.failed /\ b.todo = Entries(record[j])
  <2> HIDE DEF to
  <2> QED BY <1>1, <1>2, <1>3 DEF AttemptType
<1> HIDE DEF b
<1>5. attempt'[w] = b
  BY <1>1 DEF Goes, IndInv, TypeOK
<1>6. PICK k \in Jobs : k = j
  BY <1>2
<1>7. PresentInPlace' /\ Listed(record[k])' /\ RunPlaces(run[k], record[k])'
  BY <1>1, <1>2, <1>6 DEF PresentInPlace, IsBefore, Listed, RunPlaces, AllOff, Entries, dbVars
<1>8. AttemptPlaces(attempt[w], record[k])'
  BY <1>1, <1>2, <1>4, <1>5, <1>6 DEF AttemptPlaces, AllOff, Entries, dbVars
<1> QED BY <1>1, <1>4, <1>6, <1>7, <1>8, AttemptPlacesStep

(* A trigger is put back behind those that are there, and no trigger that  *)
(* is there belongs behind it: the ones behind it in the list are left to  *)
(* do, so they are still off.                                              *)
LEMMA PlacesRestoreOne ==
  ASSUME IndInv, PlaceInv, OneJob, NEW w \in Workers, NEW x \in Held, RestoreOne(w, x)
  PROVE  PlaceInv'
<1> DEFINE a == attempt[w]
           j == a.job
           to == IF a.todo = {x} THEN "store" ELSE "apply"
           b == [a EXCEPT !.todo = @ \ {x}, !.pc = to]
<1>1. /\ a.doing = "restore" /\ a.pc = "apply" /\ Goes(w, b)
      /\ x \in a.todo /\ a.recorded[x].after \cap a.todo = {}
      /\ PutBack(x, a.recorded[x].mode)
      /\ UNCHANGED <<original, record, run, abandoned>>
  BY DEF RestoreOne, Following, envVars
<1>2. /\ j \in Jobs /\ a \in AttemptType /\ ~ a.failed /\ Listed(record[j]) /\ ~ abandoned
      /\ a.todo \subseteq Entries(a.recorded)
      /\ \A y \in a.todo : db[y] = "off"
      /\ \A y \in a.todo, z \in Entries(record[j]) \ a.todo : ~ IsBefore(y, z)
      /\ PresentInPlace /\ run[j].phase \in {"restoring", "leaving"} /\ run[j].waits # None
  BY <1>1, OnlyAttempt DEF AttemptPlaces, PlaceInv, Activity, Waiting
<1>3. record[j] = a.recorded
  BY <1>1, <1>2 DEF IndInv, RecordFacts, KnowsRecord
<1>4. a.todo \ {x} \in SUBSET Held /\ to \in {"store", "apply"}
  BY <1>2 DEF Entries
<1>5. /\ b \in AttemptType /\ b.job = j /\ b.doing = "restore" /\ b.pc \in {"store", "apply"}
      /\ ~ b.failed /\ b.todo = a.todo \ {x}
  <2> HIDE DEF to
  <2>1. b = [[a EXCEPT !.todo = a.todo \ {x}] EXCEPT !.pc = to]
    BY <1>2 DEF AttemptType
  <2> QED BY <1>1, <1>2, <1>4, <2>1 DEF AttemptType
<1> HIDE DEF b
<1>6. attempt'[w] = b
  BY <1>1 DEF Goes, IndInv, TypeOK
<1>7. /\ \A y \in Held : y # x => db'[y] = db[y] /\ before'[y] = before[y]
      /\ x[1] \notin MySQL => before' = before
      /\ x[1] \in MySQL => before'[x] = Found(x[1])
  <2>1. db[x] = "off"
    BY <1>1, <1>2
  <2> QED BY <1>1, <2>1 DEF PutBack, dbVars, IndInv, TypeOK
<1>8. PresentInPlace'
  <2> SUFFICES ASSUME NEW u \in Held, NEW v \in Held, IsBefore(u, v)',
                      u[1] \in MySQL => db'[u] # "off" /\ db'[v] # "off"
               PROVE  u \in before'[v]
    BY DEF PresentInPlace
  <2>1. /\ IsBefore(u, v) /\ u[1] = v[1]
        /\ v[1] \in MySQL => original[v] # "off"
    BY <1>1 DEF IsBefore
  <2>2. u # v
    <3>1. u[2] \in Nat /\ u[2] < v[2]
      BY <2>1, TriggersAssumption DEF IsBefore, Held
    <3>2. ~ (u[2] < u[2])
      BY <3>1
    <3> QED BY <3>1, <3>2
  <2>3. CASE x[1] \notin MySQL
    <3>1. u[1] \in MySQL => u # x /\ v # x
      BY <2>1, <2>3
    <3>2. u[1] \in MySQL => db[u] # "off" /\ db[v] # "off"
      BY <1>7, <3>1
    <3> QED BY <1>2, <1>7, <2>1, <2>3, <3>2 DEF PresentInPlace
  <2>4. CASE x[1] \in MySQL /\ v = x
    <3>1. db[u] # "off" /\ u[1] = x[1]
      BY <1>7, <2>1, <2>2, <2>4
    <3> QED BY <1>7, <2>4, <3>1 DEF Found
  <2>5. CASE x[1] \in MySQL /\ v # x /\ u = x
    <3>1. db[v] # "off"
      BY <1>7, <2>5
    <3>2. v \in Entries(record[j])
      BY <1>1, <1>2, <1>3, <2>1, <2>5 DEF Listed
    <3>3. v \notin a.todo
      BY <1>2, <3>1
    <3> QED BY <1>1, <1>2, <2>1, <2>5, <3>2, <3>3
  <2>6. CASE x[1] \in MySQL /\ v # x /\ u # x
    BY <1>2, <1>7, <2>1, <2>6 DEF PresentInPlace
  <2> QED BY <2>3, <2>4, <2>5, <2>6
<1>9. PICK k \in Jobs : k = j
  BY <1>2
<1>10. Listed(record[k])' /\ RunPlaces(run[k], record[k])'
  BY <1>1, <1>2, <1>9 DEF IsBefore, Listed, RunPlaces, Entries
<1>11. AttemptPlaces(attempt[w], record[k])'
  <2>1. \A y \in b.todo : db'[y] = "off"
    BY <1>2, <1>4, <1>5, <1>7
  <2>2. ASSUME NEW y \in b.todo, NEW z \in Entries(record[j]) \ b.todo PROVE ~ IsBefore(y, z)
    <3>1. CASE z = x
      <4>1. y \in Entries(record[j]) /\ y \notin record[j][x].after
        BY <1>1, <1>2, <1>3, <1>5
      <4> QED BY <1>2, <3>1, <4>1 DEF Listed
    <3>2. CASE z # x
      BY <1>2, <1>5, <3>2
    <3> QED BY <3>1, <3>2
  <2>3. \A y \in b.todo, z \in Entries(record'[k]) \ b.todo : ~ IsBefore(y, z)'
    BY <1>1, <1>9, <2>2 DEF IsBefore
  <2> QED BY <1>5, <1>6, <2>1, <2>3 DEF AttemptPlaces, Entries
<1> QED BY <1>1, <1>5, <1>8, <1>9, <1>10, <1>11, AttemptPlacesStep

(* Every trigger is back: nothing remains to be recorded.                  *)
LEMMA PlacesStoreRemaining ==
  ASSUME IndInv, PlaceInv, OneJob, NEW w \in Workers, StoreRemaining(w)
  PROVE  PlaceInv'
<1> DEFINE a == attempt[w]
           j == a.job
           rest == [x \in Held |->
                      IF x \in a.todo THEN [a.recorded[x] EXCEPT !.after = @ \cap a.todo]
                                      ELSE NoEntry]
           b == [a EXCEPT !.pc = "end"]
<1>1. /\ a.doing = "restore" /\ a.pc = "store" /\ Goes(w, b)
      /\ record' = [record EXCEPT ![j] = rest]
      /\ UNCHANGED <<original, dbVars, run, abandoned>>
  BY DEF StoreRemaining, envVars
<1>2. /\ j \in Jobs /\ a \in AttemptType /\ ~ a.failed
      /\ PresentInPlace /\ run[j].phase \in {"restoring", "leaving"} /\ run[j].waits # None
  BY <1>1, OnlyAttempt DEF PlaceInv, Activity, Waiting
<1>3. a.todo = {}
  BY <1>1, <1>2 DEF IndInv, AttemptFacts, WellFormed
<1>4. Entries(rest) = {}
  BY <1>3 DEF Entries, NoEntry
<1> HIDE DEF rest
<1>5. /\ b \in AttemptType /\ b.job = j /\ b.doing = "restore" /\ b.pc = "end" /\ ~ b.failed
  BY <1>1, <1>2 DEF AttemptType
<1> HIDE DEF b
<1>6. attempt'[w] = b
  BY <1>1 DEF Goes, IndInv, TypeOK
<1>7. PICK k \in Jobs : k = j
  BY <1>2
<1>8. record'[k] = rest
  BY <1>1, <1>7 DEF IndInv, TypeOK
<1>9. PresentInPlace' /\ Listed(record[k])' /\ RunPlaces(run[k], record[k])'
  <2>1. PresentInPlace'
    BY <1>1, <1>2 DEF PresentInPlace, IsBefore, dbVars
  <2>2. Listed(record[k])'
    BY <1>4, <1>8 DEF Listed, Entries
  <2>3. RunPlaces(run[k], record[k])'
    BY <1>1, <1>2, <1>7 DEF RunPlaces
  <2> QED BY <2>1, <2>2, <2>3
<1>10. AttemptPlaces(attempt[w], record[k])'
  BY <1>5, <1>6 DEF AttemptPlaces
<1> QED BY <1>1, <1>5, <1>7, <1>9, <1>10, AttemptPlacesStep

(* A step that leaves the triggers, the records and the attempts alone.    *)
LEMMA PlacesRunMoves ==
  ASSUME IndInv, PlaceInv, OneJob, NEW j \in Jobs, RunPlaces(run'[j], record[j]),
         UNCHANGED <<original, dbVars, record, attempt, abandoned>>
  PROVE  PlaceInv'
<1>1. \A k \in Jobs : k = j
  BY DEF OneJob
<1>2. PresentInPlace' /\ ~ abandoned'
  BY DEF PlaceInv, PresentInPlace, IsBefore, dbVars
<1>3. \A k \in Jobs : Listed(record[k])' /\ RunPlaces(run[k], record[k])'
  BY <1>1 DEF PlaceInv, Listed, IsBefore, RunPlaces, AllOff, Entries, dbVars
<1>4. ASSUME NEW w \in Workers, attempt'[w].doing # "nothing"
      PROVE  AttemptPlaces(attempt[w], record[attempt[w].job])'
  <2>1. AttemptPlaces(attempt[w], record[attempt[w].job])
    BY <1>4 DEF PlaceInv
  <2> QED BY <2>1 DEF AttemptPlaces, Listed, IsBefore, AllOff, Entries, dbVars
<1> QED BY <1>2, <1>3, <1>4 DEF PlaceInv

LEMMA PlacesRunStep ==
  ASSUME IndInv, PlaceInv, OneJob, NEW j \in Jobs, BeginRun(j) \/ SyncEnds(j)
  PROVE  PlaceInv'
<1>1. /\ run[j] \in RunType /\ run \in [Jobs -> RunType] /\ RunPlaces(run[j], record[j])
  BY DEF IndInv, TypeOK, PlaceInv
<1>2. ASSUME NEW p PROVE Enter(run[j], p).waits = None /\ Enter(run[j], p).phase = p
  BY <1>1 DEF Enter, RunType
<1>3. CASE BeginRun(j)
  <2> DEFINE e == Enter(run[j], "suspending")
             r == [e EXCEPT !.runs = @ + 1]
  <2>1. e.waits = None /\ e.phase = "suspending" /\ e \in RunType
    BY <1>1, <1>2 DEF Enter, RunType, Waiting
  <2>2. run' = [run EXCEPT ![j] = r] /\ run[j].phase \in Over
    BY <1>3 DEF BeginRun
  <2>3. r.waits = None /\ r.phase = "suspending"
    BY <2>1 DEF RunType
  <2> HIDE DEF r
  <2>4. Entries(record[j]) = {}
    BY <1>1, <2>2 DEF RunPlaces, Over
  <2>5. RunPlaces(run'[j], record[j])
    BY <1>1, <2>2, <2>3, <2>4 DEF RunPlaces
  <2> QED BY <1>3, <2>5, PlacesRunMoves DEF BeginRun, envVars
<1>4. CASE SyncEnds(j)
  <2>1. PICK p \in {"restoring", "leaving"} : run' = [run EXCEPT ![j] = Enter(run[j], p)]
    BY <1>4 DEF SyncEnds
  <2>2. run'[j] = Enter(run[j], p)
    BY <1>1, <2>1
  <2>3. AllOff(record[j])
    BY <1>1, <1>4 DEF RunPlaces, SyncEnds
  <2>4. RunPlaces(run'[j], record[j])
    BY <1>2, <2>2, <2>3 DEF RunPlaces
  <2> QED BY <1>4, <2>4, PlacesRunMoves DEF SyncEnds, envVars
<1> QED BY <1>3, <1>4

LEMMA PlacesEditJob ==
  ASSUME IndInv, PlaceInv, OneJob, NEW j \in Jobs, NEW ds, EditJob(j, ds)
  PROVE  PlaceInv'
<1>1. run' = run /\ UNCHANGED <<original, dbVars, record, attempt, abandoned>>
  BY DEF EditJob
<1>2. RunPlaces(run'[j], record[j])
  BY <1>1 DEF PlaceInv
<1> QED BY <1>1, <1>2, PlacesRunMoves

LEMMA PlacesStartAttempt ==
  ASSUME IndInv, PlaceInv, OneJob, NEW j \in Jobs, NEW w \in Workers, StartAttempt(j, w)
  PROVE  PlaceInv'
<1> DEFINE b == Started(j, Activity(run[j].phase))
<1>1. /\ run[j].phase \in Waiting /\ run[j].waits = None /\ Goes(w, b)
      /\ run' = [run EXCEPT ![j].waits = w, ![j].tries = @ + 1]
      /\ UNCHANGED <<original, dbVars, record, abandoned>>
  BY DEF StartAttempt, envVars
<1>2. /\ \A k \in Jobs : k = j
      /\ ~ abandoned /\ PresentInPlace /\ Listed(record[j]) /\ RunPlaces(run[j], record[j])
      /\ w # None
  BY WorkersAssumption DEF OneJob, PlaceInv
<1>3. \A v \in Workers : attempt[v].doing = "nothing"
  <2> SUFFICES ASSUME NEW v \in Workers, attempt[v].doing # "nothing" PROVE FALSE
    OBVIOUS
  <2>1. attempt[v].job = j /\ run[attempt[v].job].waits = v
    BY <1>2, AwaitedAlone
  <2> QED BY <1>1, <2>1, WorkersAssumption
<1>4. /\ b.job = j /\ b.pc = "read" /\ b.doing = Activity(run[j].phase) /\ ~ b.failed
  BY DEF Started, Idle
<1> HIDE DEF b
<1>5. /\ attempt'[w] = b /\ \A v \in Workers : v # w => attempt'[v] = attempt[v]
  BY <1>1 DEF Goes, IndInv, TypeOK
<1>6. run'[j].waits = w /\ run'[j].phase = run[j].phase
  BY <1>1 DEF IndInv, TypeOK, RunType
<1>7. PresentInPlace' /\ ~ abandoned'
  BY <1>1, <1>2 DEF PresentInPlace, IsBefore, dbVars
<1>8. ASSUME NEW k \in Jobs PROVE Listed(record[k])' /\ RunPlaces(run[k], record[k])'
  <2>1. Listed(record[k])'
    BY <1>1, <1>2 DEF Listed, IsBefore, Entries
  <2>2. RunPlaces(run[k], record[k])'
    BY <1>1, <1>2, <1>6 DEF RunPlaces, Waiting
  <2> QED BY <2>1, <2>2
<1>9. ASSUME NEW v \in Workers, attempt'[v].doing # "nothing"
      PROVE  AttemptPlaces(attempt[v], record[attempt[v].job])'
  <2>1. attempt'[v] = b
    BY <1>3, <1>5, <1>9
  <2>2. b.doing = "suspend" => Entries(record[j]) = {}
    BY <1>1, <1>2, <1>4 DEF RunPlaces, Activity, Waiting
  <2>3. b.doing = "restore" => AllOff(record[j])
    BY <1>1, <1>2, <1>4 DEF RunPlaces, Activity, Waiting
  <2> QED BY <1>1, <1>4, <2>1, <2>2, <2>3 DEF AttemptPlaces, AllOff, Entries, dbVars
<1> QED BY <1>7, <1>8, <1>9 DEF PlaceInv

(* The attempt is through, and its run goes on.                            *)
LEMMA PlacesReturn ==
  ASSUME IndInv, PlaceInv, OneJob, NEW w \in Workers, attempt[w].doing # "nothing",
         Returns(w, TRUE), UNCHANGED <<original, dbVars, record, abandoned>>,
         RunPlaces(Enter(run[attempt[w].job], OnSuccess[run[attempt[w].job].phase]),
                   record[attempt[w].job])
  PROVE  PlaceInv'
<1> DEFINE j == attempt[w].job
<1>1. /\ j \in Jobs /\ \A k \in Jobs : k = j
      /\ \A v \in Workers : v # w => attempt[v].doing = "nothing"
      /\ run[j].waits = w /\ ~ abandoned
  BY OnlyAttempt
<1>2. /\ attempt'[w] = Idle /\ \A v \in Workers : v # w => attempt'[v] = attempt[v]
      /\ Idle.doing = "nothing"
  BY DEF Returns, IndInv, TypeOK, Idle
<1>3. run'[j] = Enter(run[j], OnSuccess[run[j].phase])
  BY <1>1 DEF Returns, AfterAttempt
<1>4. PresentInPlace' /\ ~ abandoned'
  BY <1>1 DEF PlaceInv, PresentInPlace, IsBefore, dbVars
<1>5. \A k \in Jobs : Listed(record[k])' /\ RunPlaces(run[k], record[k])'
  BY <1>1, <1>3 DEF PlaceInv, Listed, IsBefore, RunPlaces, AllOff, Entries, dbVars
<1>6. \A v \in Workers : attempt'[v].doing = "nothing"
  BY <1>1, <1>2
<1> QED BY <1>4, <1>5, <1>6 DEF PlaceInv

LEMMA PlacesReturns ==
  ASSUME IndInv, PlaceInv, OneJob, NEW w \in Workers, SuspendReturns(w) \/ RestoreReturns(w)
  PROVE  PlaceInv'
<1> DEFINE a == attempt[w]
           j == a.job
<1>1. a.doing # "nothing"
  BY DEF SuspendReturns, RestoreReturns
<1>2. /\ j \in Jobs /\ a \in AttemptType /\ ~ a.failed /\ AttemptPlaces(a, record[j])
      /\ run[j].phase \in Waiting /\ a.doing = Activity(run[j].phase) /\ ~ abandoned
  BY <1>1, OnlyAttempt
<1>3. run[j] \in RunType
  BY <1>2 DEF IndInv, TypeOK
<1>4. ASSUME NEW p PROVE Enter(run[j], p).waits = None /\ Enter(run[j], p).phase = p
  BY <1>3 DEF Enter, RunType
<1>5. CASE SuspendReturns(w)
  <2>1. /\ a.doing = "suspend" /\ a.pc = "apply" /\ a.todo = {} /\ Returns(w, TRUE)
        /\ UNCHANGED <<original, dbVars, record, abandoned>>
    BY <1>5 DEF SuspendReturns, envVars
  <2>2. run[j].phase = "suspending"
    BY <1>2, <2>1 DEF Activity, Waiting
  <2>3. AllOff(record[j])
    BY <1>2, <2>1 DEF AttemptPlaces, AllOff
  <2>4. OnSuccess[run[j].phase] = "syncing"
    BY <2>2 DEF OnSuccess
  <2>5. RunPlaces(Enter(run[j], OnSuccess[run[j].phase]), record[j])
    BY <1>4, <2>3, <2>4 DEF RunPlaces
  <2> QED BY <1>1, <2>1, <2>5, PlacesReturn
<1>6. CASE RestoreReturns(w)
  <2>1. /\ a.doing = "restore" /\ a.pc = "end" /\ Returns(w, TRUE)
        /\ UNCHANGED <<original, dbVars, record, abandoned>>
    <3>1. Returns(w, ~ a.failed) /\ ~ a.failed = TRUE
      BY <1>2, <1>6 DEF RestoreReturns
    <3>2. Returns(w, TRUE)
      BY <3>1
    <3> QED BY <1>6, <3>2 DEF RestoreReturns, envVars
  <2>2. run[j].phase \in {"restoring", "leaving"}
    BY <1>2, <2>1 DEF Activity, Waiting
  <2>3. Entries(record[j]) = {}
    BY <1>2, <2>1 DEF IndInv, RecordFacts, KnowsRecord
  <2>4. OnSuccess[run[j].phase] \in {"restored", "left"}
    BY <2>2 DEF OnSuccess
  <2>5. RunPlaces(Enter(run[j], OnSuccess[run[j].phase]), record[j])
    BY <1>4, <2>3, <2>4 DEF RunPlaces, AllOff
  <2> QED BY <1>1, <2>1, <2>5, PlacesReturn
<1> QED BY <1>5, <1>6

LEMMA PlacesInit == Init => PlacesIfWhole
<1> SUFFICES ASSUME Init, OneJob PROVE PlaceInv
  BY DEF PlacesIfWhole
<1>1. ~ abandoned /\ \A w \in Workers : attempt[w].doing = "nothing"
  BY DEF Init, Idle
<1>2. PresentInPlace
  BY DEF Init, PresentInPlace
<1>3. Entries(EmptyRecord) = {}
  BY DEF Entries, EmptyRecord, NoEntry
<1>4. ASSUME NEW j \in Jobs PROVE Listed(record[j]) /\ RunPlaces(run[j], record[j])
  <2>1. record[j] = EmptyRecord /\ run[j].phase = "none"
    BY DEF Init
  <2> QED BY <1>3, <2>1, EmptyIsListed DEF RunPlaces
<1> QED BY <1>1, <1>2, <1>4 DEF PlaceInv

LEMMA PlacesNext == IndInv /\ PlacesIfWhole /\ [Next]_vars => PlacesIfWhole'
<1> SUFFICES ASSUME IndInv, PlacesIfWhole, [Next]_vars, OneJob, faults' = 0 PROVE PlaceInv'
  <2>1. OneJob' = OneJob
    BY DEF OneJob
  <2> QED BY <2>1 DEF PlacesIfWhole
<1>1. faults \in Nat
  BY DEF IndInv, TypeOK
<1>2. ~ Fault
  BY <1>1 DEF Fault
<1>3. faults = 0 => PlaceInv
  BY DEF PlacesIfWhole
<1>4. CASE UNCHANGED vars
  BY <1>3, <1>4 DEF vars, envVars, dbVars, PlaceInv, PresentInPlace, IsBefore, Listed, RunPlaces,
                    AttemptPlaces, AllOff, Entries
<1>5. ASSUME NEW w \in Workers, AttemptStep(w) PROVE PlaceInv'
  <2>1. CASE faults' = faults
    <3>1. PlaceInv
      BY <1>3, <2>1
    <3>2. ~ RestoreStops(w) /\ ~ AttemptFails(w)
      BY <1>2, Zenon DEF RestoreStops, AttemptFails
    <3> QED BY <1>5, <3>1, <3>2, PlacesReadToSuspend, PlacesReadTriggers, PlacesStoreRecord,
               PlacesSuspendOne, PlacesReadToRestore, PlacesRestoreOne, PlacesStoreRemaining,
               PlacesReturns DEF AttemptStep
  <2>2. CASE faults' # faults
    BY <1>2, <1>5, <2>2, Zenon DEF AttemptStep, ReadToSuspend, ReadTriggers, StoreRecord,
       SuspendOne, SuspendReturns, ReadToRestore, RestoreOne, RestoreStops, StoreRemaining,
       RestoreReturns, AttemptFails
  <2> QED BY <2>1, <2>2
<1>6. ASSUME NEW j \in Jobs, RunStep(j) PROVE PlaceInv'
  <2>1. ~ CancelRun(j) /\ ~ TerminateRun(j)
    BY <1>2 DEF CancelRun, TerminateRun
  <2>2. PlaceInv
    <3>1. faults' = faults
      BY <1>6, <2>1 DEF RunStep, BeginRun, SyncEnds, StartAttempt, EditJob
    <3> QED BY <1>3, <3>1
  <2> QED BY <1>6, <2>1, <2>2, PlacesRunStep, PlacesStartAttempt, PlacesEditJob DEF RunStep
<1> QED BY <1>4, <1>5, <1>6 DEF Next

(* MySQL's triggers come back in the places they had: for one job none of  *)
(* whose steps failed, once its runs have restored, each trigger fires     *)
(* after those it fired after before.                                      *)
THEOREM PlacesAreKept == Spec => []PlacesKeptIfWhole
<1>1. IndInv /\ PlacesIfWhole => PlacesKeptIfWhole
  <2> SUFFICES ASSUME IndInv, PlaceInv, AllRestored PROVE PlacesKept
    BY DEF PlacesIfWhole, PlacesKeptIfWhole
  <2>1. ~ abandoned /\ PresentInPlace
    BY DEF PlaceInv
  <2>2. \A j \in Jobs : Entries(record[j]) = {}
    BY <2>1 DEF IndInv, RecordFacts, AllRestored
  <2>3. \A x \in Held : db[x] = original[x]
    BY <2>1, <2>2, NothingOut
  <2>4. \A x, y \in Held : IsBefore(x, y) /\ x[1] \in MySQL => db[x] # "off" /\ db[y] # "off"
    BY <2>3 DEF IsBefore
  <2> QED BY <2>1, <2>4 DEF PlacesKept, PresentInPlace
<1>2. Spec => []PlacesIfWhole
  BY PlacesInit, PlacesNext, Invariance, PTL DEF Spec
<1> QED BY <1>1, <1>2, Invariance, PTL
=============================================================================
