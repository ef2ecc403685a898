------------------------- MODULE SyncActivityProofs -------------------------
(***************************************************************************)
(* What an attempt that succeeds has done, and that neither the monitor    *)
(* nor the runner ends with its work undone, but for a stop that panicked; *)
(* for a channel of any size, with panics or without.                      *)
(***************************************************************************)
EXTENDS SyncActivity, TLAPS

USE StopRoomAssumption, MayPanicAssumption

LEMMA InitHolds ==
    ASSUME Init PROVE IndInv
<1>1. /\ canceled \in BOOLEAN /\ signaled \in BOOLEAN
      /\ shared \in BOOLEAN /\ running \in BOOLEAN /\ stopAsked \in BOOLEAN
      /\ stopLost \in BOOLEAN /\ ~signaled /\ ~stopLost
  BY Zenon DEF Init
<1>2. /\ main = "setup" /\ monitor = "watch" /\ runner = "none"
      /\ stops = 0 /\ done = "none" /\ result = "none" /\ stream = "none"
  BY DEF Init
<1> QED
  BY <1>1, <1>2
     DEF IndInv, TypeOK, StreamFacts, CloseFacts, OkFacts, SignalFacts,
         EndsAnswered, EndsStopped, Returned, Live, BeforeRun

LEMMA MainKeeps ==
    ASSUME IndInv, Main PROVE IndInv'
<1> USE DEF IndInv, TypeOK, StreamFacts, CloseFacts, OkFacts, SignalFacts,
            EndsAnswered, EndsStopped, Returned, Live, BeforeRun, adapter, history
<1>1. CASE SetupFails
  BY <1>1 DEF SetupFails
<1>2. CASE AthanorRuns
  BY <1>2 DEF AthanorRuns
<1>3. CASE StartStream
  BY <1>3 DEF StartStream
<1>4. CASE TakeResult
  BY <1>4 DEF TakeResult
<1> QED BY <1>1, <1>2, <1>3, <1>4 DEF Main

LEMMA CancelKeeps ==
    ASSUME IndInv, Cancel PROVE IndInv'
BY DEF IndInv, TypeOK, StreamFacts, CloseFacts, OkFacts, SignalFacts,
       EndsAnswered, EndsStopped, Returned, Live, BeforeRun, adapter, history, Cancel

LEMMA MonitorKeeps ==
    ASSUME IndInv, Monitor PROVE IndInv'
<1> USE DEF IndInv, TypeOK, StreamFacts, CloseFacts, OkFacts, SignalFacts,
            EndsAnswered, EndsStopped, Returned, Live, BeforeRun, adapter, history
<1>1. CASE HearStop
  BY <1>1 DEF HearStop
<1>2. CASE HearCancel
  BY <1>2 DEF HearCancel
<1>3. CASE HearDone
  BY <1>3 DEF HearDone, Outcome
<1>4. CASE MonitorAsks
  BY <1>4 DEF MonitorAsks, Asked
<1>5. CASE MonitorHalts
  BY <1>5 DEF MonitorHalts, Halted
<1>6. CASE MonitorAnswers
  BY <1>6 DEF MonitorAnswers
<1>7. CASE MonitorPanics
  BY <1>7 DEF MonitorPanics
<1> QED BY <1>1, <1>2, <1>3, <1>4, <1>5, <1>6, <1>7 DEF Monitor

LEMMA RunnerKeeps ==
    ASSUME IndInv, Runner PROVE IndInv'
<1> USE DEF IndInv, TypeOK, StreamFacts, CloseFacts, OkFacts, SignalFacts,
            EndsAnswered, EndsStopped, Returned, Live, BeforeRun, adapter, history
<1>1. CASE CheckContext
  BY <1>1 DEF CheckContext
<1>2. CASE EnterRun
  <2>1. /\ running' \in BOOLEAN /\ stopAsked' \in BOOLEAN
        /\ shared' \in BOOLEAN /\ canceled' \in BOOLEAN /\ signaled' \in BOOLEAN
        /\ stopLost' \in BOOLEAN /\ (stopLost' <=> stopLost)
        /\ stopAsked \/ running'
    BY <1>2, Zenon DEF EnterRun
  <2>2. /\ runner = "enter"
        /\ runner' = IF stopAsked THEN "stopping" ELSE "start"
        /\ UNCHANGED <<main, monitor, stops, done, result, stream, signaled>>
    BY <1>2 DEF EnterRun
  <2> QED
    BY <2>1, <2>2
<1>3. CASE StreamStarts
  BY <1>3 DEF StreamStarts
<1>4. CASE RunReturns
  BY <1>4 DEF RunReturns
<1>5. CASE RunFails
  BY <1>5 DEF RunFails
<1>6. CASE StopFailed
  BY <1>6 DEF StopFailed, Asked
<1>7. CASE StopFailedHalts
  BY <1>7 DEF StopFailedHalts, Halted
<1>8. CASE StopFailedPanics
  <2>1. stopLost' /\ stopLost' \in BOOLEAN /\ MayPanic
    BY <1>8, Zenon DEF StopFailedPanics
  <2>2. /\ runner = "halting" /\ runner' = "failed"
        /\ UNCHANGED <<main, canceled, monitor, stops, done, result, adapter, stream, signaled>>
    BY <1>8 DEF StopFailedPanics
  <2> QED
    BY <2>1, <2>2
<1>9. CASE SendDone
  BY <1>9 DEF SendDone
<1> QED BY <1>1, <1>2, <1>3, <1>4, <1>5, <1>6, <1>7, <1>8, <1>9 DEF Runner

LEMMA StreamKeeps ==
    ASSUME IndInv, Stream PROVE IndInv'
<1> USE DEF IndInv, TypeOK, StreamFacts, CloseFacts, OkFacts, SignalFacts,
            EndsAnswered, EndsStopped, Returned, Live, BeforeRun, adapter, history
<1>1. CASE SignalStop
  BY <1>1 DEF SignalStop
<1>2. CASE Drain
  BY <1>2 DEF Drain
<1>3. CASE Close
  BY <1>3 DEF Close
<1> QED BY <1>1, <1>2, <1>3 DEF Stream

LEMMA StutterKeeps ==
    ASSUME IndInv, UNCHANGED vars PROVE IndInv'
BY DEF IndInv, TypeOK, StreamFacts, CloseFacts, OkFacts, SignalFacts,
       EndsAnswered, EndsStopped, Returned, Live, BeforeRun, adapter, history, vars

\* The state of the three goroutines, of the adapter and of the stream stays
\* within what activity.go and client.go can make of them, and within it the
\* facts the theorems below rest on hold: how far the stream is for where the
\* runner is, who closed it, what an answer of success says.
THEOREM Invariance == Spec => []IndInv
<1>1. IndInv /\ [Next]_vars => IndInv'
  BY MainKeeps, CancelKeeps, MonitorKeeps, RunnerKeeps, StreamKeeps,
     StutterKeeps DEF Next
<1> QED BY InitHolds, <1>1, PTL DEF Spec

\* Every variable keeps its type: no more stop signals wait than their channel
\* holds.
THEOREM TypeCorrect == Spec => []TypeOK
<1>1. IndInv => TypeOK
  BY DEF IndInv
<1> QED BY Invariance, <1>1, PTL

\* An attempt that succeeds has drained its stream, and no stop signal was
\* sent: monitorActivityHeartbeat, whatever channel its select picks first.
THEOREM SuccessMeansWhole == Spec => []SuccessIsWhole
<1>1. IndInv => SuccessIsWhole
  BY DEF IndInv, OkFacts, SuccessIsWhole
<1> QED BY Invariance, <1>1, PTL

\* The monitor never ends while the activity waits without a result for it:
\* every way out of monitorActivityHeartbeat, the recovered panic included,
\* answers first.  What AlwaysAnswered asks of safety.
THEOREM MonitorAnswersFirst == Spec => []EndsAnswered
<1>1. IndInv => EndsAnswered
  BY DEF IndInv
<1> QED BY Invariance, <1>1, PTL

\* The runner never reports or ends with the stream flowing, unless its own stop
\* panicked (stopFailedStream): a run that fails is stopped before it is
\* reported, also when the monitor gave up on it earlier, or panicked at its
\* stop.  After a stop that panicked the attempt does not succeed.  What
\* NothingLeftRunning asks of safety.
THEOREM RunnerStopsFirst == Spec => []EndsStopped
<1>1. IndInv => EndsStopped
  BY DEF IndInv
<1> QED BY Invariance, <1>1, PTL
=============================================================================
