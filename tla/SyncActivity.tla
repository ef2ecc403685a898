---------------------------- MODULE SyncActivity ----------------------------
(***************************************************************************)
(* One attempt of the activity that syncs a page of a table with Benthos   *)
(* (tablesync/activities/sync/activity.go).  Three goroutines share it:    *)
(* the activity builds the stream and waits for a result; the monitor,     *)
(* started before the stream is built, gives that result; the runner runs  *)
(* the stream.  They talk through three channels, and through an adapter   *)
(* that runs a stream and stops it (internal/benthos-stream/client.go).    *)
(* The stream is Benthos itself, modelled by what those callers rely on.   *)
(***************************************************************************)
EXTENDS Naturals

CONSTANTS
    StopRoom,   \* capacity of the channel of stop signals, 3 in the code
    MayPanic    \* whether a heartbeat, or a stop by monitor or runner, may panic

ASSUME StopRoomAssumption == StopRoom \in Nat \ {0}
ASSUME MayPanicAssumption == MayPanic \in BOOLEAN

VARIABLES
    main,       \* where the activity is
    canceled,   \* its context: canceled, timed out, or ended with the activity
    monitor,    \* where the monitor is
    runner,     \* where the goroutine of the stream is
    stops,      \* stop signals waiting in their channel
    done,       \* how the stream ended, in a channel of one
    result,     \* the result of the activity, in a channel of one
    shared,     \* the stream has been handed to the monitor
    running,    \* the adapter has let Run through
    stopAsked,  \* the adapter was asked to stop
    stream,     \* the stream of Benthos
    signaled,   \* history: a stop signal was sent
    stopLost    \* history: the stop of the runner panicked
vars == <<main, canceled, monitor, runner, stops, done, result, shared,
          running, stopAsked, stream, signaled, stopLost>>
adapter == <<shared, running, stopAsked>>
history == <<signaled, stopLost>>

Returned == {"ok", "error", "athanor"}
Live == {"flowing", "closing"}

TypeOK ==
    /\ main \in {"setup", "await"} \cup Returned
    /\ canceled \in BOOLEAN
    /\ monitor \in {"watch", "stopping", "halting", "answering", "ended"}
    /\ runner \in {"none", "check", "enter", "start", "in", "stopping",
                   "halting", "passed", "failed", "ended"}
    /\ stops \in 0..StopRoom
    /\ done \in {"none", "ok", "error"}
    /\ result \in {"none", "ok", "error"}
    /\ shared \in BOOLEAN /\ running \in BOOLEAN /\ stopAsked \in BOOLEAN
    /\ stream \in {"none", "built", "drained", "closed"} \cup Live
    /\ signaled \in BOOLEAN /\ stopLost \in BOOLEAN

Init ==
    /\ main = "setup" /\ monitor = "watch" /\ runner = "none"
    /\ canceled = FALSE /\ signaled = FALSE /\ stopLost = FALSE
    /\ stops = 0 /\ done = "none" /\ result = "none"
    /\ shared = FALSE /\ running = FALSE /\ stopAsked = FALSE
    /\ stream = "none"
-----------------------------------------------------------------------------
(* The activity.                                                           *)

\* No config, connection, job or key, or no stream out of the config.
SetupFails ==
    /\ main = "setup"
    /\ main' = "error"
    /\ UNCHANGED <<canceled, monitor, runner, stops, done, result, adapter,
                   stream, history>>

\* The job asks for the other engine, which answers without a stream.
AthanorRuns ==
    /\ main = "setup"
    /\ main' \in {"athanor", "error"}
    /\ UNCHANGED <<canceled, monitor, runner, stops, done, result, adapter,
                   stream, history>>

StartStream ==
    /\ main = "setup"
    /\ main' = "await"
    /\ stream' = "built"
    /\ shared' = TRUE
    /\ runner' = "check"
    /\ UNCHANGED <<canceled, monitor, stops, done, result, running, stopAsked,
                   history>>

\* A token of the next page that cannot be encoded fails a sync that went well.
TakeResult ==
    /\ main = "await" /\ result # "none"
    /\ main' \in IF result = "ok" THEN {"ok", "error"} ELSE {"error"}
    /\ result' = "none"
    /\ UNCHANGED <<canceled, monitor, runner, stops, done, adapter, stream,
                   history>>

\* The run is canceled, an attempt times out or loses its heartbeat, or
\* Temporal ends the context of an activity that has returned.
Cancel ==
    /\ ~canceled
    /\ canceled' = TRUE
    /\ UNCHANGED <<main, monitor, runner, stops, done, result, adapter, stream,
                   history>>
-----------------------------------------------------------------------------
(* The monitor.  Its select picks any channel that is ready.               *)

HearStop ==
    /\ monitor = "watch" /\ stops > 0
    /\ stops' = stops - 1
    /\ monitor' = "stopping"
    /\ UNCHANGED <<main, canceled, runner, done, result, adapter, stream,
                   history>>

HearCancel ==
    /\ monitor = "watch" /\ canceled
    /\ monitor' = "stopping"
    /\ UNCHANGED <<main, canceled, runner, stops, done, result, adapter, stream,
                   history>>

\* Wrong: the end of the stream speaks for it, whatever waits.
OutcomeOfDone == done

\* What a stream that is done answers, with the stop signal that may wait.
Outcome == IF stops > 0 THEN "error" ELSE done

HearDone ==
    /\ monitor = "watch" /\ done # "none"
    /\ result' = IF result = "none" THEN Outcome ELSE result
    /\ stops' = IF stops > 0 THEN stops - 1 ELSE stops
    /\ done' = "none"
    /\ monitor' = "ended"
    /\ UNCHANGED <<main, canceled, runner, adapter, stream, history>>

\* The adapter, under its lock: only a stream let through has anything to stop.
Asked(next) == IF running THEN "halting" ELSE next

MonitorAsks ==
    /\ monitor = "stopping"
    /\ stopAsked' = (stopAsked \/ shared)
    /\ monitor' = IF shared THEN Asked("answering") ELSE "answering"
    /\ UNCHANGED <<main, canceled, runner, stops, done, result, shared, running,
                   stream, history>>

\* Benthos does not hear the stop of a stream that has not started.
Halted == IF stream = "flowing" THEN "closing" ELSE stream

MonitorHalts ==
    /\ monitor = "halting"
    /\ stream' = Halted
    /\ monitor' = "answering"
    /\ UNCHANGED <<main, canceled, runner, stops, done, result, adapter,
                   history>>

MonitorAnswers ==
    /\ monitor = "answering" /\ result = "none"
    /\ result' = "error"
    /\ monitor' = "ended"
    /\ UNCHANGED <<main, canceled, runner, stops, done, adapter, stream,
                   history>>

\* Wrong: recovered, and not answered.
MonitorPanicsSilently ==
    /\ MayPanic /\ monitor \in {"watch", "halting"}
    /\ monitor' = "ended"
    /\ UNCHANGED <<main, canceled, runner, stops, done, result, adapter, stream,
                   history>>

\* A panic of the heartbeat or of the stop is recovered, and answered.  A stop
\* heard before it panicked is MonitorHalts.
MonitorPanics ==
    /\ MayPanic /\ monitor \in {"watch", "halting"}
    /\ result' = IF result = "none" THEN "error" ELSE result
    /\ monitor' = "ended"
    /\ UNCHANGED <<main, canceled, runner, stops, done, adapter, stream,
                   history>>
-----------------------------------------------------------------------------
(* The runner.                                                             *)

CheckContext ==
    /\ runner = "check"
    /\ runner' = IF canceled THEN "failed" ELSE "enter"
    /\ UNCHANGED <<main, canceled, monitor, stops, done, result, adapter,
                   stream, history>>

\* The adapter lets a stream run, under its lock, unless it was asked to stop.
EnterRun ==
    /\ runner = "enter"
    /\ running' = ~stopAsked
    /\ runner' = IF stopAsked THEN "stopping" ELSE "start"
    /\ UNCHANGED <<main, canceled, monitor, stops, done, result, shared,
                   stopAsked, stream, history>>

StreamStarts ==
    /\ runner = "start"
    /\ stream' = "flowing"
    /\ runner' = "in"
    /\ UNCHANGED <<main, canceled, monitor, stops, done, result, adapter,
                   history>>

\* Run returns once the stream has ended by itself or was stopped.
RunReturns ==
    /\ runner = "in" /\ stream \in {"drained", "closed"}
    /\ runner' = "passed"
    /\ UNCHANGED <<main, canceled, monitor, stops, done, result, adapter,
                   stream, history>>

\* Run fails, panics, or returns on its context: the stream may go on.
RunFails ==
    /\ runner \in {"start", "in"}
    /\ runner' = "stopping"
    /\ UNCHANGED <<main, canceled, monitor, stops, done, result, adapter,
                   stream, history>>

\* Wrong: the stream of a failed run is left alone.
FailsWithoutStop ==
    /\ runner = "stopping"
    /\ runner' = "failed"
    /\ UNCHANGED <<main, canceled, monitor, stops, done, result, adapter,
                   stream, history>>

StopFailed ==
    /\ runner = "stopping"
    /\ stopAsked' = TRUE
    /\ runner' = Asked("failed")
    /\ UNCHANGED <<main, canceled, monitor, stops, done, result, shared,
                   running, stream, history>>

StopFailedHalts ==
    /\ runner = "halting"
    /\ stream' = Halted
    /\ runner' = "failed"
    /\ UNCHANGED <<main, canceled, monitor, stops, done, result, adapter,
                   history>>

\* A panic of the stop of a failed stream is recovered too, and the failure is
\* reported: a stream that had not heard the stop goes on, with nobody left to
\* stop it once the monitor has taken the report.
StopFailedPanics ==
    /\ MayPanic /\ runner = "halting"
    /\ runner' = "failed" /\ stopLost' = TRUE
    /\ UNCHANGED <<main, canceled, monitor, stops, done, result, adapter,
                   stream, signaled>>

SendDone ==
    /\ runner \in {"passed", "failed"} /\ done = "none"
    /\ done' = IF runner = "passed" THEN "ok" ELSE "error"
    /\ runner' = "ended"
    /\ UNCHANGED <<main, canceled, monitor, stops, result, adapter, stream,
                   history>>
-----------------------------------------------------------------------------
(* The stream.                                                             *)

\* Wrong: a channel with room for one more.
SignalPastRoom ==
    /\ stream \in Live
    /\ stops <= StopRoom
    /\ stops' = stops + 1
    /\ signaled' = TRUE
    /\ UNCHANGED <<main, canceled, monitor, runner, done, result, adapter,
                   stream, stopLost>>

\* A read, a row or a write fails for good: a signal, dropped when there is
\* no room for it, before the failed write is acknowledged.
SignalStop ==
    /\ stream \in Live
    /\ stops' = IF stops < StopRoom THEN stops + 1 ELSE stops
    /\ signaled' = TRUE
    /\ UNCHANGED <<main, canceled, monitor, runner, done, result, adapter,
                   stream, stopLost>>

Drain ==
    /\ stream = "flowing"
    /\ stream' = "drained"
    /\ UNCHANGED <<main, canceled, monitor, runner, stops, done, result,
                   adapter, history>>

Close ==
    /\ stream = "closing"
    /\ stream' = "closed"
    /\ UNCHANGED <<main, canceled, monitor, runner, stops, done, result,
                   adapter, history>>

Main == SetupFails \/ AthanorRuns \/ StartStream \/ TakeResult
Monitor == \/ HearStop \/ HearCancel \/ HearDone
           \/ MonitorAsks \/ MonitorHalts \/ MonitorAnswers \/ MonitorPanics
Runner == \/ CheckContext \/ EnterRun \/ StreamStarts \/ RunReturns
          \/ RunFails \/ StopFailed \/ StopFailedHalts \/ StopFailedPanics
          \/ SendDone
Stream == SignalStop \/ Drain \/ Close

\* Every goroutine has stopped and nothing flows, but for a stream whose runner
\* could not stop it: the attempt is over.
Over ==
    /\ main \in Returned /\ monitor = "ended" /\ runner \in {"none", "ended"}
    /\ stream \in Live => stopLost

Next == Main \/ Cancel \/ Monitor \/ Runner \/ Stream

\* Goroutines are scheduled, an attempt has a deadline and its context ends
\* with it, and a stream that was stopped closes.  Nothing says that a
\* stream drains, fails or signals.
Fairness == /\ WF_vars(Main) /\ WF_vars(Cancel) /\ WF_vars(Monitor)
            /\ WF_vars(Runner) /\ WF_vars(Close)

Spec == Init /\ [][Next]_vars /\ Fairness
-----------------------------------------------------------------------------
(* Properties.                                                             *)

\* An attempt that succeeds has read its page to the end, and no write of it
\* failed for good: a stop signal that waits when the stream is done fails
\* the attempt (monitorActivityHeartbeat), though the select may pick the
\* end of the stream first.
SuccessIsWhole == main = "ok" => stream = "drained" /\ ~signaled

\* The activity waits for one result without a timeout of its own, and the
\* monitor ends after one: whatever stops, ends or panics, it is answered.
AlwaysAnswered == <>(main \in Returned)

\* No goroutine outlives an attempt for good, and no stream does unless the
\* stop of its runner panicked: a stream that started after the monitor gave
\* up on it, or whose stop by the monitor panicked, is stopped by its runner.
NothingLeftRunning == <>[]Over

\* The comment in runStream: an activity that has ended starts no stream,
\* which would use a session released by then.
EndedStartsNone ==
    [][~(main \in Returned /\ runner = "start" /\ runner' = "in")]_vars

-----------------------------------------------------------------------------
(* The inductive invariant.                                                *)

\* What the runner has come to says how far the stream is.
BeforeRun == {"none", "check", "enter", "start"}
StreamFacts ==
    /\ main = "setup" => runner = "none" /\ stream = "none"
    /\ runner \in BeforeRun => stream \in {"none", "built"}
    /\ stream = "flowing" => running /\ (runner \in {"in", "stopping", "halting"} \/ stopLost)
    /\ runner = "start" => running
    /\ runner = "passed" => stream \in {"drained", "closed"}

\* A stream was closed because the monitor heard something, or the runner failed.
CloseFacts ==
    stream \in {"closing", "closed"} /\ monitor = "watch" =>
        runner \in {"failed", "ended"} /\ done # "ok"

\* Success, from the runner to the activity.
OkFacts ==
    /\ done = "ok" => runner = "ended" /\ stream \in {"drained", "closed"}
    /\ result = "ok" \/ main = "ok" =>
          monitor = "ended" /\ runner = "ended" /\ stream = "drained" /\ ~signaled

\* A signal waits until the monitor has heard one.
SignalFacts == signaled /\ monitor = "watch" => stops > 0

\* The monitor does not end without an answer.
EndsAnswered == main \notin Returned /\ monitor = "ended" => result # "none"

\* The runner does not end with a stream that flows, unless its stop panicked:
\* then it has failed, reports that, and the attempt does not succeed.
EndsStopped ==
    /\ runner \in {"passed", "failed", "ended"} /\ stream = "flowing" => stopLost
    /\ stopLost => /\ MayPanic /\ runner \in {"failed", "ended"}
                   /\ done # "ok" /\ result # "ok" /\ main # "ok"

IndInv ==
    /\ TypeOK /\ StreamFacts /\ CloseFacts /\ OkFacts /\ SignalFacts
    /\ EndsAnswered /\ EndsStopped
=============================================================================
