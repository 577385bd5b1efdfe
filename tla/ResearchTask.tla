---------------------------- MODULE ResearchTask ----------------------------
(***************************************************************************)
(* One research task from POST /v1/research to its terminal status.        *)
(*                                                                         *)
(* Four actors share one Valkey record:                                    *)
(*   - the API process (routers/research.py) creates the task, enqueues    *)
(*     its job and raises the cancellation flag;                           *)
(*   - arq (external) delivers the job at least once, at most MaxTries     *)
(*     times;                                                              *)
(*   - run_research_job (workers/research_worker.py) runs one attempt: a   *)
(*     coroutine whose every await of the store is a step of its own, with *)
(*     the exception handlers it is nested in;                             *)
(*   - the pipeline (core/pipeline.py), a second coroutine of the same     *)
(*     attempt, which writes through a TaskEventSink and may outlive the   *)
(*     attempt that started it.                                            *)
(*                                                                         *)
(* Every call of the store named in FaultyCalls may raise, with or without *)
(* its effect, at most MaxFaults times in all.  Job timeouts, SIGTERM and  *)
(* worker deaths strike at most MaxDisruptions times in all.  Both bounds  *)
(* only keep the state space finite: the theorems hold for all of them.    *)
(* Time-to-live expiry of the record is not modelled.                      *)
(***************************************************************************)
EXTENDS Naturals, Sequences

CONSTANTS
  MaxTries,        \* settings.worker.max_tries
  FaultyCalls,     \* store and queue calls that may raise
  MaxFaults,       \* bound on the number of calls that raise
  Disruptions,     \* what may strike a worker
  MaxDisruptions   \* bound on the number of strikes

Calls    == {"create", "enqueue", "hget", "append", "status", "expire",
             "save", "cache"}
Strikes  == {"timeout", "shutdown", "crash"}
Attempts == 1..MaxTries

ASSUME ParametersAssumption ==
  /\ MaxTries \in Nat \ {0}
  /\ MaxFaults \in Nat
  /\ MaxDisruptions \in Nat
  /\ FaultyCalls \subseteq Calls
  /\ Disruptions \subseteq Strikes

Terminal == {"completed", "failed", "cancelled"}
Statuses == {"none", "queued", "running", "cached"} \union Terminal
EventKinds == {"stage", "final_output", "source_registry", "retrying",
               "error", "cancelled"}

VARIABLES
  \* The Valkey record of the task
  status, events, cancelRequested, result, cache,
  \* The API request that creates the task, and one cancel request
  client, canceller,
  \* The arq job: where it is and how often it was started
  job, tries,
  \* run_research_job: next await, innermost exception handler, status it is
  \* heading for, the cancel watcher, and whether arq's timeout has fired
  pc, frame, goal, watcher, timedOut,
  \* The pipeline of every attempt, what it will return, and the
  \* TaskEventSink._cancelled flag of its sink
  pipe, outcome, sinkOff,
  \* Environment counters
  faults, disruptions

store    == <<status, events, cancelRequested, result, cache>>
api      == <<client, canceller>>
queue    == <<job, tries>>
worker   == <<pc, frame, goal, watcher, timedOut>>
pipeline == <<pipe, outcome, sinkOff>>
vars     == <<store, api, queue, worker, pipeline, faults, disruptions>>

Pcs      == {"idle", "precheck", "build", "wait", "cleanup", "registry",
             "quality", "saveResult", "event", "status", "expire", "cache",
             "retryEvent", "ack"}
Frames   == {"setup", "run", "handler", "cancelHandler", "lastTry", "retry"}
Goals    == {"none", "queued", "running"} \union Terminal
Pipes    == {"none", "started", "working", "appendFinal", "storeFinal",
             "closing", "tail", "done"}
Answers  == {"answer", "degraded"}
Outcomes == {"none", "blank", "failed", "cancelled", "raised", "aborted"}
              \union Answers

Init ==
  /\ status = "none" /\ events = << >> /\ cancelRequested = FALSE
  /\ result = FALSE /\ cache = FALSE
  /\ client = "idle" /\ canceller = "idle"
  /\ job = "none" /\ tries = 0
  /\ pc = "idle" /\ frame = "setup" /\ goal = "none" /\ watcher = "off"
  /\ timedOut = FALSE
  /\ pipe = [a \in Attempts |-> "none"]
  /\ outcome = [a \in Attempts |-> "none"]
  /\ sinkOff = [a \in Attempts |-> FALSE]
  /\ faults = 0 /\ disruptions = 0

-----------------------------------------------------------------------------
(* Calls of the store and of the queue                                     *)

\* The call raises; its action says which effects it may have had.
Raises(call) ==
  /\ call \in FaultyCalls
  /\ faults < MaxFaults
  /\ faults' = faults + 1

Returns == UNCHANGED faults

Log(e)      == events' = Append(events, e)
MaybeLog(e) == events' \in {events, Append(events, e)}
Logged(e)   == \E i \in 1..Len(events) : events[i] = e

TerminalEvent(s) ==
  CASE s = "completed" -> "final_output"
    [] s = "failed"    -> "error"
    [] s = "cancelled" -> "cancelled"

-----------------------------------------------------------------------------
(* The API process                                                         *)

\* create_task: hset, then expire.  A failure answers 500 before enqueueing.
Create ==
  /\ client = "idle"
  /\ \/ Returns /\ status' = "queued" /\ client' = "created"
     \/ Raises("create") /\ status' \in {"none", "queued"}
          /\ client' = "rejected"
  /\ UNCHANGED <<events, cancelRequested, result, cache, canceller, queue,
                 worker, pipeline, disruptions>>

\* A raising enqueue may have reached the queue and lost only its reply.
Enqueue ==
  /\ client = "created"
  /\ \/ Returns /\ job' = "queued" /\ client' = "accepted"
     \/ Raises("enqueue") /\ job' \in {"none", "queued"}
          /\ client' = "failEvent"
  /\ UNCHANGED <<store, canceller, tries, worker, pipeline, disruptions>>

\* "finally": the status is written whether or not the event was.
EnqueueFailedEvent ==
  /\ client = "failEvent"
  /\ client' = "failStatus"
  /\ \/ Returns /\ Log("error")
     \/ Raises("append") /\ MaybeLog("error")
  /\ UNCHANGED <<status, cancelRequested, result, cache, canceller, queue,
                 worker, pipeline, disruptions>>

EnqueueFailedStatus ==
  /\ client = "failStatus"
  /\ client' = "rejected"
  /\ \/ Returns /\ status' = "failed"
     \/ Raises("status") /\ status' \in {status, "failed"}
  /\ UNCHANGED <<events, cancelRequested, result, cache, canceller, queue,
                 worker, pipeline, disruptions>>

\* cancel_research and cancel_tasks_by_caller read the status first ...
CancelCheck ==
  /\ canceller = "idle"
  /\ status \in {"queued", "running"}
  /\ canceller' = "checked"
  /\ UNCHANGED <<store, client, queue, worker, pipeline, faults, disruptions>>

\* ... and raise the flag later, whatever the status has become.
CancelRequest ==
  /\ canceller = "checked"
  /\ canceller' = "sent"
  /\ cancelRequested' = TRUE
  /\ UNCHANGED <<status, events, result, cache, client, queue, worker,
                 pipeline, faults, disruptions>>

-----------------------------------------------------------------------------
(* run_research_job: control flow shared by its steps                      *)

\* Variant: the status is written and its event is not.
Commit_StatusOnly(s, f) ==
  pc' = "status" /\ goal' = s /\ frame' = f /\ UNCHANGED job

\* _commit_terminal_state(s), awaited inside handler f.
Commit(s, f) == pc' = "event" /\ goal' = s /\ frame' = f /\ UNCHANGED job

\* run_research_job returns, or raises what arq takes for a failed job.
Return == pc' = "ack" /\ goal' = "none" /\ frame' = "setup" /\ UNCHANGED job

\* arq puts the job back: Retry, or a CancelledError of a shutdown.
Requeue == pc' = "idle" /\ goal' = "none" /\ frame' = "setup" /\ job' = "queued"

\* Variant: the event of a retry is mistaken for its status.
Retry_WrongStatus ==
  pc' = "status" /\ goal' = "retrying" /\ frame' = "retry" /\ UNCHANGED job

\* The job is handed back to arq with its status put back to queued.
Retry == pc' = "status" /\ goal' = "queued" /\ frame' = "retry" /\ UNCHANGED job

\* Variant: the last try gives up without a terminal status.
SetupFailed_Silent ==
  \/ tries >= MaxTries /\ Return
  \/ tries < MaxTries /\ Retry

\* The outer "except Exception": a retry, unless this was the last.
SetupFailed ==
  \/ tries >= MaxTries /\ Commit("failed", "lastTry")
  \/ tries < MaxTries /\ Retry

\* Variant: a failed run is retried like a failed setup.
RunFailed_Retries == SetupFailed

\* The inner "except Exception": the research ran and is not repeated.
RunFailed == Commit("failed", "handler")

\* An Exception leaves the current await.
Throw ==
  \/ frame = "run" /\ RunFailed
  \/ frame \in {"setup", "handler"} /\ SetupFailed
  \/ frame \in {"cancelHandler", "lastTry"} /\ Return
  \/ frame = "retry" /\ Requeue

\* The await succeeds and the coroutine reaches the next one.
Proceed(p) == pc' = p /\ UNCHANGED <<goal, frame, job>>

\* Await update_task_status(s).
Update(s) == pc' = "status" /\ goal' = s /\ UNCHANGED <<frame, job>>

\* Where the pipeline of attempt a is, and what it will return.
Becomes(a, p, o) ==
  /\ pipe' = [pipe EXCEPT ![a] = p]
  /\ outcome' = [outcome EXCEPT ![a] = o]

\* pipeline_task.cancel(), with the CancelledError delivered at the await the
\* pipeline is suspended in: a write in flight may or may not be applied.
CancelPipeline(a) ==
  \/ /\ pipe[a] = "started"
     /\ Becomes(a, "done", "aborted") \/ Becomes(a, "closing", "cancelled")
     /\ UNCHANGED <<events, result>>
  \/ /\ pipe[a] = "working"
     /\ Becomes(a, "closing", "cancelled")
     /\ UNCHANGED <<events, result>>
  \/ /\ pipe[a] = "appendFinal"
     /\ Becomes(a, "closing", "cancelled")
     /\ MaybeLog("final_output") /\ UNCHANGED result
  \/ /\ pipe[a] = "storeFinal"
     /\ Becomes(a, "closing", "cancelled")
     /\ result' \in {result, TRUE} /\ UNCHANGED events
  \/ /\ pipe[a] = "closing"
     /\ Becomes(a, "closing", "aborted")
     /\ UNCHANGED <<events, result>>
  \/ /\ pipe[a] = "tail"
     /\ Becomes(a, "done", "aborted")
     /\ MaybeLog("source_registry") /\ UNCHANGED result
  \/ /\ pipe[a] \in {"none", "done"}
     /\ UNCHANGED <<pipe, outcome, events, result>>

-----------------------------------------------------------------------------
(* arq (external)                                                          *)

Take ==
  /\ job = "queued" /\ pc = "idle"
  /\ tries < MaxTries
  /\ tries' = tries + 1 /\ job' = "running"
  /\ pc' = "precheck" /\ frame' = "setup" /\ goal' = "none"
  /\ watcher' = "off" /\ timedOut' = FALSE
  /\ UNCHANGED <<store, api, pipeline, faults, disruptions>>

\* job_try > max_tries: arq fails the job without calling run_research_job.
GiveUp ==
  /\ job = "queued" /\ pc = "idle"
  /\ tries >= MaxTries
  /\ job' = "finished"
  /\ UNCHANGED <<store, api, tries, worker, pipeline, faults, disruptions>>

Acknowledge ==
  /\ pc = "ack"
  /\ pc' = "idle" /\ job' = "finished"
  /\ UNCHANGED <<store, api, tries, frame, goal, watcher, timedOut, pipeline,
                 faults, disruptions>>

-----------------------------------------------------------------------------
(* run_research_job: one action per await                                  *)

Precheck ==
  /\ pc = "precheck"
  /\ \/ /\ Returns /\ cancelRequested
        /\ Commit("cancelled", "setup")
     \/ /\ \/ Returns /\ ~cancelRequested
           \/ Raises("hget")
        /\ Update("running")
  /\ UNCHANGED <<store, api, tries, watcher, timedOut, pipeline, disruptions>>

\* create_runtime_components; on success the pipeline and the watcher start.
Build ==
  /\ pc = "build"
  /\ \/ /\ pc' = "wait" /\ goal' = "none" /\ frame' = "run" /\ UNCHANGED job
        /\ watcher' = "polling"
        /\ pipe' = [pipe EXCEPT ![tries] = "started"]
     \/ /\ Throw
        /\ UNCHANGED <<watcher, pipe>>
  /\ UNCHANGED <<store, api, tries, timedOut, outcome, sinkOff, faults,
                 disruptions>>

\* Variant: the watcher does not survive a read that raises.
FlagSeen_DiesOnError == cancelRequested /\ faults = 0

FlagSeen == cancelRequested

\* check_cancel: a read that raises is another poll, so only the hit shows.
WatcherFires ==
  /\ watcher = "polling" /\ pc = "wait"
  /\ FlagSeen
  /\ watcher' = "fired"
  /\ UNCHANGED <<store, api, queue, pc, frame, goal, timedOut, pipeline,
                 faults, disruptions>>

\* Variant: the worker goes on as soon as the answer is out.
Finished_AnswerOut(a) == pipe[a] \in {"closing", "tail", "done"}

\* pipeline_task.done()
Finished(a) == pipe[a] = "done"

\* asyncio.wait returns: the first to finish decides, and the watcher when
\* both have.
Wake ==
  /\ pc = "wait"
  /\ Finished(tries) \/ watcher = "fired"
  /\ pc' = "cleanup"
  /\ goal' = IF watcher = "fired" THEN "cancelled" ELSE "none"
  /\ watcher' = "off"
  /\ CancelPipeline(tries)
  /\ UNCHANGED <<status, cancelRequested, cache, api, queue, frame, timedOut,
                 sinkOff, faults, disruptions>>

\* The ten seconds of wait_for have passed: it cancels again and waits on.
CleanupTimeout ==
  /\ pc = "cleanup"
  /\ CancelPipeline(tries)
  /\ UNCHANGED <<status, cancelRequested, cache, api, queue, worker, sinkOff,
                 faults, disruptions>>

CleanedUp ==
  /\ pc = "cleanup"
  /\ Finished(tries)
  /\ Proceed("registry")
  /\ UNCHANGED <<store, api, tries, watcher, timedOut, pipeline, faults,
                 disruptions>>

\* store_source_registry when the pipeline returned, then the cancel check
\* and pipeline_task.result().
StoreRegistry ==
  /\ pc = "registry"
  /\ \/ /\ Returns /\ goal = "cancelled"
        /\ sinkOff' = [sinkOff EXCEPT ![tries] = TRUE]
        /\ Commit("cancelled", "run")
     \/ /\ Returns /\ goal # "cancelled"
        /\ UNCHANGED sinkOff
        /\ IF outcome[tries] \in {"raised", "aborted"}
             THEN Throw
             ELSE Proceed("quality")
     \/ /\ outcome[tries] \notin {"raised", "aborted"}
        /\ Raises("save") /\ Throw /\ UNCHANGED sinkOff
  /\ UNCHANGED <<store, api, tries, watcher, timedOut, pipe, outcome,
                 disruptions>>

\* Variant: the sink is trusted to have stored the report.
Conclude_TrustSink ==
  \/ outcome[tries] \in Answers /\ Update("completed")
  \/ outcome[tries] \notin Answers /\ Commit("failed", "run")

\* The branch on the status the pipeline returned.
Conclude ==
  \/ outcome[tries] \in Answers /\ Proceed("saveResult")
  \/ outcome[tries] \in {"blank", "failed"} /\ Commit("failed", "run")
  \/ outcome[tries] = "cancelled" /\ Commit("cancelled", "run")

StoreQuality ==
  /\ pc = "quality"
  /\ \/ Returns /\ Conclude
     \/ Raises("save") /\ Throw
  /\ UNCHANGED <<store, api, tries, watcher, timedOut, pipeline, disruptions>>

SaveResult ==
  /\ pc = "saveResult"
  /\ \/ Returns /\ result' = TRUE /\ Update("completed")
     \/ Raises("save") /\ result' \in {result, TRUE} /\ Throw
  /\ UNCHANGED <<status, events, cancelRequested, cache, api, tries, watcher,
                 timedOut, pipeline, disruptions>>

\* _commit_terminal_state: an event that cannot be written does not stop the
\* status.
CommitEvent ==
  /\ pc = "event"
  /\ Proceed("status")
  /\ \/ Returns /\ Log(TerminalEvent(goal))
     \/ Raises("append") /\ MaybeLog(TerminalEvent(goal))
  /\ UNCHANGED <<status, cancelRequested, result, cache, api, tries, watcher,
                 timedOut, pipeline, disruptions>>

\* update_task_status, first round trip: no look at the present status.
UpdateStatus ==
  /\ pc = "status"
  /\ \/ Returns /\ status' = goal /\ Proceed("expire")
     \/ Raises("status") /\ status' \in {status, goal} /\ Throw
  /\ UNCHANGED <<events, cancelRequested, result, cache, api, tries, watcher,
                 timedOut, pipeline, disruptions>>

\* Variant: the early cancellation commits its ending and then goes on.
AfterUpdate_NoReturn ==
  \/ goal = "running" /\ Proceed("build")
  \/ goal = "cancelled" /\ frame = "setup" /\ Proceed("build")
  \/ goal = "completed" /\ Proceed("cache")
  \/ goal = "queued" /\ Proceed("retryEvent")
  \/ goal \in {"failed", "cancelled"} /\ Return

\* What follows an update of the status.
AfterUpdate ==
  \/ goal = "running" /\ Proceed("build")
  \/ goal = "completed" /\ Proceed("cache")
  \/ goal = "queued" /\ Proceed("retryEvent")
  \/ goal \in {"failed", "cancelled"} /\ Return

\* update_task_status, second round trip.
RefreshTTL ==
  /\ pc = "expire"
  /\ \/ Returns /\ AfterUpdate
     \/ Raises("expire") /\ Throw
  /\ UNCHANGED <<store, api, tries, watcher, timedOut, pipeline, disruptions>>

\* Variant: any report will do.
Cacheable_Degraded == outcome[tries] \in Answers

\* _validated_cache_quality: a degraded report is not shared.
Cacheable == outcome[tries] = "answer"

\* store_cached_result; a write that raises is swallowed.
WriteCache ==
  /\ pc = "cache"
  /\ Return
  /\ IF Cacheable
       THEN \/ Returns /\ cache' = TRUE
            \/ Raises("cache") /\ cache' \in {cache, TRUE}
       ELSE Returns /\ UNCHANGED cache
  /\ UNCHANGED <<status, events, cancelRequested, result, api, tries, watcher,
                 timedOut, pipeline, disruptions>>

RetryEvent ==
  /\ pc = "retryEvent"
  /\ Requeue
  /\ \/ Returns /\ Log("retrying")
     \/ Raises("append") /\ MaybeLog("retrying")
  /\ UNCHANGED <<status, cancelRequested, result, cache, api, tries, watcher,
                 timedOut, pipeline, disruptions>>

-----------------------------------------------------------------------------
(* execute_task_pipeline, run by attempt a                                 *)

Pipeline(a, p, o) ==
  /\ Becomes(a, p, o)
  /\ UNCHANGED <<status, cancelRequested, cache, api, queue, worker, sinkOff,
                 disruptions>>

\* The first event goes out, or the TaskLog cannot be created.
PipelineStarts(a) ==
  /\ pipe[a] = "started"
  /\ UNCHANGED result
  /\ \/ /\ Pipeline(a, "working", outcome[a])
        /\ \/ Returns /\ IF sinkOff[a] THEN UNCHANGED events ELSE Log("stage")
           \/ ~sinkOff[a] /\ Raises("append") /\ MaybeLog("stage")
     \/ Pipeline(a, "closing", "raised") /\ Returns /\ UNCHANGED events

\* run_main_agent ends.  With an answer it emits final_output first: put()
\* looks at the sink's flag before it writes, not after.
PipelineWorks(a) ==
  /\ pipe[a] = "working"
  /\ \/ \E o \in Answers :
          Pipeline(a, IF sinkOff[a] THEN "closing" ELSE "appendFinal", o)
     \/ \E o \in {"blank", "failed", "cancelled"} : Pipeline(a, "closing", o)
  /\ UNCHANGED <<events, result, faults>>

\* put(final_output): append_event; its side effects only if it returned.
AppendFinal(a) ==
  /\ pipe[a] = "appendFinal"
  /\ UNCHANGED result
  /\ \/ Pipeline(a, "storeFinal", outcome[a]) /\ Returns /\ Log("final_output")
     \/ Pipeline(a, "closing", outcome[a]) /\ Raises("append")
          /\ MaybeLog("final_output")

StoreFinal(a) ==
  /\ pipe[a] = "storeFinal"
  /\ Pipeline(a, "closing", outcome[a])
  /\ \/ Returns /\ result' = TRUE
     \/ Raises("save") /\ result' \in {result, TRUE}
  /\ UNCHANGED events

\* _close_tool_managers: shielded, and for as long as the managers take.
ManagersClosed(a) ==
  /\ pipe[a] = "closing"
  /\ Pipeline(a, IF outcome[a] = "raised" THEN "done" ELSE "tail", outcome[a])
  /\ UNCHANGED <<events, result, faults>>

\* The run_metrics and source_registry events every ending emits.
EmitTail(a) ==
  /\ pipe[a] = "tail"
  /\ Pipeline(a, "done", outcome[a])
  /\ \/ Returns /\ IF sinkOff[a] THEN UNCHANGED events
                                 ELSE Log("source_registry")
     \/ ~sinkOff[a] /\ Raises("append") /\ MaybeLog("source_registry")
  /\ UNCHANGED result

PipelineStep(a) ==
  \/ PipelineStarts(a) \/ PipelineWorks(a) \/ AppendFinal(a)
  \/ StoreFinal(a) \/ ManagersClosed(a) \/ EmitTail(a)

-----------------------------------------------------------------------------
(* What strikes a worker                                                   *)

Strikable(kind) ==
  /\ kind \in Disruptions
  /\ disruptions < MaxDisruptions
  /\ disruptions' = disruptions + 1

\* A CancelledError reaches run_research_job: arq's job_timeout, once per
\* attempt, or the shutdown of its process.
Interrupt(kind) ==
  /\ Strikable(kind)
  /\ pc \notin {"idle", "ack"}
  /\ kind = "timeout" => ~timedOut
  /\ timedOut' = (timedOut \/ kind = "timeout")
  /\ \/ \* outer handler: worker_cancelled_during_setup
        /\ frame \in {"setup", "handler"}
        /\ Commit("cancelled", "cancelHandler")
        /\ UNCHANGED <<watcher, pipeline, events, result>>
     \/ \* inner handler: the pipeline is left running with its sink closed
        /\ frame = "run" /\ pc # "cleanup"
        /\ sinkOff' = [sinkOff EXCEPT ![tries] = TRUE]
        /\ Commit("cancelled", "handler")
        /\ watcher' = "off"
        /\ UNCHANGED <<pipe, outcome, events, result>>
     \/ \* wait_for hands it to the pipeline and the worker waits on
        /\ pc = "cleanup"
        /\ CancelPipeline(tries)
        /\ UNCHANGED <<pc, goal, frame, watcher, job, sinkOff>>
     \/ \* it escapes: arq runs the job again after a shutdown only
        /\ frame \in {"cancelHandler", "lastTry", "retry"}
        /\ IF kind = "shutdown" THEN Requeue ELSE Return
        /\ UNCHANGED <<watcher, pipeline, events, result>>
  /\ UNCHANGED <<status, cancelRequested, cache, api, tries, faults>>

\* The process dies with everything it ran; arq delivers the job again.
Crash ==
  /\ Strikable("crash")
  /\ pc # "idle"
  /\ Requeue
  /\ watcher' = "off"
  /\ pipe' = [a \in Attempts |-> IF pipe[a] = "none" THEN "none" ELSE "done"]
  /\ UNCHANGED <<store, api, tries, timedOut, outcome, sinkOff, faults>>

-----------------------------------------------------------------------------

ApiStep == \/ Create \/ Enqueue \/ EnqueueFailedEvent \/ EnqueueFailedStatus
           \/ CancelCheck \/ CancelRequest

ArqStep == Take \/ GiveUp \/ Acknowledge

WorkerStep ==
  \/ Precheck \/ Build \/ Wake \/ CleanedUp \/ StoreRegistry \/ StoreQuality
  \/ SaveResult \/ CommitEvent \/ UpdateStatus \/ RefreshTTL \/ WriteCache
  \/ RetryEvent

Next ==
  \/ ApiStep \/ ArqStep \/ WorkerStep
  \/ WatcherFires \/ CleanupTimeout
  \/ \E a \in Attempts : PipelineStep(a)
  \/ \E kind \in {"timeout", "shutdown"} : Interrupt(kind)
  \/ Crash

Spec == Init /\ [][Next]_vars

\* The scheduling the code relies on: the event loops run, arq polls its queue,
\* the watcher polls, the runtime components get built, and a pipeline that has
\* been cancelled or has finished its work reaches its end.  Nothing obliges the
\* research itself to end: there is no fairness of PipelineWorks.
EventLoops ==
  /\ WF_vars(ArqStep) /\ WF_vars(WorkerStep) /\ WF_vars(WatcherFires)
  /\ \A a \in Attempts :
       /\ WF_vars(PipelineStarts(a)) /\ WF_vars(AppendFinal(a))
       /\ WF_vars(StoreFinal(a)) /\ WF_vars(EmitTail(a))

\* Without a bound on the time a tool manager takes to close ...
LoopSpec == Spec /\ EventLoops

\* ... and with managers that do close.
FairSpec == LoopSpec /\ \A a \in Attempts : WF_vars(ManagersClosed(a))

-----------------------------------------------------------------------------
(* Properties                                                              *)

\* Every variable stays in its range.
TypeOK ==
  /\ status \in Statuses /\ events \in Seq(EventKinds)
  /\ cancelRequested \in BOOLEAN /\ result \in BOOLEAN /\ cache \in BOOLEAN
  /\ client \in {"idle", "created", "accepted", "failEvent", "failStatus",
                 "rejected"}
  /\ canceller \in {"idle", "checked", "sent"}
  /\ job \in {"none", "queued", "running", "finished"}
  /\ tries \in 0..MaxTries
  /\ pc \in Pcs /\ frame \in Frames /\ goal \in Goals
  /\ watcher \in {"off", "polling", "fired"} /\ timedOut \in BOOLEAN
  /\ pipe \in [Attempts -> Pipes] /\ outcome \in [Attempts -> Outcomes]
  /\ sinkOff \in [Attempts -> BOOLEAN]
  /\ faults \in Nat /\ disruptions \in Nat

\* Nothing went wrong so far: no call raised and nothing struck a worker.
Calm == faults = 0 /\ disruptions = 0

\* "Events first, status second" (routers/research.py:305): whoever reads a
\* terminal status finds the event of that ending in the stream already,
\* through retries, strikes and failing calls, as long as appends do not fail.
EventBeforeStatus ==
  "append" \notin FaultyCalls /\ status \in Terminal
    => Logged(TerminalEvent(status))

\* A task that says completed has its report stored, whatever failed before.
CompletedHasResult == status = "completed" => result

\* The shared cache only ever receives the full answer of a pipeline that
\* emitted it, never a degraded, cancelled or failed one.
CacheHoldsAnswer == cache => result /\ \E a \in Attempts : outcome[a] = "answer"

\* A job arq is done with leaves a task with a terminal status: no caller waits
\* for ever (research_worker.py:83), unless the status write itself fails or a
\* worker is struck.
FinishedIsTerminal ==
  "status" \notin FaultyCalls /\ disruptions = 0 /\ job = "finished"
    => status \in Terminal

\* Only an attempt that failed before its pipeline started is retried, so that
\* the research is paid for once, whatever raises but the writes of the status:
\* a handler whose own write raises falls into the setup handler, which retries.
AtMostOnePipeline ==
  FaultyCalls \intersect {"status", "expire"} = {} /\ disruptions = 0
    => \A a, b \in Attempts : pipe[a] # "none" /\ pipe[b] # "none" => a = b

\* Clients stop at a terminal status: nothing replaces it (API_SPEC).
TerminalIsFinal == [][(status \in Terminal) => (status' = status)]_vars

\* The same, for as long as nothing goes wrong.
TerminalIsFinalWhenCalm ==
  [][(status \in Terminal) /\ status' # status => ~Calm']_vars

\* Nothing is appended to the stream of a task with a terminal status, which
\* the reader of the stream drains only once.
NoEventAfterTerminal ==
  [][(status \in Terminal) /\ events' # events => ~Calm']_vars

\* A caller sees what TaskLifecycle promises: the record of the task implements
\* it, with "disturbed" for everything that may go wrong here.
Lifecycle == INSTANCE TaskLifecycle WITH disturbed <- ~Calm
ImplementsLifecycle == Lifecycle!Spec

\* A task whose cancellation was requested while arq still had it to run ends.
CancelTakesEffect ==
  (cancelRequested /\ job \in {"queued", "running"}) ~> (status \in Terminal)

=============================================================================
