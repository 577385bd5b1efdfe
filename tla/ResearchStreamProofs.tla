------------------------ MODULE ResearchStreamProofs ------------------------
(***************************************************************************)
(* Theorems about one research task, for every number of attempts, every   *)
(* set of failing calls and strikes, and every bound on them; and about    *)
(* the task with the shared cache in front of it and a reader of its       *)
(* stream: the invariants of the task hold in their company, a stream that *)
(* closes is complete, and a caller sees the life of a task that           *)
(* TaskLifecycle promises.                                                 *)
(***************************************************************************)
EXTENDS ResearchStream, TLAPS

-----------------------------------------------------------------------------
(* The task alone                                                          *)


(***************************************************************************)
(* Control: which places of the coroutine go with which goal.  Two of the  *)
(* store's variables are only safe to write because of these.              *)
(***************************************************************************)
EventHasEnding == pc = "event" => goal \in Terminal

TypeInv == TypeOK /\ EventHasEnding

(***************************************************************************)
(* Where the coroutine can be, and with what: enough to know that the      *)
(* pipeline it works for is its own and has ended when it says completed.  *)
(***************************************************************************)
\* arq runs the coroutine of a job it has started.
Running == pc # "idle" => tries \in Attempts

\* A goal belongs to a part of the coroutine.
GoalPlaces ==
  /\ goal = "completed" => pc \in {"status", "expire", "cache"}
  /\ goal = "running" => pc \in {"status", "expire", "build"}
  /\ pc = "cache" => goal = "completed"
  /\ pc \in {"wait", "cleanup", "registry"} => goal \in {"none", "cancelled"}
  /\ pc \in {"wait", "cleanup", "registry", "quality", "saveResult"}
       => frame = "run"

\* Nothing has been run for attempt a.
Fresh(a) == pipe[a] = "none" /\ outcome[a] = "none" /\ sinkOff[a] = FALSE

\* An attempt gets a pipeline when its runtime components are built.
NotYetRun ==
  /\ \A a \in Attempts : a > tries => Fresh(a)
  /\ pc \in {"precheck", "build"} \/ goal = "running" => Fresh(tries)

\* From the registry on, the pipeline of this attempt has ended.
PipelineEnded ==
  pc \in {"registry", "quality", "saveResult"} \/ goal = "completed"
    => pipe[tries] = "done"

Control == Running /\ GoalPlaces /\ NotYetRun /\ PipelineEnded

\* The result was stored before "completed" became the goal.
ResultInv == CompletedHasResult /\ (goal = "completed" => result)

\* "completed" is the goal of an attempt whose pipeline answered, and nothing
\* cancels a pipeline that has ended.
CacheInv ==
  /\ pc = "saveResult" \/ goal = "completed" => outcome[tries] \in Answers
  /\ cache => \E a \in Attempts : pipe[a] = "done" /\ outcome[a] = "answer"
  /\ cache => result

\* The coroutine waits for its pipeline, or deals with what it returned.
InRun == pc \in {"wait", "cleanup", "registry", "quality", "saveResult"}

\* A goal that is being written has its event in the stream ...
GoalLogged ==
  pc \in {"status", "expire"} /\ goal \in Terminal
    => Logged(TerminalEvent(goal))

\* ... and so has a submission that is about to be rejected.
RejectLogged == client = "failStatus" => Logged("error")

\* The sink of a pipeline that is waited for is open ...
SinkOpen == InRun => sinkOff[tries] = FALSE

\* ... so that its report goes into the stream before it is returned.
AnswerLogged ==
  InRun /\ outcome[tries] \in Answers /\ pipe[tries] # "appendFinal"
    => Logged("final_output")

EventInv ==
  "append" \notin FaultyCalls =>
    EventBeforeStatus /\ GoalLogged /\ RejectLogged /\ SinkOpen /\ AnswerLogged

(***************************************************************************)
(* How the attempts of a task end: what a job that arq is done with has    *)
(* left behind, and how often the research is run.                         *)
(***************************************************************************)
\* arq runs the coroutine of a running job only, and knows no job before the
\* API has enqueued it.
QueuePlaces ==
  /\ pc = "idle" <=> job # "running"
  /\ client \in {"idle", "created"} => job = "none" /\ tries = 0

\* A job is handed back only by an attempt that was not the last, and the
\* handlers that end a task are heading for an ending.
HandlerPlaces ==
  /\ frame = "retry" <=> goal = "queued"
  /\ pc = "retryEvent" => goal = "queued"
  /\ pc \in {"precheck", "build"} \/ goal = "running" => frame = "setup"
  /\ frame = "retry" => tries < MaxTries
  /\ frame \in {"lastTry", "handler", "cancelHandler"} => goal \in Terminal
  /\ pc \in {"status", "expire"} => goal # "none"

Places == QueuePlaces /\ HandlerPlaces

\* When the status can be written and nothing strikes a worker, every way out of
\* the coroutine leads over a terminal status, and only attempts that are not the
\* last go back to the queue.
EndingInv ==
  "status" \notin FaultyCalls /\ disruptions = 0 =>
    /\ job = "finished" \/ pc \in {"ack", "cache"} => status \in Terminal
    /\ pc = "expire" /\ goal \in Terminal => status \in Terminal
    /\ job = "queued" => tries < MaxTries
    /\ frame # "cancelHandler"

\* An attempt that may still run the research, or be handed back.
NotRun == \A a \in Attempts : pipe[a] = "none"

MayRun == \/ job \in {"none", "queued"} \/ pc \in {"precheck", "build"}
          \/ goal \in {"running", "queued"}

AtMostOneRun ==
  \A a, b \in Attempts : pipe[a] # "none" /\ pipe[b] # "none" => a = b

\* When moreover its time to live can be refreshed, an attempt that is handed
\* back has not run the research.
RetryInv ==
  FaultyCalls \intersect {"status", "expire"} = {} /\ disruptions = 0 =>
    AtMostOneRun /\ (MayRun => NotRun)

-----------------------------------------------------------------------------
(* Type correctness                                                        *)

\* The tuples that name groups of variables.
USE DEF vars, store, api, queue, worker, pipeline

\* A call returns, or raises once more.
LEMMA CallType ==
  ASSUME TypeOK, NEW call, Returns \/ Raises(call)
  PROVE  faults' \in Nat
  BY DEF TypeOK, Returns, Raises

\* A pipeline that moves stays in its range.
LEMMA BecomesType ==
  ASSUME TypeOK, NEW a, NEW p \in Pipes, NEW o \in Outcomes, Becomes(a, p, o)
  PROVE  pipe' \in [Attempts -> Pipes] /\ outcome' \in [Attempts -> Outcomes]
  BY DEF TypeOK, Becomes

\* A call that appends an event, or may have, leaves a stream of events.
LEMMA LogType ==
  ASSUME TypeOK, NEW e \in EventKinds, Log(e) \/ MaybeLog(e)
  PROVE  events' \in Seq(EventKinds)
  BY DEF TypeOK, Log, MaybeLog

\* Cancelling a pipeline leaves everything it may write in its range.
LEMMA CancelPipelineType ==
  ASSUME TypeOK, NEW a, CancelPipeline(a)
  PROVE  /\ pipe' \in [Attempts -> Pipes]
         /\ outcome' \in [Attempts -> Outcomes]
         /\ events' \in Seq(EventKinds)
         /\ result' \in BOOLEAN
<1>1. pipe' \in [Attempts -> Pipes] /\ outcome' \in [Attempts -> Outcomes]
  BY BecomesType DEF TypeOK, CancelPipeline, Pipes, Outcomes
<1>2. events' \in Seq(EventKinds) /\ result' \in BOOLEAN
  BY LogType DEF TypeOK, CancelPipeline, EventKinds
<1> QED
  BY <1>1, <1>2

\* An exception leads to a place, a handler and a goal there are, and a commit
\* it leads to has an ending.
LEMMA ThrowType ==
  ASSUME TypeInv, Throw
  PROVE  /\ pc' \in Pcs /\ frame' \in Frames /\ goal' \in Goals
         /\ job' \in {"none", "queued", "running", "finished"}
         /\ EventHasEnding'
  BY DEF TypeInv, TypeOK, EventHasEnding, Throw, RunFailed, SetupFailed, Commit,
         Retry, Return, Requeue, Pcs, Frames, Goals, Terminal

\* The event of an ending is an event.
LEMMA TerminalEventType ==
  ASSUME NEW s \in Terminal
  PROVE  TerminalEvent(s) \in EventKinds
  BY DEF Terminal, TerminalEvent, EventKinds

LEMMA TypeInit == Init => TypeInv
<1> SUFFICES ASSUME Init PROVE TypeInv
  OBVIOUS
<1>1. events \in Seq(EventKinds)
  BY DEF Init
<1>2. /\ pipe \in [Attempts -> Pipes] /\ outcome \in [Attempts -> Outcomes]
      /\ sinkOff \in [Attempts -> BOOLEAN]
  BY DEF Init, Pipes, Outcomes
<1>3. tries \in 0..MaxTries
  BY ParametersAssumption DEF Init
<1> QED
  BY <1>1, <1>2, <1>3
  DEF Init, TypeInv, TypeOK, EventHasEnding, Statuses, Pcs, Frames, Goals

\* No step takes a variable out of its range.
LEMMA TypeNext == TypeInv /\ [Next]_vars => TypeInv'
<1> SUFFICES ASSUME TypeInv, [Next]_vars PROVE TypeInv'
  OBVIOUS
<1> USE DEF TypeInv, TypeOK, EventHasEnding
<1>1. CASE ApiStep
  <2>1. CASE Create
    BY <2>1 DEF Create, Returns, Raises, Statuses
  <2>2. CASE Enqueue
    BY <2>2 DEF Enqueue, Returns, Raises
  <2>3. CASE EnqueueFailedEvent
    BY <2>3, LogType DEF EnqueueFailedEvent, Returns, Raises, EventKinds
  <2>4. CASE EnqueueFailedStatus
    BY <2>4 DEF EnqueueFailedStatus, Returns, Raises, Statuses, Terminal
  <2>5. CASE CancelCheck
    BY <2>5 DEF CancelCheck
  <2>6. CASE CancelRequest
    <3>1. cancelRequested' \in BOOLEAN
      BY <2>6 DEF CancelRequest
    <3> QED
      BY <2>6, <3>1 DEF CancelRequest
  <2> QED
    BY <1>1, <2>1, <2>2, <2>3, <2>4, <2>5, <2>6 DEF ApiStep
<1>2. CASE ArqStep
  <2>1. CASE Take
    <3>1. timedOut' \in BOOLEAN
      BY <2>1 DEF Take
    <3> QED
      BY <2>1, <3>1, ParametersAssumption
      DEF Take, Pcs, Frames, Goals
  <2>2. CASE GiveUp
    BY <2>2 DEF GiveUp
  <2>3. CASE Acknowledge
    BY <2>3 DEF Acknowledge, Pcs
  <2> QED
    BY <1>2, <2>1, <2>2, <2>3 DEF ArqStep
<1>3. CASE WorkerStep
  <2>1. CASE Precheck
    BY <2>1
    DEF Precheck, Returns, Raises, Commit, Update, Pcs, Frames, Goals, Terminal
  <2>2. CASE Build
    <3>1. pipe' \in [Attempts -> Pipes]
      BY <2>2 DEF Build, Pipes
    <3> QED
      BY <2>2, <3>1, ThrowType DEF Build, Pcs, Frames, Goals
  <2>3. CASE Wake
    BY <2>3, CancelPipelineType DEF Wake, Pcs, Goals, Terminal
  <2>4. CASE CleanedUp
    BY <2>4 DEF CleanedUp, Proceed, Pcs
  <2>5. CASE StoreRegistry
    <3>1. sinkOff' \in [Attempts -> BOOLEAN]
      BY <2>5 DEF StoreRegistry
    <3>2. CASE goal = "cancelled" /\ Commit("cancelled", "run")
      BY <2>5, <3>1, <3>2
      DEF StoreRegistry, Returns, Raises, Commit, Pcs, Frames, Goals, Terminal
    <3>3. CASE Throw
      BY <2>5, <3>1, <3>3, ThrowType DEF StoreRegistry, Returns, Raises
    <3>4. CASE Proceed("quality")
      BY <2>5, <3>1, <3>4 DEF StoreRegistry, Returns, Raises, Proceed, Pcs
    <3> QED
      BY <2>5, <3>2, <3>3, <3>4 DEF StoreRegistry
  <2>6. CASE StoreQuality
    <3>1. CASE Throw
      BY <2>6, <3>1, ThrowType DEF StoreQuality, Returns, Raises
    <3>2. CASE Conclude
      BY <2>6, <3>2
      DEF StoreQuality, Returns, Raises, Conclude, Proceed, Commit, Pcs, Frames,
          Goals, Terminal
    <3> QED
      BY <2>6, <3>1, <3>2 DEF StoreQuality
  <2>7. CASE SaveResult
    <3>1. result' \in BOOLEAN
      BY <2>7 DEF SaveResult
    <3>2. /\ UNCHANGED <<status, events, cancelRequested, cache, api, tries,
                         watcher, timedOut, pipeline, disruptions>>
          /\ faults' \in Nat
      BY <2>7, CallType DEF SaveResult
    <3>3. CASE Throw
      BY <3>1, <3>2, <3>3, ThrowType
    <3>4. CASE Update("completed")
      BY <3>1, <3>2, <3>4 DEF Update, Pcs, Goals, Terminal
    <3> QED
      BY <2>7, <3>3, <3>4 DEF SaveResult
  <2>8. CASE CommitEvent
    <3>1. events' \in Seq(EventKinds)
      BY <2>8, TerminalEventType, LogType DEF CommitEvent
    <3> QED
      BY <2>8, <3>1 DEF CommitEvent, Returns, Raises, Proceed, Pcs
  <2>9. CASE UpdateStatus
    <3>1. status' \in Statuses
      BY <2>9 DEF UpdateStatus, Goals, Statuses
    <3>2. CASE Throw
      BY <2>9, <3>1, <3>2, ThrowType DEF UpdateStatus, Returns, Raises
    <3>3. CASE Proceed("expire")
      BY <2>9, <3>1, <3>3 DEF UpdateStatus, Returns, Raises, Proceed, Pcs
    <3> QED
      BY <2>9, <3>2, <3>3 DEF UpdateStatus
  <2>10. CASE RefreshTTL
    <3>1. CASE Throw
      BY <2>10, <3>1, ThrowType DEF RefreshTTL, Returns, Raises
    <3>2. CASE AfterUpdate
      BY <2>10, <3>2
      DEF RefreshTTL, Returns, Raises, AfterUpdate, Proceed, Return, Pcs, Frames,
          Goals
    <3> QED
      BY <2>10, <3>1, <3>2 DEF RefreshTTL
  <2>11. CASE WriteCache
    <3>1. cache' \in BOOLEAN
      BY <2>11 DEF WriteCache
    <3>2. /\ UNCHANGED <<status, events, cancelRequested, result, api, tries,
                         watcher, timedOut, pipeline, disruptions>>
          /\ faults' \in Nat
      BY <2>11, CallType DEF WriteCache
    <3>3. Return
      BY <2>11 DEF WriteCache
    <3> QED
      BY <3>1, <3>2, <3>3 DEF Return, Pcs, Frames, Goals
  <2>12. CASE RetryEvent
    <3>1. events' \in Seq(EventKinds)
      BY <2>12, LogType DEF RetryEvent, EventKinds
    <3> QED
      BY <2>12, <3>1
      DEF RetryEvent, Requeue, Returns, Raises, Pcs, Frames, Goals
  <2> QED
    BY <1>3, <2>1, <2>2, <2>3, <2>4, <2>5, <2>6, <2>7, <2>8, <2>9, <2>10, <2>11,
       <2>12
    DEF WorkerStep
<1>4. CASE WatcherFires
  BY <1>4 DEF WatcherFires
<1>5. CASE CleanupTimeout
  BY <1>5, CancelPipelineType DEF CleanupTimeout
<1>6. ASSUME NEW a \in Attempts, PipelineStep(a)
      PROVE  TypeInv'
  <2>1. \A p \in Pipes, o \in Outcomes :
          Pipeline(a, p, o) => /\ pipe' \in [Attempts -> Pipes]
                               /\ outcome' \in [Attempts -> Outcomes]
    BY BecomesType DEF Pipeline
  <2>2. outcome[a] \in Outcomes
    BY <1>6
  <2>3. /\ pipe' \in [Attempts -> Pipes]
        /\ outcome' \in [Attempts -> Outcomes]
        /\ UNCHANGED <<status, cancelRequested, cache, api, queue, worker,
                       sinkOff, disruptions>>
    BY <1>6, <2>1, <2>2
    DEF PipelineStep, PipelineStarts, PipelineWorks, AppendFinal, StoreFinal,
        ManagersClosed, EmitTail, Pipeline, Pipes, Outcomes, Answers
  <2>4. events' \in Seq(EventKinds)
    BY <1>6, LogType
    DEF PipelineStep, PipelineStarts, PipelineWorks, AppendFinal, StoreFinal,
        ManagersClosed, EmitTail, EventKinds
  <2>5. result' \in BOOLEAN
    BY <1>6
    DEF PipelineStep, PipelineStarts, PipelineWorks, AppendFinal, StoreFinal,
        ManagersClosed, EmitTail
  <2>6. faults' \in Nat
    BY <1>6, CallType
    DEF PipelineStep, PipelineStarts, PipelineWorks, AppendFinal, StoreFinal,
        ManagersClosed, EmitTail
  <2> QED
    BY <2>3, <2>4, <2>5, <2>6
<1>7. ASSUME NEW kind \in {"timeout", "shutdown"}, Interrupt(kind)
      PROVE  TypeInv'
  <2>1. timedOut' \in BOOLEAN
    BY <1>7 DEF Interrupt
  <2>2. disruptions' \in Nat
    BY <1>7 DEF Interrupt, Strikable
  <2>3. /\ pipe' \in [Attempts -> Pipes]
        /\ outcome' \in [Attempts -> Outcomes]
        /\ events' \in Seq(EventKinds)
        /\ result' \in BOOLEAN
    BY <1>7, CancelPipelineType DEF Interrupt
  <2>4. sinkOff' \in [Attempts -> BOOLEAN]
    BY <1>7 DEF Interrupt
  <2>5. pc' \in Pcs /\ frame' \in Frames /\ goal' \in Goals /\ EventHasEnding'
    BY <1>7
    DEF Interrupt, Commit, Requeue, Return, Pcs, Frames, Goals, Terminal
  <2>6. /\ job' \in {"none", "queued", "running", "finished"}
        /\ watcher' \in {"off", "polling", "fired"}
    BY <1>7 DEF Interrupt, Commit, Requeue, Return
  <2> QED
    BY <1>7, <2>1, <2>2, <2>3, <2>4, <2>5, <2>6 DEF Interrupt
<1>8. CASE Crash
  BY <1>8 DEF Crash, Requeue, Strikable, Pcs, Goals, Frames, Pipes
<1>9. CASE UNCHANGED vars
  BY <1>9
<1> QED
  BY <1>1, <1>2, <1>3, <1>4, <1>5, <1>6, <1>7, <1>8, <1>9 DEF Next

\* Every variable stays in its range, and a terminal event is committed for a
\* terminal status.
THEOREM TypeInvariant == Spec => []TypeInv
  BY TypeInit, TypeNext, PTL DEF Spec

\* The type invariant of the task, for every value of the constants.
THEOREM TypeCorrect == Spec => []TypeOK
<1>1. TypeInv => TypeOK
  BY DEF TypeInv
<1> QED
  BY <1>1, TypeInvariant, PTL

-----------------------------------------------------------------------------
(* A completed task has its result                                         *)

\* A result is never taken back.
LEMMA CancelPipelineResult ==
  ASSUME NEW a, CancelPipeline(a), result
  PROVE  result'
  BY DEF CancelPipeline

\* No exception leads to "completed".
LEMMA ThrowLands ==
  ASSUME Throw
  PROVE  \/ pc' = "event" /\ goal' = "failed"
         \/ pc' = "status" /\ goal' = "queued"
         \/ pc' \in {"ack", "idle"} /\ goal' = "none"
  BY DEF Throw, RunFailed, SetupFailed, Commit, Retry, Return, Requeue

LEMMA ResultNext == TypeInv /\ ResultInv /\ [Next]_vars => ResultInv'
<1> SUFFICES ASSUME TypeInv, ResultInv, [Next]_vars PROVE ResultInv'
  OBVIOUS
<1> USE DEF ResultInv, CompletedHasResult
<1>1. CASE ApiStep
  BY <1>1
  DEF ApiStep, Create, Enqueue, EnqueueFailedEvent, EnqueueFailedStatus,
      CancelCheck, CancelRequest
<1>2. CASE ArqStep
  BY <1>2 DEF ArqStep, Take, GiveUp, Acknowledge
<1>3. CASE WorkerStep
  <2>1. CASE Precheck \/ Build \/ CommitEvent \/ RetryEvent \/ WriteCache
    BY <2>1, ThrowLands
    DEF Precheck, Build, CommitEvent, RetryEvent, WriteCache, Commit, Update,
        Proceed, Requeue, Return
  <2>2. CASE Wake
    BY <2>2, CancelPipelineResult DEF Wake
  <2>3. CASE CleanedUp
    BY <2>3 DEF CleanedUp, Proceed
  <2>4. CASE StoreRegistry
    BY <2>4, ThrowLands DEF StoreRegistry, Commit, Proceed
  <2>5. CASE StoreQuality
    BY <2>5, ThrowLands DEF StoreQuality, Conclude, Commit, Proceed
  <2>6. CASE SaveResult
    BY <2>6, ThrowLands DEF SaveResult, Update
  <2>7. CASE UpdateStatus
    BY <2>7, ThrowLands DEF UpdateStatus, Proceed
  <2>8. CASE RefreshTTL
    BY <2>8, ThrowLands DEF RefreshTTL, AfterUpdate, Proceed, Return
  <2> QED
    BY <1>3, <2>1, <2>2, <2>3, <2>4, <2>5, <2>6, <2>7, <2>8 DEF WorkerStep
<1>4. CASE WatcherFires
  BY <1>4 DEF WatcherFires
<1>5. CASE CleanupTimeout
  BY <1>5, CancelPipelineResult DEF CleanupTimeout
<1>6. ASSUME NEW a \in Attempts, PipelineStep(a)
      PROVE  ResultInv'
  <2>1. UNCHANGED <<status, goal>> /\ (result => result')
    BY <1>6
    DEF PipelineStep, PipelineStarts, PipelineWorks, AppendFinal, StoreFinal,
        ManagersClosed, EmitTail, Pipeline
  <2> QED
    BY <2>1
<1>7. ASSUME NEW kind \in {"timeout", "shutdown"}, Interrupt(kind)
      PROVE  ResultInv'
  <2>1. UNCHANGED status /\ (result => result')
    BY <1>7, CancelPipelineResult DEF Interrupt
  <2>2. goal' = goal \/ goal' \in {"cancelled", "none"}
    BY <1>7 DEF Interrupt, Commit, Requeue, Return
  <2> QED
    BY <2>1, <2>2
<1>8. CASE Crash
  BY <1>8 DEF Crash, Requeue
<1>9. CASE UNCHANGED vars
  BY <1>9
<1> QED
  BY <1>1, <1>2, <1>3, <1>4, <1>5, <1>6, <1>7, <1>8, <1>9 DEF Next

LEMMA ResultInvariant == Spec => []ResultInv
<1>1. Init => ResultInv
  BY DEF Init, ResultInv, CompletedHasResult
<1> QED
  BY <1>1, TypeInvariant, ResultNext, PTL DEF Spec

\* A task that says completed has its report stored, whatever calls fail and
\* whenever a worker is struck.
THEOREM CompletedHasResultAlways == Spec => []CompletedHasResult
<1>1. ResultInv => CompletedHasResult
  BY DEF ResultInv
<1> QED
  BY <1>1, ResultInvariant, PTL

-----------------------------------------------------------------------------
(* Where the coroutine and its pipeline are                                *)

\* A pipeline that is cancelled is at most ended: one that has ended stays as
\* it is, and the others are left alone.
LEMMA CancelPipelineKeeps ==
  ASSUME TypeOK, NEW a \in Attempts, CancelPipeline(a)
  PROVE  /\ \A b \in Attempts : b # a =>
              pipe'[b] = pipe[b] /\ outcome'[b] = outcome[b]
         /\ pipe[a] \in {"none", "done"} =>
              pipe'[a] = pipe[a] /\ outcome'[a] = outcome[a]
         /\ pipe'[a] # "appendFinal"
         /\ outcome'[a] \in Answers => UNCHANGED <<pipe, outcome, events>>
  BY DEF TypeOK, CancelPipeline, Becomes, Answers

LEMMA ControlNext == TypeInv /\ Control /\ [Next]_vars => Control'
<1> SUFFICES ASSUME TypeInv, Control, [Next]_vars PROVE Control'
  OBVIOUS
<1> USE DEF Control, Running, GoalPlaces, NotYetRun, Fresh, PipelineEnded
<1>a. TypeOK
  BY DEF TypeInv
<1>b. \A a \in Attempts : a > tries => a # tries
  BY <1>a DEF TypeOK, Attempts
<1>1. CASE ApiStep
  BY <1>1
  DEF ApiStep, Create, Enqueue, EnqueueFailedEvent, EnqueueFailedStatus,
      CancelCheck, CancelRequest
<1>2. CASE ArqStep
  <2>1. CASE Take
    BY <2>1, <1>a, ParametersAssumption DEF Take, TypeOK, Attempts
  <2>2. CASE GiveUp \/ Acknowledge
    BY <2>2 DEF GiveUp, Acknowledge
  <2> QED
    BY <1>2, <2>1, <2>2 DEF ArqStep
<1>3. CASE WorkerStep
  <2>1. CASE Precheck
    BY <2>1 DEF Precheck, Commit, Update
  <2>2. CASE Build
    <3>1. CASE Throw
      BY <2>2, <3>1, ThrowLands DEF Build
    <3>2. CASE pc' = "wait" /\ goal' = "none"
      <4>1. /\ UNCHANGED <<tries, outcome, sinkOff>>
            /\ \A a \in Attempts : a # tries => pipe'[a] = pipe[a]
            /\ frame' = "run"
        BY <2>2, <3>2, <1>a, ThrowLands DEF Build, TypeOK
      <4> QED
        BY <2>2, <3>2, <4>1, <1>a, <1>b DEF Build
    <3> QED
      BY <2>2, <3>1, <3>2 DEF Build
  <2>3. CASE Wake
    BY <2>3, <1>a, CancelPipelineKeeps DEF Wake, TypeOK, Attempts
  <2>4. CASE CleanedUp
    BY <2>4 DEF CleanedUp, Proceed, Finished
  <2>5. CASE StoreRegistry
    BY <2>5, <1>a, ThrowLands
    DEF StoreRegistry, Commit, Proceed, TypeOK, Attempts
  <2>6. CASE StoreQuality
    BY <2>6, ThrowLands DEF StoreQuality, Conclude, Commit, Proceed
  <2>7. CASE SaveResult
    BY <2>7, ThrowLands DEF SaveResult, Update
  <2>8. CASE CommitEvent
    BY <2>8, <1>a DEF CommitEvent, Proceed
  <2>9. CASE UpdateStatus
    BY <2>9, ThrowLands DEF UpdateStatus, Proceed
  <2>10. CASE RefreshTTL
    BY <2>10, ThrowLands DEF RefreshTTL, AfterUpdate, Proceed, Return
  <2>11. CASE WriteCache \/ RetryEvent
    BY <2>11 DEF WriteCache, RetryEvent, Requeue, Return
  <2> QED
    BY <1>3, <2>1, <2>2, <2>3, <2>4, <2>5, <2>6, <2>7, <2>8, <2>9, <2>10, <2>11
    DEF WorkerStep
<1>4. CASE WatcherFires
  BY <1>4 DEF WatcherFires
<1>5. CASE CleanupTimeout
  BY <1>5, <1>a, CancelPipelineKeeps DEF CleanupTimeout, TypeOK, Attempts
<1>6. ASSUME NEW a \in Attempts, PipelineStep(a)
      PROVE  Control'
  <2>1. pipe[a] \notin {"none", "done"}
    BY <1>6
    DEF PipelineStep, PipelineStarts, PipelineWorks, AppendFinal, StoreFinal,
        ManagersClosed, EmitTail
  <2>2. /\ UNCHANGED <<tries, pc, goal, frame, sinkOff>>
        /\ \E p, o : Becomes(a, p, o)
    BY <1>6
    DEF PipelineStep, PipelineStarts, PipelineWorks, AppendFinal, StoreFinal,
        ManagersClosed, EmitTail, Pipeline
  <2> QED
    BY <2>1, <2>2, <1>a DEF Becomes, TypeOK, Attempts
<1>7. ASSUME NEW kind \in {"timeout", "shutdown"}, Interrupt(kind)
      PROVE  Control'
  <2>1. CASE pc = "cleanup"
    <3>1. CancelPipeline(tries) /\ UNCHANGED <<tries, pc, goal, frame, sinkOff>>
      BY <1>7, <2>1, ParametersAssumption DEF Interrupt, Commit, Return, Requeue
    <3> QED
      BY <2>1, <3>1, <1>a, CancelPipelineKeeps DEF TypeOK, Attempts
  <2>2. CASE pc # "cleanup"
    <3>1. UNCHANGED <<tries, pipe, outcome>>
      BY <1>7, <2>2 DEF Interrupt
    <3>2. /\ pc' \in {"event", "idle", "ack"} /\ pc # "idle"
          /\ goal' \in {"cancelled", "none"}
      BY <1>7, <2>2 DEF Interrupt, Commit, Requeue, Return
    <3>3. \A a \in Attempts : a # tries => sinkOff'[a] = sinkOff[a]
      BY <1>7, <2>2, <1>a DEF Interrupt, TypeOK
    <3> QED
      BY <3>1, <3>2, <3>3, <1>b
  <2> QED
    BY <2>1, <2>2
<1>8. CASE Crash
  BY <1>8, <1>a DEF Crash, Requeue, TypeOK, Attempts
<1>9. CASE UNCHANGED vars
  BY <1>9
<1> QED
  BY <1>1, <1>2, <1>3, <1>4, <1>5, <1>6, <1>7, <1>8, <1>9 DEF Next

LEMMA ControlInvariant == Spec => []Control
<1>1. Init => Control
  BY ParametersAssumption
  DEF Init, Control, Running, GoalPlaces, NotYetRun, Fresh, PipelineEnded,
      Attempts
<1> QED
  BY <1>1, TypeInvariant, ControlNext, PTL DEF Spec

-----------------------------------------------------------------------------
(* What the shared cache receives                                          *)

\* What moves a pipeline.
LEMMA PipeWriters ==
  [Next]_vars => \/ UNCHANGED <<pipe, outcome>>
                 \/ Build \/ Crash \/ CancelPipeline(tries)
                 \/ \E a \in Attempts : PipelineStep(a)
<1> SUFFICES ASSUME [Next]_vars, ~Build, ~Crash, ~CancelPipeline(tries),
                    ~\E a \in Attempts : PipelineStep(a)
             PROVE  UNCHANGED <<pipe, outcome>>
  OBVIOUS
<1>1. CASE ApiStep \/ ArqStep
  BY <1>1
  DEF ApiStep, Create, Enqueue, EnqueueFailedEvent, EnqueueFailedStatus,
      CancelCheck, CancelRequest, ArqStep, Take, GiveUp,
      Acknowledge
<1>2. CASE WorkerStep \/ WatcherFires \/ CleanupTimeout
  BY <1>2
  DEF WorkerStep, Precheck, Wake, CleanedUp, StoreRegistry, StoreQuality,
      SaveResult, CommitEvent, UpdateStatus, RefreshTTL, WriteCache, RetryEvent,
      WatcherFires, CleanupTimeout
<1>3. ASSUME NEW kind, Interrupt(kind) PROVE UNCHANGED <<pipe, outcome>>
  BY <1>3 DEF Interrupt
<1> QED
  BY <1>1, <1>2, <1>3 DEF Next

\* A pipeline that has ended stays ended, and keeps what it returned.
LEMMA EndedStays ==
  ASSUME TypeInv, Control, [Next]_vars
  PROVE  \A a \in Attempts :
           pipe[a] = "done" => pipe'[a] = "done" /\ outcome'[a] = outcome[a]
<1> SUFFICES ASSUME NEW b \in Attempts, pipe[b] = "done"
             PROVE  pipe'[b] = "done" /\ outcome'[b] = outcome[b]
  OBVIOUS
<1>a. TypeOK /\ NotYetRun
  BY DEF TypeInv, Control
<1>1. CASE UNCHANGED <<pipe, outcome>>
  BY <1>1
<1>2. CASE Build
  BY <1>2, <1>a DEF Build, NotYetRun, Fresh, TypeOK
<1>3. CASE CancelPipeline(tries)
  BY <1>3, <1>a DEF CancelPipeline, Becomes, TypeOK
<1>4. ASSUME NEW a \in Attempts, PipelineStep(a)
      PROVE  pipe'[b] = "done" /\ outcome'[b] = outcome[b]
  <2>1. pipe[a] # "done" /\ \E p, o : Becomes(a, p, o)
    BY <1>4
    DEF PipelineStep, PipelineStarts, PipelineWorks, AppendFinal, StoreFinal,
        ManagersClosed, EmitTail, Pipeline
  <2> QED
    BY <2>1, <1>a DEF Becomes, TypeOK
<1>5. CASE Crash
  BY <1>5, <1>a DEF Crash, TypeOK
<1> QED
  BY <1>1, <1>2, <1>3, <1>4, <1>5, PipeWriters

\* A result is never taken back.
LEMMA ResultStays == result /\ [Next]_vars => result'
<1> SUFFICES ASSUME result, [Next]_vars PROVE result'
  OBVIOUS
<1>1. CASE ApiStep \/ ArqStep
  BY <1>1
  DEF ApiStep, Create, Enqueue, EnqueueFailedEvent, EnqueueFailedStatus,
      CancelCheck, CancelRequest, ArqStep, Take, GiveUp,
      Acknowledge
<1>2. CASE WorkerStep
  BY <1>2, CancelPipelineResult
  DEF WorkerStep, Precheck, Build, Wake, CleanedUp, StoreRegistry,
      StoreQuality, SaveResult, CommitEvent, UpdateStatus, RefreshTTL,
      WriteCache, RetryEvent
<1>3. CASE WatcherFires \/ CleanupTimeout \/ Crash
  BY <1>3, CancelPipelineResult DEF WatcherFires, CleanupTimeout, Crash
<1>4. ASSUME NEW a, PipelineStep(a) PROVE result'
  BY <1>4
  DEF PipelineStep, PipelineStarts, PipelineWorks, AppendFinal, StoreFinal,
      ManagersClosed, EmitTail
<1>5. ASSUME NEW kind, Interrupt(kind) PROVE result'
  BY <1>5, CancelPipelineResult DEF Interrupt
<1> QED
  BY <1>1, <1>2, <1>3, <1>4, <1>5 DEF Next

\* Only WriteCache writes the shared cache.
LEMMA CacheWriter == cache' /\ [Next]_vars => cache \/ WriteCache
<1> SUFFICES ASSUME cache', [Next]_vars PROVE cache \/ WriteCache
  OBVIOUS
<1>1. CASE ApiStep \/ ArqStep
  BY <1>1
  DEF ApiStep, Create, Enqueue, EnqueueFailedEvent, EnqueueFailedStatus,
      CancelCheck, CancelRequest, ArqStep, Take, GiveUp,
      Acknowledge
<1>2. CASE WorkerStep
  BY <1>2
  DEF WorkerStep, Precheck, Build, Wake, CleanedUp, StoreRegistry,
      StoreQuality, SaveResult, CommitEvent, UpdateStatus, RefreshTTL,
      RetryEvent
<1>3. CASE WatcherFires \/ CleanupTimeout \/ Crash
  BY <1>3 DEF WatcherFires, CleanupTimeout, Crash
<1>4. ASSUME NEW a, PipelineStep(a) PROVE cache
  BY <1>4
  DEF PipelineStep, PipelineStarts, PipelineWorks, AppendFinal, StoreFinal,
      ManagersClosed, EmitTail, Pipeline
<1>5. ASSUME NEW kind, Interrupt(kind) PROVE cache
  BY <1>5 DEF Interrupt
<1> QED
  BY <1>1, <1>2, <1>3, <1>4, <1>5 DEF Next

LEMMA CacheNext ==
  TypeInv /\ Control /\ ResultInv /\ CacheInv /\ [Next]_vars => CacheInv'
<1> SUFFICES ASSUME TypeInv, Control, ResultInv, CacheInv, [Next]_vars
             PROVE  CacheInv'
  OBVIOUS
<1>a. TypeOK /\ GoalPlaces /\ Running /\ PipelineEnded
  BY DEF TypeInv, Control
<1> DEFINE Reported ==
      pc = "saveResult" \/ goal = "completed" => outcome[tries] \in Answers
<1>1. Reported'
  <2>1. Reported
    BY DEF CacheInv
  <2>2. CASE pc' # "saveResult" /\ goal' # "completed"
    BY <2>2
  <2>3. CASE /\ pc' = "saveResult" \/ goal' = "completed"
             /\ UNCHANGED <<pc, goal, tries>>
    <3>1. tries \in Attempts /\ pipe[tries] = "done"
      BY <2>3, <1>a DEF Running, GoalPlaces, PipelineEnded
    <3> QED
      BY <2>1, <2>3, <3>1, EndedStays
  <2>4. CASE ApiStep \/ WatcherFires \/ UNCHANGED vars
             \/ \E a \in Attempts : PipelineStep(a)
    <3>1. UNCHANGED <<pc, goal, tries>>
      BY <2>4
      DEF ApiStep, Create, Enqueue, EnqueueFailedEvent, EnqueueFailedStatus,
          CancelCheck, CancelRequest, WatcherFires, PipelineStep,
          PipelineStarts, PipelineWorks, AppendFinal, StoreFinal,
          ManagersClosed, EmitTail, Pipeline
    <3> QED
      BY <2>2, <2>3, <3>1
  <2>5. CASE ArqStep
    BY <2>5, <1>a
    DEF ArqStep, Take, GiveUp, Acknowledge, GoalPlaces
  <2>6. CASE WorkerStep
    <3>1. CASE Precheck \/ Build \/ Wake \/ CommitEvent \/ RetryEvent
               \/ WriteCache
      BY <3>1, <2>2, <1>a, ThrowLands
      DEF Precheck, Build, Wake, CommitEvent, RetryEvent, WriteCache, Commit,
          Update, Proceed, Requeue, Return, GoalPlaces
    <3>2. CASE CleanedUp \/ StoreRegistry
      BY <3>2, <2>2, <1>a, ThrowLands
      DEF CleanedUp, StoreRegistry, Commit, Proceed, GoalPlaces
    <3>3. CASE StoreQuality
      BY <3>3, ThrowLands DEF StoreQuality, Conclude, Commit, Proceed
    <3>4. CASE SaveResult
      BY <3>4, <2>1, ThrowLands DEF SaveResult, Update
    <3>5. CASE UpdateStatus \/ RefreshTTL
      BY <3>5, <2>1, ThrowLands
      DEF UpdateStatus, RefreshTTL, AfterUpdate, Proceed, Return
    <3> QED
      BY <2>6, <3>1, <3>2, <3>3, <3>4, <3>5 DEF WorkerStep
  <2>7. CASE CleanupTimeout
    BY <2>7, <1>a, <2>2 DEF CleanupTimeout, GoalPlaces
  <2>8. ASSUME NEW kind \in {"timeout", "shutdown"}, Interrupt(kind)
        PROVE  Reported'
    BY <2>8, <2>2, <1>a DEF Interrupt, Commit, Requeue, Return, GoalPlaces
  <2>9. CASE Crash
    BY <2>9, <2>2 DEF Crash, Requeue
  <2> QED
    BY <2>4, <2>5, <2>6, <2>7, <2>8, <2>9 DEF Next
<1> HIDE DEF Reported
<1>2. CASE cache
  BY <1>1, <1>2, EndedStays, ResultStays DEF CacheInv, Reported
<1>3. CASE WriteCache /\ ~cache
  <2>1. goal = "completed" /\ tries \in Attempts
    BY <1>3, <1>a DEF WriteCache, GoalPlaces, Running
  <2>2. result /\ pipe[tries] = "done"
    BY <2>1, <1>a DEF ResultInv, PipelineEnded
  <2>3. cache' => outcome[tries] = "answer"
    BY <1>3 DEF WriteCache, Cacheable
  <2> QED
    BY <1>1, <2>1, <2>2, <2>3, EndedStays, ResultStays DEF CacheInv, Reported
<1>4. CASE ~cache'
  BY <1>1, <1>4 DEF CacheInv, Reported
<1> QED
  BY <1>2, <1>3, <1>4, CacheWriter

LEMMA CacheInvariant == Spec => []CacheInv
<1>1. Init => CacheInv
  BY DEF Init, CacheInv
<1> QED
  BY <1>1, TypeInvariant, ControlInvariant, ResultInvariant, CacheNext, PTL
  DEF Spec

\* The shared cache only ever receives the full answer of a pipeline that ended
\* with it: not a degraded, failed or cancelled one, and none without a result.
THEOREM CacheHoldsAnswerAlways == Spec => []CacheHoldsAnswer
<1>1. CacheInv => CacheHoldsAnswer
  BY DEF CacheInv, CacheHoldsAnswer
<1> QED
  BY <1>1, CacheInvariant, PTL

-----------------------------------------------------------------------------
(* Events first, status second                                             *)

\* An event that is in the stream stays there when another is appended ...
LEMMA LogKeeps ==
  ASSUME TypeOK, NEW e, NEW x \in EventKinds, events' = Append(events, x),
         Logged(e)
  PROVE  Logged(e)'
  BY DEF TypeOK, Logged

\* ... and the one that was appended is.
LEMMA LogAdds ==
  ASSUME TypeOK, NEW x \in EventKinds, Log(x)
  PROVE  Logged(x)'
<1>1. Len(events') = Len(events) + 1 /\ Len(events) \in Nat
  BY DEF TypeOK, Log
<1>2. events'[Len(events) + 1] = x
  BY DEF TypeOK, Log
<1> QED
  BY <1>1, <1>2 DEF Logged

\* The stream is only ever appended to.
LEMMA EventsGrow ==
  ASSUME TypeInv, [Next]_vars
  PROVE  events' = events \/ \E x \in EventKinds : events' = Append(events, x)
<1> DEFINE Grow ==
      events' = events \/ \E x \in EventKinds : events' = Append(events, x)
<1>a. \A x \in EventKinds : Log(x) \/ MaybeLog(x) => Grow
  BY DEF Log, MaybeLog
<1>b. ASSUME NEW a, CancelPipeline(a) PROVE Grow
  BY <1>a, <1>b DEF CancelPipeline, EventKinds
<1> HIDE DEF Grow
<1>c. UNCHANGED events => Grow
  BY DEF Grow
<1>1. ASSUME ApiStep \/ ArqStep PROVE Grow
  BY <1>1, <1>a, <1>c
  DEF ApiStep, Create, Enqueue, EnqueueFailedEvent, EnqueueFailedStatus,
      CancelCheck, CancelRequest, ArqStep, Take, GiveUp,
      Acknowledge, EventKinds
<1>2. ASSUME WorkerStep PROVE Grow
  <2>1. CASE CommitEvent
    BY <2>1, <1>a, TerminalEventType DEF CommitEvent, TypeInv, EventHasEnding
  <2> QED
    BY <1>2, <2>1, <1>a, <1>b, <1>c
    DEF WorkerStep, Precheck, Build, Wake, CleanedUp, StoreRegistry,
        StoreQuality, SaveResult, UpdateStatus, RefreshTTL, WriteCache,
        RetryEvent, EventKinds
<1>3. ASSUME WatcherFires \/ CleanupTimeout \/ Crash PROVE Grow
  BY <1>3, <1>b, <1>c DEF WatcherFires, CleanupTimeout, Crash
<1>4. ASSUME NEW a, PipelineStep(a) PROVE Grow
  BY <1>4, <1>a, <1>c
  DEF PipelineStep, PipelineStarts, PipelineWorks, AppendFinal, StoreFinal,
      ManagersClosed, EmitTail, EventKinds
<1>5. ASSUME NEW kind, Interrupt(kind) PROVE Grow
  BY <1>5, <1>b, <1>c DEF Interrupt
<1> QED
  BY <1>1, <1>2, <1>3, <1>4, <1>5, <1>c DEF Next, Grow

LEMMA LoggedStays ==
  ASSUME TypeInv, [Next]_vars, NEW e, Logged(e)
  PROVE  Logged(e)'
<1>1. CASE events' = events
  BY <1>1 DEF Logged
<1>2. CASE \E x \in EventKinds : events' = Append(events, x)
  BY <1>2, LogKeeps DEF TypeInv
<1> QED
  BY <1>1, <1>2, EventsGrow

\* Who writes the status.
LEMMA StatusWriters ==
  [Next]_vars => status' = status \/ Create \/ EnqueueFailedStatus \/ UpdateStatus
<1> SUFFICES ASSUME [Next]_vars, ~Create, ~EnqueueFailedStatus, ~UpdateStatus
             PROVE  status' = status
  OBVIOUS
<1>1. CASE ApiStep \/ ArqStep
  BY <1>1
  DEF ApiStep, Enqueue, EnqueueFailedEvent, CancelCheck, CancelRequest, ArqStep,
      Take, GiveUp, Acknowledge
<1>2. CASE WorkerStep
  BY <1>2
  DEF WorkerStep, Precheck, Build, Wake, CleanedUp, StoreRegistry,
      StoreQuality, SaveResult, CommitEvent, RefreshTTL, WriteCache, RetryEvent
<1>3. CASE WatcherFires \/ CleanupTimeout \/ Crash
  BY <1>3 DEF WatcherFires, CleanupTimeout, Crash
<1>4. ASSUME NEW a, PipelineStep(a) PROVE status' = status
  BY <1>4
  DEF PipelineStep, PipelineStarts, PipelineWorks, AppendFinal, StoreFinal,
      ManagersClosed, EmitTail, Pipeline
<1>5. ASSUME NEW kind, Interrupt(kind) PROVE status' = status
  BY <1>5 DEF Interrupt
<1> QED
  BY <1>1, <1>2, <1>3, <1>4, <1>5 DEF Next

\* Who serves the submission.
LEMMA ClientWriters ==
  [Next]_vars => \/ client' = client \/ Create \/ Enqueue
                 \/ EnqueueFailedEvent \/ EnqueueFailedStatus
<1> SUFFICES ASSUME [Next]_vars, ~ApiStep PROVE client' = client
  BY DEF ApiStep, CancelCheck, CancelRequest
<1>1. CASE ArqStep
  BY <1>1 DEF ArqStep, Take, GiveUp, Acknowledge
<1>2. CASE WorkerStep
  BY <1>2
  DEF WorkerStep, Precheck, Build, Wake, CleanedUp, StoreRegistry, StoreQuality,
      SaveResult, CommitEvent, UpdateStatus, RefreshTTL, WriteCache, RetryEvent
<1>3. CASE WatcherFires \/ CleanupTimeout \/ Crash
  BY <1>3 DEF WatcherFires, CleanupTimeout, Crash
<1>4. ASSUME NEW a, PipelineStep(a) PROVE client' = client
  BY <1>4
  DEF PipelineStep, PipelineStarts, PipelineWorks, AppendFinal, StoreFinal,
      ManagersClosed, EmitTail, Pipeline
<1>5. ASSUME NEW kind, Interrupt(kind) PROVE client' = client
  BY <1>5 DEF Interrupt
<1> QED
  BY <1>1, <1>2, <1>3, <1>4, <1>5 DEF Next

\* The coroutine starts to wait when the runtime components are built, and what
\* it does afterwards leaves its attempt and its open sink as they are.
LEMMA RunEntered ==
  ASSUME TypeInv, Control, [Next]_vars, InRun'
  PROVE  \/ Build /\ pipe' = [pipe EXCEPT ![tries] = "started"]
         \/ InRun /\ UNCHANGED <<tries, sinkOff>>
<1> USE DEF InRun
<1>a. GoalPlaces
  BY DEF Control
<1>1. CASE ApiStep \/ ArqStep
  BY <1>1
  DEF ApiStep, Create, Enqueue, EnqueueFailedEvent, EnqueueFailedStatus,
      CancelCheck, CancelRequest, ArqStep, Take, GiveUp,
      Acknowledge
<1>2. CASE WorkerStep
  <2>1. CASE Precheck \/ Build \/ Wake \/ CleanedUp
    BY <2>1, ThrowLands
    DEF Precheck, Build, Wake, CleanedUp, Commit, Update, Proceed
  <2>2. CASE StoreRegistry \/ StoreQuality \/ SaveResult
    BY <2>2, ThrowLands
    DEF StoreRegistry, StoreQuality, SaveResult, Conclude, Commit, Update,
        Proceed
  <2>3. CASE CommitEvent \/ UpdateStatus \/ RefreshTTL \/ WriteCache
             \/ RetryEvent
    BY <2>3, ThrowLands
    DEF CommitEvent, UpdateStatus, RefreshTTL, WriteCache, RetryEvent,
        AfterUpdate, Return, Requeue, Proceed
  <2> QED
    BY <1>2, <2>1, <2>2, <2>3 DEF WorkerStep
<1>3. CASE WatcherFires \/ CleanupTimeout \/ Crash
  BY <1>3 DEF WatcherFires, CleanupTimeout, Crash, Requeue
<1>4. ASSUME NEW a, PipelineStep(a) PROVE InRun /\ UNCHANGED <<tries, sinkOff>>
  BY <1>4
  DEF PipelineStep, PipelineStarts, PipelineWorks, AppendFinal, StoreFinal,
      ManagersClosed, EmitTail, Pipeline
<1>5. ASSUME NEW kind, Interrupt(kind)
      PROVE  InRun /\ UNCHANGED <<tries, sinkOff>>
  BY <1>5, <1>a DEF Interrupt, Commit, Return, Requeue, GoalPlaces
<1>6. CASE UNCHANGED vars
  BY <1>6
<1> QED
  BY <1>1, <1>2, <1>3, <1>4, <1>5, <1>6 DEF Next

LEMMA EventNext ==
  TypeInv /\ Control /\ CacheInv /\ EventInv /\ [Next]_vars => EventInv'
<1> SUFFICES ASSUME TypeInv, Control, CacheInv, EventInv, [Next]_vars,
                    "append" \notin FaultyCalls
             PROVE  /\ EventBeforeStatus' /\ GoalLogged' /\ RejectLogged'
                    /\ SinkOpen' /\ AnswerLogged'
  BY DEF EventInv
<1>a. TypeOK /\ Running /\ GoalPlaces /\ NotYetRun /\ PipelineEnded
  BY DEF TypeInv, Control
<1>b. EventBeforeStatus /\ GoalLogged /\ RejectLogged /\ SinkOpen /\ AnswerLogged
  BY DEF EventInv
<1>c. ~Raises("append")
  BY DEF Raises
<1>1. EventBeforeStatus'
  <2>1. CASE status' = status
    BY <2>1, <1>b, LoggedStays DEF EventBeforeStatus, TerminalEvent
  <2>2. CASE Create /\ status' # status
    BY <2>2 DEF Create, EventBeforeStatus, Terminal
  <2>3. CASE EnqueueFailedStatus /\ status' # status
    <3>1. status' = "failed" /\ Logged("error")
      BY <2>3, <1>b DEF EnqueueFailedStatus, RejectLogged
    <3> QED
      BY <3>1, LoggedStays DEF EventBeforeStatus, TerminalEvent
  <2>4. CASE UpdateStatus /\ status' # status
    <3>1. status' = goal /\ (goal \in Terminal => Logged(TerminalEvent(goal)))
      BY <2>4, <1>b DEF UpdateStatus, GoalLogged
    <3> QED
      BY <3>1, LoggedStays DEF EventBeforeStatus, TerminalEvent
  <2> QED
    BY <2>1, <2>2, <2>3, <2>4, StatusWriters
<1>2. RejectLogged'
  <2>1. CASE client' = client
    BY <2>1, <1>b, LoggedStays DEF RejectLogged
  <2>2. CASE EnqueueFailedEvent
    BY <2>2, <1>a, <1>c, LogAdds DEF EnqueueFailedEvent, RejectLogged, EventKinds
  <2>3. CASE Create \/ Enqueue \/ EnqueueFailedStatus
    <3>1. client' = "failStatus" => Enqueue /\ FALSE
      BY <2>3 DEF Create, Enqueue, EnqueueFailedStatus
    <3> QED
      BY <3>1 DEF RejectLogged
  <2> QED
    BY <2>1, <2>2, <2>3, ClientWriters
<1>3. SinkOpen'
  <2>1. CASE InRun /\ UNCHANGED <<tries, sinkOff>>
    BY <2>1, <1>b DEF SinkOpen
  <2>2. CASE Build
    BY <2>2, <1>a DEF Build, NotYetRun, Fresh, SinkOpen
  <2> QED
    BY <2>1, <2>2, RunEntered DEF SinkOpen
<1>4. AnswerLogged'
  <2> SUFFICES ASSUME InRun', outcome'[tries'] \in Answers,
                      pipe'[tries'] # "appendFinal"
               PROVE  Logged("final_output")'
    BY DEF AnswerLogged
  <2>1. CASE Build /\ pipe' = [pipe EXCEPT ![tries] = "started"]
    BY <2>1, <1>a DEF Build, NotYetRun, Fresh, Answers
  <2>2. CASE InRun /\ UNCHANGED <<tries, sinkOff>>
    <3>a. tries \in Attempts /\ sinkOff[tries] = FALSE
      BY <2>2, <1>a, <1>b DEF InRun, Running, SinkOpen
    <3>1. CASE outcome'[tries] = outcome[tries] /\ pipe[tries] # "appendFinal"
      BY <2>2, <3>1, <1>b, LoggedStays DEF AnswerLogged
    <3>2. CASE UNCHANGED <<pipe, outcome>>
      BY <2>2, <3>1, <3>2
    <3>3. CASE Build \/ Crash
      BY <2>2, <3>3 DEF Build, Crash, Requeue, InRun
    <3>4. CASE CancelPipeline(tries)
      BY <2>2, <3>a, <3>2, <3>4, <1>a, CancelPipelineKeeps
    <3>5. ASSUME NEW a \in Attempts, PipelineStep(a), a # tries
          PROVE  Logged("final_output")'
      <4>1. \E p, o : Becomes(a, p, o)
        BY <3>5
        DEF PipelineStep, PipelineStarts, PipelineWorks, AppendFinal,
            StoreFinal, ManagersClosed, EmitTail, Pipeline
      <4>2. pipe'[tries] = pipe[tries] /\ outcome'[tries] = outcome[tries]
        BY <4>1, <3>5, <3>a, <1>a DEF Becomes, TypeOK
      <4> QED
        BY <4>2, <3>1, <2>2
    <3>6. CASE AppendFinal(tries)
      BY <3>6, <1>a, <1>c, LogAdds DEF AppendFinal, EventKinds
    <3>7. CASE PipelineWorks(tries)
      <4>1. /\ \/ Becomes(tries, "appendFinal", outcome'[tries])
               \/ \E o \in {"blank", "failed", "cancelled"} :
                    Becomes(tries, "closing", o)
        BY <3>7, <3>a, <1>a DEF PipelineWorks, Pipeline, Becomes, TypeOK
      <4> QED
        BY <4>1, <3>a, <2>2, <1>a DEF Becomes, TypeOK, Answers
    <3>8. CASE \/ PipelineStarts(tries) \/ StoreFinal(tries)
               \/ ManagersClosed(tries) \/ EmitTail(tries)
      BY <3>8, <3>a, <3>1, <2>2, <1>a
      DEF PipelineStarts, StoreFinal, ManagersClosed, EmitTail, Pipeline,
          Becomes, TypeOK, Answers
    <3> QED
      BY <3>2, <3>3, <3>4, <3>5, <3>6, <3>7, <3>8, PipeWriters DEF PipelineStep
  <2> QED
    BY <2>1, <2>2, RunEntered
<1>5. GoalLogged'
  <2> SUFFICES ASSUME NEW g \in Terminal, goal' = g, pc' \in {"status", "expire"}
               PROVE  Logged(TerminalEvent(g))'
    BY DEF GoalLogged, TerminalEvent, Logged
  <2>1. CASE pc \in {"status", "expire"} /\ goal = g
    BY <2>1, <1>b, LoggedStays DEF GoalLogged
  <2>2. CASE ApiStep \/ WatcherFires \/ UNCHANGED vars
             \/ \E a \in Attempts : PipelineStep(a)
    BY <2>1, <2>2
    DEF ApiStep, Create, Enqueue, EnqueueFailedEvent, EnqueueFailedStatus,
        CancelCheck, CancelRequest, WatcherFires, PipelineStep, PipelineStarts,
        PipelineWorks, AppendFinal, StoreFinal, ManagersClosed, EmitTail,
        Pipeline
  <2>3. CASE ArqStep \/ CleanupTimeout \/ Crash
    BY <2>1, <2>3
    DEF ArqStep, Take, GiveUp, Acknowledge, CleanupTimeout, Crash,
        Requeue
  <2>4. ASSUME NEW kind, Interrupt(kind)
        PROVE  Logged(TerminalEvent(g))'
    BY <2>1, <2>4, <1>a DEF Interrupt, Commit, Requeue, Return
  <2>5. CASE CommitEvent
    <3>1. goal' = goal /\ goal \in Terminal /\ Log(TerminalEvent(goal))
      BY <2>5, <1>c DEF CommitEvent, Proceed
    <3> QED
      BY <3>1, <1>a, TerminalEventType, LogAdds
  <2>6. CASE SaveResult
    <3>1. pc = "saveResult" /\ goal' = "completed"
      BY <2>6, ThrowLands DEF SaveResult, Update, Terminal
    <3>2. Logged("final_output")
      BY <3>1, <1>a, <1>b DEF CacheInv, AnswerLogged, InRun, PipelineEnded
    <3> QED
      BY <3>1, <3>2, LoggedStays DEF TerminalEvent
  <2>7. CASE UpdateStatus
    BY <2>1, <2>7, ThrowLands DEF UpdateStatus, Proceed, Terminal
  <2>8. CASE Precheck \/ Build \/ Wake \/ CleanedUp \/ RefreshTTL
             \/ WriteCache \/ RetryEvent
    BY <2>8, ThrowLands
    DEF Precheck, Build, Wake, CleanedUp, RefreshTTL, WriteCache, RetryEvent,
        Commit, Update, Proceed, AfterUpdate, Return, Requeue, Terminal
  <2>9. CASE StoreRegistry \/ StoreQuality
    BY <2>9, ThrowLands
    DEF StoreRegistry, StoreQuality, Conclude, Commit, Proceed, Terminal
  <2> QED
    BY <2>2, <2>3, <2>4, <2>5, <2>6, <2>7, <2>8, <2>9 DEF Next, WorkerStep
<1> QED
  BY <1>1, <1>2, <1>3, <1>4, <1>5

\* Whoever reads a terminal status finds the event of that ending in the stream
\* already, as long as appends do not fail: "events first, status second".
THEOREM EventBeforeStatusAlways == Spec => []EventBeforeStatus
<1>1. Init => EventInv
  BY DEF Init, EventInv, EventBeforeStatus, GoalLogged, RejectLogged, SinkOpen,
         AnswerLogged, InRun, Terminal
<1>2. EventInv => EventBeforeStatus
  BY DEF EventInv, EventBeforeStatus
<1> QED
  BY <1>1, <1>2, TypeInvariant, ControlInvariant, CacheInvariant, EventNext, PTL
  DEF Spec

-----------------------------------------------------------------------------
(* Handlers and the queue                                                  *)

\* Where an exception leads, with the handler that takes over.
LEMMA ThrowHandler ==
  ASSUME TypeOK, Throw
  PROVE  \/ pc' = "event" /\ goal' = "failed" /\ frame' \in {"handler", "lastTry"}
              /\ job' = job
         \/ pc' = "status" /\ goal' = "queued" /\ frame' = "retry" /\ job' = job
              /\ frame \in {"setup", "handler"} /\ tries < MaxTries
         \/ pc' = "ack" /\ goal' = "none" /\ frame' = "setup" /\ job' = job
              /\ frame \in {"cancelHandler", "lastTry"}
         \/ pc' = "idle" /\ goal' = "none" /\ frame' = "setup" /\ job' = "queued"
              /\ frame = "retry"
  BY DEF Throw, RunFailed, SetupFailed, Commit, Retry, Return, Requeue

LEMMA PlacesNext == TypeInv /\ Control /\ Places /\ [Next]_vars => Places'
<1> SUFFICES ASSUME TypeInv, Control, Places, [Next]_vars PROVE Places'
  OBVIOUS
<1>a. TypeOK /\ EventHasEnding /\ GoalPlaces
  BY DEF TypeInv, Control
<1> USE DEF Places, QueuePlaces, HandlerPlaces
<1>1. CASE ApiStep
  BY <1>1
  DEF ApiStep, Create, Enqueue, EnqueueFailedEvent, EnqueueFailedStatus,
      CancelCheck, CancelRequest
<1>2. CASE ArqStep
  BY <1>2 DEF ArqStep, Take, GiveUp, Acknowledge
<1>3. CASE WorkerStep
  <2>1. UNCHANGED <<client, tries>>
    BY <1>3
    DEF WorkerStep, Precheck, Build, Wake, CleanedUp, StoreRegistry,
        StoreQuality, SaveResult, CommitEvent, UpdateStatus, RefreshTTL,
        WriteCache, RetryEvent
  <2>2. pc # "idle"
    BY <1>3
    DEF WorkerStep, Precheck, Build, Wake, CleanedUp, StoreRegistry,
        StoreQuality, SaveResult, CommitEvent, UpdateStatus, RefreshTTL,
        WriteCache, RetryEvent
  <2>3. CASE Throw
    BY <2>1, <2>2, <2>3, <1>a, ThrowHandler DEF Terminal
  <2>4. CASE Precheck
    BY <2>1, <2>4 DEF Precheck, Commit, Update, Terminal
  <2>5. CASE Build /\ ~Throw
    BY <2>1, <2>5 DEF Build
  <2>6. CASE Wake \/ CleanedUp
    BY <2>1, <2>6, <1>a DEF Wake, CleanedUp, Proceed, GoalPlaces
  <2>7. CASE (StoreRegistry \/ StoreQuality \/ SaveResult) /\ ~Throw
    BY <2>1, <2>2, <2>7, <1>a
    DEF StoreRegistry, StoreQuality, SaveResult, Conclude, Commit, Update,
        Proceed, GoalPlaces, Terminal
  <2>8. CASE (CommitEvent \/ UpdateStatus) /\ ~Throw
    BY <2>1, <2>2, <2>8, <1>a
    DEF CommitEvent, UpdateStatus, Proceed, EventHasEnding, Terminal
  <2>9. CASE (RefreshTTL \/ WriteCache \/ RetryEvent) /\ ~Throw
    BY <2>1, <2>2, <2>9
    DEF RefreshTTL, WriteCache, RetryEvent, AfterUpdate, Return, Requeue, Proceed
  <2> QED
    BY <1>3, <2>3, <2>4, <2>5, <2>6, <2>7, <2>8, <2>9 DEF WorkerStep
<1>4. CASE WatcherFires
  BY <1>4 DEF WatcherFires
<1>5. CASE CleanupTimeout
  BY <1>5 DEF CleanupTimeout
<1>6. ASSUME NEW a, PipelineStep(a) PROVE Places'
  BY <1>6
  DEF PipelineStep, PipelineStarts, PipelineWorks, AppendFinal, StoreFinal,
      ManagersClosed, EmitTail, Pipeline
<1>7. ASSUME NEW kind, Interrupt(kind) PROVE Places'
  BY <1>7 DEF Interrupt, Commit, Requeue, Return, Terminal
<1>8. CASE Crash
  BY <1>8 DEF Crash, Requeue
<1>9. CASE UNCHANGED vars
  BY <1>9
<1> QED
  BY <1>1, <1>2, <1>3, <1>4, <1>5, <1>6, <1>7, <1>8, <1>9 DEF Next

LEMMA PlacesInvariant == Spec => []Places
<1>1. Init => Places
  BY DEF Init, Places, QueuePlaces, HandlerPlaces
<1> QED
  BY <1>1, TypeInvariant, ControlInvariant, PlacesNext, PTL DEF Spec

-----------------------------------------------------------------------------
(* A finished job leaves a terminal status                                 *)

\* Strikes are counted, and what is not counted did not happen.
LEMMA NoStrike ==
  ASSUME TypeInv, [Next]_vars, disruptions' = 0
  PROVE  disruptions = 0 /\ ~Crash /\ \A kind : ~Interrupt(kind)
<1>a. disruptions \in Nat
  BY DEF TypeInv, TypeOK
<1>1. ~Crash /\ \A kind : ~Interrupt(kind)
  BY <1>a DEF Crash, Interrupt, Strikable
<1>2. ASSUME ApiStep \/ ArqStep PROVE disruptions = 0
  BY <1>2
  DEF ApiStep, Create, Enqueue, EnqueueFailedEvent, EnqueueFailedStatus,
      CancelCheck, CancelRequest, ArqStep, Take, GiveUp, Acknowledge
<1>3. ASSUME WorkerStep \/ WatcherFires \/ CleanupTimeout PROVE disruptions = 0
  BY <1>1, <1>3
  DEF WorkerStep, Precheck, Build, Wake, CleanedUp, StoreRegistry,
      StoreQuality, SaveResult, CommitEvent, UpdateStatus, RefreshTTL,
      WriteCache, RetryEvent, WatcherFires, CleanupTimeout
<1>4. ASSUME NEW a, PipelineStep(a)
      PROVE  disruptions = 0
  BY <1>4
  DEF PipelineStep, PipelineStarts, PipelineWorks, AppendFinal, StoreFinal,
      ManagersClosed, EmitTail, Pipeline
<1>5. ASSUME UNCHANGED vars PROVE disruptions = 0
  BY <1>5
<1> QED
  BY <1>1, <1>2, <1>3, <1>4, <1>5 DEF Next

LEMMA EndingNext ==
  TypeInv /\ Control /\ Places /\ EndingInv /\ [Next]_vars => EndingInv'
<1> DEFINE Ending ==
      /\ job = "finished" \/ pc \in {"ack", "cache"} => status \in Terminal
      /\ pc = "expire" /\ goal \in Terminal => status \in Terminal
      /\ job = "queued" => tries < MaxTries
      /\ frame # "cancelHandler"
<1> SUFFICES ASSUME TypeInv, Control, Places, EndingInv, [Next]_vars,
                    "status" \notin FaultyCalls, disruptions' = 0
             PROVE  Ending'
  BY DEF EndingInv
<1>a. TypeOK /\ GoalPlaces /\ Running
  BY DEF TypeInv, Control
<1>b. disruptions = 0 /\ ~Crash /\ \A kind : ~Interrupt(kind)
  BY NoStrike
<1>c. Ending
  BY <1>b DEF EndingInv
<1>d. ~Raises("status")
  BY DEF Raises
<1>e. QueuePlaces /\ HandlerPlaces
  BY DEF Places
<1>1. CASE ApiStep
  <2>1. CASE Create
    BY <2>1, <1>c, <1>e DEF Create, QueuePlaces
  <2>2. CASE Enqueue
    BY <2>2, <1>a, <1>c, <1>e, ParametersAssumption
    DEF Enqueue, QueuePlaces
  <2>3. CASE EnqueueFailedEvent
    BY <2>3, <1>c DEF EnqueueFailedEvent
  <2>4. CASE EnqueueFailedStatus
    BY <2>4, <1>c DEF EnqueueFailedStatus, Terminal
  <2>5. CASE CancelCheck \/ CancelRequest
    BY <2>5, <1>c DEF CancelCheck, CancelRequest
  <2> QED
    BY <1>1, <2>1, <2>2, <2>3, <2>4, <2>5 DEF ApiStep
<1>2. CASE ArqStep
  BY <1>2, <1>a, <1>c, ParametersAssumption
  DEF ArqStep, Take, GiveUp, Acknowledge, TypeOK
<1>3. CASE WorkerStep
  <2>0. UNCHANGED tries /\ job = "running" /\ pc # "idle"
    BY <1>3, <1>e
    DEF WorkerStep, Precheck, Build, Wake, CleanedUp, StoreRegistry,
        StoreQuality, SaveResult, CommitEvent, UpdateStatus, RefreshTTL,
        WriteCache, RetryEvent, QueuePlaces
  <2>1. CASE Throw /\ (Build \/ StoreRegistry \/ StoreQuality \/ SaveResult)
    <3>1. frame \in {"setup", "run"}
      BY <1>a, <1>e, <2>1
      DEF Build, StoreRegistry, StoreQuality, SaveResult, GoalPlaces,
          HandlerPlaces
    <3> QED
      BY <2>0, <2>1, <3>1, <1>a, ThrowHandler
  <2>2. CASE Throw /\ RefreshTTL
    <3>1. UNCHANGED status /\ pc = "expire"
      BY <2>2 DEF RefreshTTL
    <3>2. frame = "lastTry" => status \in Terminal
      BY <3>1, <1>c, <1>e DEF HandlerPlaces
    <3> QED
      BY <2>0, <2>2, <3>1, <3>2, <1>a, <1>c, <1>e, ThrowHandler
      DEF HandlerPlaces
  <2>3. CASE UpdateStatus
    BY <2>0, <2>3, <1>c, <1>d DEF UpdateStatus, Proceed
  <2>4. CASE Precheck
    BY <2>0, <2>4, <1>c DEF Precheck, Commit, Update
  <2>5. CASE Build /\ ~Throw
    BY <2>0, <2>5, <1>c DEF Build
  <2>6. CASE Wake \/ CleanedUp \/ CommitEvent
    BY <2>0, <2>6, <1>c DEF Wake, CleanedUp, CommitEvent, Proceed
  <2>7. CASE (StoreRegistry \/ StoreQuality \/ SaveResult) /\ ~Throw
    BY <2>0, <2>7, <1>c
    DEF StoreRegistry, StoreQuality, SaveResult, Conclude, Commit, Update,
        Proceed
  <2>8. CASE RefreshTTL /\ ~Throw
    BY <2>0, <2>8, <1>c DEF RefreshTTL, AfterUpdate, Return, Proceed, Terminal
  <2>9. CASE WriteCache
    BY <2>0, <2>9, <1>c DEF WriteCache, Return
  <2>10. CASE RetryEvent
    BY <2>0, <2>10, <1>c, <1>e DEF RetryEvent, Requeue, HandlerPlaces
  <2> QED
    BY <1>3, <2>1, <2>2, <2>3, <2>4, <2>5, <2>6, <2>7, <2>8, <2>9, <2>10
    DEF WorkerStep
<1>4. CASE WatcherFires \/ CleanupTimeout \/ UNCHANGED vars
  BY <1>4, <1>c DEF WatcherFires, CleanupTimeout
<1>5. ASSUME NEW a, PipelineStep(a)
      PROVE  Ending'
  BY <1>5, <1>c
  DEF PipelineStep, PipelineStarts, PipelineWorks, AppendFinal, StoreFinal,
      ManagersClosed, EmitTail, Pipeline
<1> QED
  BY <1>1, <1>2, <1>3, <1>4, <1>5, <1>b DEF Next

\* A job that arq is done with leaves a terminal status, whatever else fails, as
\* long as the status can be written and no worker is struck.
THEOREM FinishedIsTerminalAlways == Spec => []FinishedIsTerminal
<1>1. Init => EndingInv
  BY ParametersAssumption DEF Init, EndingInv
<1>2. EndingInv => FinishedIsTerminal
  BY DEF EndingInv, FinishedIsTerminal
<1> QED
  BY <1>1, <1>2, TypeInvariant, ControlInvariant, PlacesInvariant, EndingNext, PTL
  DEF Spec

-----------------------------------------------------------------------------
(* The research is run once                                                *)

LEMMA RetryNext ==
  TypeInv /\ Control /\ Places /\ RetryInv /\ [Next]_vars => RetryInv'
<1> SUFFICES ASSUME TypeInv, Control, Places, RetryInv, [Next]_vars,
                    FaultyCalls \intersect {"status", "expire"} = {},
                    disruptions' = 0
             PROVE  AtMostOneRun' /\ (MayRun => NotRun)'
  BY DEF RetryInv
<1>a. TypeOK /\ GoalPlaces /\ Running
  BY DEF TypeInv, Control
<1>b. disruptions = 0 /\ ~Crash /\ \A kind : ~Interrupt(kind)
  BY NoStrike
<1>c. AtMostOneRun /\ (MayRun => NotRun)
  BY <1>b DEF RetryInv
<1>d. ~Raises("status") /\ ~Raises("expire")
  BY DEF Raises
<1>e. QueuePlaces /\ HandlerPlaces
  BY DEF Places
<1>1. CASE Build
  <2>1. NotRun
    BY <1>1, <1>c DEF Build, MayRun
  <2>2. CASE UNCHANGED pipe
    BY <2>1, <2>2 DEF NotRun, AtMostOneRun
  <2>3. CASE ~UNCHANGED pipe
    <3>1. /\ pipe' = [pipe EXCEPT ![tries] = "started"]
          /\ pc' = "wait" /\ goal' = "none" /\ job' = job
      BY <1>1, <2>3 DEF Build
    <3>2. ~MayRun'
      BY <1>1, <3>1, <1>e DEF Build, MayRun, QueuePlaces
    <3>3. AtMostOneRun'
      BY <2>1, <3>1, <1>a DEF NotRun, AtMostOneRun, TypeOK
    <3> QED
      BY <3>2, <3>3
  <2> QED
    BY <2>2, <2>3
<1>2. CASE ~Build
  <2>1. ASSUME NEW b \in Attempts
        PROVE  pipe'[b] = "none" <=> pipe[b] = "none"
    <3>1. CASE UNCHANGED <<pipe, outcome>>
      BY <3>1
    <3>2. CASE CancelPipeline(tries)
      BY <3>2, <1>a DEF CancelPipeline, Becomes, TypeOK
    <3>3. ASSUME NEW a \in Attempts, PipelineStep(a)
          PROVE  pipe'[b] = "none" <=> pipe[b] = "none"
      <4>1. pipe[a] # "none" /\ \E p, o : p # "none" /\ Becomes(a, p, o)
        BY <3>3
        DEF PipelineStep, PipelineStarts, PipelineWorks, AppendFinal,
            StoreFinal, ManagersClosed, EmitTail, Pipeline
      <4> QED
        BY <4>1, <1>a DEF Becomes, TypeOK
    <3> QED
      BY <1>2, <1>b, <3>1, <3>2, <3>3, PipeWriters
  <2>2. MayRun' => MayRun
    <3>1. CASE ApiStep
      BY <3>1, <1>e
      DEF ApiStep, Create, Enqueue, EnqueueFailedEvent, EnqueueFailedStatus,
          CancelCheck, CancelRequest, MayRun, QueuePlaces
    <3>2. CASE ArqStep
      BY <3>2 DEF ArqStep, Take, GiveUp, Acknowledge, MayRun
    <3>3. CASE Precheck \/ Wake \/ CleanedUp
      BY <3>3 DEF Precheck, Wake, CleanedUp, Commit, Update, Proceed, MayRun
    <3>4. CASE StoreRegistry \/ StoreQuality \/ SaveResult
      <4>1. frame = "run"
        BY <3>4, <1>a DEF StoreRegistry, StoreQuality, SaveResult, GoalPlaces
      <4> QED
        BY <3>4, <4>1, <1>a, ThrowHandler
        DEF StoreRegistry, StoreQuality, SaveResult, Conclude, Commit, Update,
            Proceed, MayRun
    <3>5. CASE CommitEvent \/ UpdateStatus \/ RefreshTTL
      BY <3>5, <1>d
      DEF CommitEvent, UpdateStatus, RefreshTTL, AfterUpdate, Return, Proceed,
          MayRun
    <3>6. CASE WriteCache \/ RetryEvent
      BY <3>6, <1>e
      DEF WriteCache, RetryEvent, Return, Requeue, MayRun, HandlerPlaces
    <3>7. CASE WatcherFires \/ CleanupTimeout \/ UNCHANGED vars
      BY <3>7 DEF WatcherFires, CleanupTimeout, MayRun
    <3>8. ASSUME NEW a, PipelineStep(a) PROVE UNCHANGED <<job, pc, goal>>
      BY <3>8
      DEF PipelineStep, PipelineStarts, PipelineWorks, AppendFinal, StoreFinal,
          ManagersClosed, EmitTail, Pipeline
    <3> QED
      BY <1>2, <1>b, <3>1, <3>2, <3>3, <3>4, <3>5, <3>6, <3>7, <3>8
      DEF Next, WorkerStep, MayRun
  <2> QED
    BY <2>1, <2>2, <1>c DEF NotRun, AtMostOneRun
<1> QED
  BY <1>1, <1>2

\* However often a task is retried, the pipeline of at most one attempt is ever
\* started, as long as the status writes do not fail and no worker is struck.
THEOREM AtMostOnePipelineAlways == Spec => []AtMostOnePipeline
<1>1. Init => RetryInv
  BY DEF Init, RetryInv, AtMostOneRun, NotRun
<1>2. RetryInv => AtMostOnePipeline
  BY DEF RetryInv, AtMostOneRun, AtMostOnePipeline
<1> QED
  BY <1>1, <1>2, TypeInvariant, ControlInvariant, PlacesInvariant, RetryNext, PTL
  DEF Spec


-----------------------------------------------------------------------------
(* With the cache and a reader                                             *)


(***************************************************************************)
(* The request and the task never move together: until the cache has been  *)
(* missed there is no job, and the writes of a served task leave the       *)
(* status, the event and the result in the record one after the other.     *)
(***************************************************************************)
\* The record while create_research serves it, and who knows its id.
Untouched ==
  /\ status \in {"none", "cached"}
  /\ client \in {"idle", "rejected"}
  /\ job = "none" /\ pc = "idle"

\* What the writes of a served task that are done have left in the record.
WritesDone ==
  /\ written < 8
  /\ status = IF written = 0 THEN "none" ELSE "cached"
  /\ written > 3 => Logged("final_output")
  /\ written > 4 => result

ServeInv ==
  /\ serving \in {"look", "drop", "write", "served", "failed", "miss"}
  /\ written \in 0..8
  /\ serving # "miss" => Untouched
  /\ serving = "miss" => status # "cached" /\ (client = "idle" => status = "none")
  /\ serving \in {"look", "drop", "write"} => client = "idle"
  /\ serving \in {"look", "drop"} => status = "none" /\ written = 0
  /\ serving = "write" => WritesDone
  /\ serving = "served" => status = "cached" /\ result /\ Logged("final_output")

(***************************************************************************)
(* While nothing goes wrong, every place of the coroutine goes with one    *)
(* status, and a pipeline runs only while the coroutine waits for it.      *)
(***************************************************************************)
CalmClient ==
  /\ client \notin {"failEvent", "failStatus"}
  /\ client = "created" \/ job = "queued" \/ pc = "precheck" => status = "queued"

CalmWorker ==
  /\ pc = "build" \/ InRun => status = "running"
  /\ pc = "event" => status \in {"queued", "running"}
  /\ pc = "status" =>
       /\ goal = "running" => status = "queued"
       /\ goal \in {"queued", "completed"} => status = "running"
       /\ goal \in {"failed", "cancelled"} => status \in {"queued", "running"}
  /\ pc = "expire" => status = goal
  /\ pc = "retryEvent" => status = "queued"

CalmPipeline ==
  \A a \in Attempts :
    pipe[a] \notin {"none", "done"} => a = tries /\ pc \in {"wait", "cleanup"}

CalmInv == Calm => CalmClient /\ CalmWorker /\ CalmPipeline

(***************************************************************************)
(* The reader: what it has seen when it drains is an ending whose event is *)
(* in the stream, and its last page reaches the end of the stream.         *)
(***************************************************************************)
SeenEnded ==
  /\ Ended(seen)
  /\ "append" \notin FaultyCalls => Logged(EndingEvent(seen))
  /\ seen \in {"completed", "cached"} => result
  /\ Calm => seen = status

AllDelivered ==
  /\ "append" \notin FaultyCalls => Delivered(EndingEvent(seen))
  /\ Calm => cursor = Len(events)

ReaderInv ==
  /\ reader \in {"idle", "read", "poll", "drain", "done"}
  /\ cursor \in 0..Len(events)
  /\ reader # "idle" => serving \in {"miss", "served"}
  /\ reader \in {"drain", "done"} => SeenEnded
  /\ reader = "done" => AllDelivered

-----------------------------------------------------------------------------
(* Steps of the request in front of the task                               *)

USE DEF vars, store, api, queue, worker, pipeline, cacheVars, cachedVars,
        streamVars

\* The stream is appended to, or left alone.
Grows == events' = events \/ \E x \in EventKinds : events' = Append(events, x)

\* A step of the stream is one of the request, or one the task may take too.
LEMMA StreamSteps == [StreamNext]_streamVars => CacheStep \/ [Next]_vars
  BY DEF StreamNext, ReaderStep, Open, ReadPage, CheckStatus, DrainPage,
         CachedNext, Research

\* The request touches no more of the task than this, and takes nothing back.
LEMMA CacheFrame ==
  ASSUME TypeOK, ServeInv, CacheStep
  PROVE  /\ UNCHANGED <<cancelRequested, cache, canceller, queue, worker,
                        pipeline, disruptions>>
         /\ client' \in {client, "rejected"}
         /\ status' \in {status, "cached"}
         /\ result' \in BOOLEAN /\ (result => result')
         /\ faults' \in Nat /\ (faults' = 0 => faults = 0)
         /\ Grows
<1>1. CASE LookUp \/ DropEntry
  BY <1>1 DEF LookUp, DropEntry, Returns, Raises, Refuse, TypeOK, Grows
<1>2. CASE Serve
  <2>1. PICK w : Effect(w) \/ UNCHANGED <<status, result, events>>
    BY <1>2 DEF Serve
  <2>2. status' \in {status, "cached"} /\ Grows
    BY <2>1 DEF Effect, Grows, EventKinds
  <2>3. result' \in BOOLEAN /\ (result => result')
    BY <2>1 DEF Effect, TypeOK
  <2>4. client' \in {client, "rejected"}
    BY <1>2 DEF Serve, Refuse
  <2>5. faults' \in Nat /\ (faults' = 0 => faults = 0)
    BY <1>2 DEF Serve, Returns, Raises, TypeOK
  <2> QED
    BY <1>2, <2>2, <2>3, <2>4, <2>5 DEF Serve
<1> QED
  BY <1>1, <1>2 DEF CacheStep

\* An event that is in the stream stays there while it grows.
LEMMA GrownKeeps ==
  ASSUME TypeOK, Grows, NEW e, Logged(e)
  PROVE  Logged(e)'
<1>1. CASE events' = events
  BY <1>1 DEF Logged
<1>2. CASE \E x \in EventKinds : events' = Append(events, x)
  BY <1>2, LogKeeps
<1> QED
  BY <1>1, <1>2 DEF Grows

\* The invariants of the task survive the request.
LEMMA CacheKeeps ==
  ASSUME TypeInv, ServeInv, CacheStep
  PROVE  /\ TypeInv'
         /\ Control => Control'
         /\ Places => Places'
         /\ ResultInv => ResultInv'
         /\ CacheInv => CacheInv'
         /\ EventInv => EventInv'
<1>a. TypeOK /\ EventHasEnding
  BY DEF TypeInv
<1>1. /\ UNCHANGED <<cancelRequested, cache, canceller, job, tries, pc, frame,
                     goal, watcher, timedOut, pipe, outcome, sinkOff,
                     disruptions>>
      /\ client' \in {client, "rejected"}
      /\ status' \in {status, "cached"}
      /\ result' \in BOOLEAN /\ (result => result')
      /\ faults' \in Nat
      /\ Grows
  BY <1>a, CacheFrame
<1>2. TypeInv'
  <2>1. events' \in Seq(EventKinds)
    BY <1>1, <1>a DEF Grows, TypeOK
  <2> QED
    BY <1>1, <1>a, <2>1 DEF TypeInv, TypeOK, EventHasEnding, Statuses
<1>3. Control => Control'
  BY <1>1 DEF Control, Running, GoalPlaces, NotYetRun, Fresh, PipelineEnded
<1>4. Places => Places'
  BY <1>1 DEF Places, QueuePlaces, HandlerPlaces
<1>5. ResultInv => ResultInv'
  BY <1>1 DEF ResultInv, CompletedHasResult
<1>6. CacheInv => CacheInv'
  BY <1>1 DEF CacheInv
<1>7. EventInv => EventInv'
  <2> SUFFICES ASSUME EventInv, "append" \notin FaultyCalls
               PROVE  /\ EventBeforeStatus' /\ GoalLogged' /\ RejectLogged'
                      /\ SinkOpen' /\ AnswerLogged'
    BY DEF EventInv
  <2>b. /\ EventBeforeStatus /\ GoalLogged /\ RejectLogged /\ SinkOpen
        /\ AnswerLogged
    BY DEF EventInv
  <2>1. EventBeforeStatus'
    BY <1>1, <1>a, <2>b, GrownKeeps DEF EventBeforeStatus, Terminal, TerminalEvent
  <2>2. GoalLogged'
    BY <1>1, <1>a, <2>b, GrownKeeps DEF GoalLogged, TerminalEvent
  <2>3. RejectLogged'
    BY <1>1, <1>a, <2>b, GrownKeeps DEF RejectLogged
  <2>4. SinkOpen'
    BY <1>1, <2>b DEF SinkOpen, InRun
  <2>5. AnswerLogged'
    BY <1>1, <1>a, <2>b, GrownKeeps DEF AnswerLogged, InRun
  <2> QED
    BY <2>1, <2>2, <2>3, <2>4, <2>5
<1> QED
  BY <1>2, <1>3, <1>4, <1>5, <1>6, <1>7

\* Beside the request and the reader, the task moves only after a miss.
LEMMA TaskSteps ==
  ASSUME [StreamNext]_streamVars, ~CacheStep
  PROVE  /\ UNCHANGED <<entry, serving, written>>
         /\ UNCHANGED vars \/ (serving = "miss" /\ Next)
<1>1. CASE ReaderStep \/ UNCHANGED streamVars
  BY <1>1 DEF ReaderStep, Open, ReadPage, CheckStatus, DrainPage
<1>2. CASE Research
  BY <1>2 DEF Research
<1> QED
  BY <1>1, <1>2 DEF StreamNext, CachedNext

\* Nobody but the request says that a task was served from the cache.
LEMMA NeverCached ==
  ASSUME TypeInv, [Next]_vars, status # "cached"
  PROVE  status' # "cached"
<1>1. CASE Create \/ EnqueueFailedStatus
  BY <1>1 DEF Create, EnqueueFailedStatus
<1>2. CASE UpdateStatus
  BY <1>2 DEF UpdateStatus, TypeInv, TypeOK, Goals, Terminal
<1> QED
  BY <1>1, <1>2, StatusWriters

\* The record of a task is empty until its request creates it.
LEMMA IdleUntouched ==
  ASSUME Places, [Next]_vars, client' = "idle"
  PROVE  client = "idle" /\ UNCHANGED status
<1>1. client = "idle" /\ ~Create /\ ~EnqueueFailedStatus
  BY ClientWriters
  DEF Create, Enqueue, EnqueueFailedEvent, EnqueueFailedStatus
<1>2. ~UpdateStatus
  BY <1>1 DEF UpdateStatus, Places, QueuePlaces
<1> QED
  BY <1>1, <1>2, StatusWriters

LEMMA ServeNext ==
  TypeInv /\ Places /\ ServeInv /\ [StreamNext]_streamVars => ServeInv'
<1> SUFFICES ASSUME TypeInv, Places, ServeInv, [StreamNext]_streamVars
             PROVE  ServeInv'
  OBVIOUS
<1>a. TypeOK
  BY DEF TypeInv
<1>1. CASE LookUp \/ DropEntry
  BY <1>1
  DEF LookUp, DropEntry, Refuse, ServeInv, Untouched, WritesDone
<1>2. CASE Serve
  <2>1. written \in 0..7 /\ written' = written + 1 /\ Untouched /\ WritesDone
    BY <1>2 DEF Serve, ServeInv, WritesDone
  <2>2. /\ UNCHANGED <<canceller, queue, worker, pipeline>>
        /\ Grows /\ (result => result')
    BY <1>2, <1>a, CacheFrame DEF CacheStep
  <2>3. CASE serving' = "failed"
    <3>1. status' \in {status, "cached"} /\ client' \in {client, "rejected"}
      BY <1>2, <1>a, CacheFrame DEF CacheStep
    <3> QED
      BY <2>1, <2>2, <2>3, <3>1 DEF ServeInv, Untouched
  <2>4. CASE serving' # "failed"
    <3> DEFINE w == Writes[written + 1]
    <3>1. /\ Effect(w) /\ UNCHANGED client
          /\ serving' = IF written' = Len(Writes) THEN "served" ELSE "write"
      BY <1>2, <2>4 DEF Serve, Refuse
    <3>2. Len(Writes) = 8
      BY DEF Writes
    <3>3. status' = "cached"
      BY <2>1, <3>1 DEF Effect, WritesDone, Writes
    <3>4. written > 3 => result'
      <4>1. CASE written = 4
        <5>1. w = "result"
          BY <4>1 DEF Writes
        <5> QED
          BY <5>1, <3>1 DEF Effect
      <4>2. CASE written > 4
        BY <4>2, <2>1, <2>2 DEF WritesDone
      <4> QED
        BY <2>1, <4>1, <4>2
    <3>5. written > 2 => Logged("final_output")'
      <4>1. CASE written = 3
        <5>1. w = "finalEvent"
          BY <4>1 DEF Writes
        <5> QED
          BY <5>1, <3>1, <1>a, LogAdds DEF Effect, Log, EventKinds
      <4>2. CASE written > 3
        BY <4>2, <2>1, <2>2, <1>a, GrownKeeps DEF WritesDone
      <4> QED
        BY <2>1, <4>1, <4>2
    <3> HIDE DEF w
    <3>6. serving' = "write" => WritesDone'
      BY <2>1, <3>1, <3>2, <3>3, <3>4, <3>5 DEF WritesDone
    <3>7. serving' = "served" => result' /\ Logged("final_output")'
      BY <2>1, <3>1, <3>2, <3>4, <3>5
    <3> QED
      BY <2>1, <2>2, <3>1, <3>3, <3>6, <3>7, <1>2 DEF ServeInv, Untouched, Serve
  <2> QED
    BY <2>3, <2>4
<1>3. CASE ~CacheStep
  <2>1. UNCHANGED <<serving, written>>
    BY <1>3, TaskSteps
  <2>2. CASE UNCHANGED vars
    BY <2>1, <2>2 DEF ServeInv, Untouched, WritesDone, Logged
  <2>3. CASE serving = "miss" /\ Next
    BY <2>1, <2>3, NeverCached, IdleUntouched DEF ServeInv
  <2> QED
    BY <1>3, <2>2, <2>3, TaskSteps
<1> QED
  BY <1>1, <1>2, <1>3 DEF CacheStep

-----------------------------------------------------------------------------
(* The invariants of the task, in the company of the request and a reader  *)

TaskInv == /\ TypeInv /\ Control /\ Places
           /\ ResultInv /\ CacheInv /\ EventInv
           /\ ServeInv

LEMMA TaskInit == StreamInit => TaskInv
<1> SUFFICES ASSUME StreamInit PROVE TaskInv
  OBVIOUS
<1>a. Init /\ serving = "look" /\ written = 0
  BY DEF StreamInit, CachedInit
<1>1. TypeInv
  BY <1>a, TypeInit
<1>2. Control /\ Places
  BY <1>a, ParametersAssumption
  DEF Init, Control, Running, GoalPlaces, NotYetRun, Fresh, PipelineEnded, Places,
      QueuePlaces, HandlerPlaces
<1>3. ResultInv /\ CacheInv
  BY <1>a DEF Init, ResultInv, CompletedHasResult, CacheInv
<1>4. EventInv
  BY <1>a
  DEF Init, EventInv, EventBeforeStatus, GoalLogged, RejectLogged, SinkOpen,
      AnswerLogged, InRun, Terminal
<1>5. ServeInv
  BY <1>a DEF Init, ServeInv, Untouched
<1> QED
  BY <1>1, <1>2, <1>3, <1>4, <1>5 DEF TaskInv

LEMMA TaskNext == TaskInv /\ [StreamNext]_streamVars => TaskInv'
<1> SUFFICES ASSUME TaskInv, [StreamNext]_streamVars PROVE TaskInv'
  OBVIOUS
<1> USE DEF TaskInv
<1>1. ServeInv'
  BY ServeNext
<1>2. CASE CacheStep
  BY <1>1, <1>2, CacheKeeps
<1>3. CASE [Next]_vars
  BY <1>1, <1>3, TypeNext, ControlNext, PlacesNext, ResultNext, CacheNext,
     EventNext
<1> QED
  BY <1>2, <1>3, StreamSteps

LEMMA TaskInvariant == StreamSpec => []TaskInv
  BY TaskInit, TaskNext, PTL DEF StreamSpec

-----------------------------------------------------------------------------
(* What the status says of the task while nothing goes wrong               *)

\* Calls that raise are counted, and what is not counted did not happen.
LEMMA NoFault ==
  ASSUME TypeInv, [Next]_vars, faults' = 0
  PROVE  faults = 0 /\ \A call : ~Raises(call)
<1>a. faults \in Nat
  BY DEF TypeInv, TypeOK
<1>1. \A call : ~Raises(call)
  BY <1>a DEF Raises
<1>2. ASSUME ApiStep \/ ArqStep PROVE faults = 0
  BY <1>1, <1>2
  DEF ApiStep, Create, Enqueue, EnqueueFailedEvent, EnqueueFailedStatus,
      CancelCheck, CancelRequest, ArqStep, Take, GiveUp, Acknowledge, Returns
<1>3. ASSUME WorkerStep \/ WatcherFires \/ CleanupTimeout \/ Crash
      PROVE  faults = 0
  BY <1>1, <1>3
  DEF WorkerStep, Precheck, Build, Wake, CleanedUp, StoreRegistry,
      StoreQuality, SaveResult, CommitEvent, UpdateStatus, RefreshTTL,
      WriteCache, RetryEvent, WatcherFires, CleanupTimeout, Crash, Returns
<1>4. ASSUME NEW a, PipelineStep(a) PROVE faults = 0
  BY <1>1, <1>4
  DEF PipelineStep, PipelineStarts, PipelineWorks, AppendFinal, StoreFinal,
      ManagersClosed, EmitTail, Returns
<1>5. ASSUME NEW kind, Interrupt(kind) PROVE faults = 0
  BY <1>5 DEF Interrupt
<1>6. ASSUME UNCHANGED vars PROVE faults = 0
  BY <1>6
<1> QED
  BY <1>1, <1>2, <1>3, <1>4, <1>5, <1>6 DEF Next

\* A calm state was reached by calm steps only.
LEMMA CalmSteps ==
  ASSUME TaskInv, [StreamNext]_streamVars, Calm'
  PROVE  Calm
<1>1. CASE CacheStep
  BY <1>1, CacheFrame DEF TaskInv, TypeInv, Calm
<1>2. CASE [Next]_vars
  BY <1>2, NoFault, NoStrike DEF TaskInv, Calm
<1> QED
  BY <1>1, <1>2, StreamSteps

\* A pipeline that is none, or done, stays so unless its attempt is built, and
\* the one the coroutine cleans up is its own.
LEMMA CalmPipelineNext ==
  ASSUME TaskInv, Next, Calm, CalmPipeline, ~Crash, \A kind : ~Interrupt(kind)
  PROVE  CalmPipeline'
<1>a. /\ TypeOK /\ GoalPlaces /\ Running /\ QueuePlaces
  BY DEF TaskInv, TypeInv, Control, Places
<1> SUFFICES ASSUME NEW a \in Attempts, pipe'[a] \notin {"none", "done"}
             PROVE  a = tries' /\ pc' \in {"wait", "cleanup"}
  BY DEF CalmPipeline
<1>1. CASE Build
  <2>1. pipe[a] \in {"none", "done"}
    BY <1>1 DEF CalmPipeline, Build
  <2>2. pipe' = [pipe EXCEPT ![tries] = "started"] /\ pc' = "wait"
    BY <1>1, <2>1 DEF Build
  <2> QED
    BY <1>1, <1>a, <2>1, <2>2 DEF Build, TypeOK
<1>2. CASE ~Build
  <2>1. pipe[a] \notin {"none", "done"}
    <3>1. CASE UNCHANGED pipe
      BY <3>1
    <3>2. CASE CancelPipeline(tries)
      BY <3>2, <1>a DEF CancelPipeline, Becomes, TypeOK
    <3>3. ASSUME NEW b \in Attempts, PipelineStep(b)
          PROVE  pipe[a] \notin {"none", "done"}
      <4>1. pipe[b] \notin {"none", "done"} /\ \E p, o : Becomes(b, p, o)
        BY <3>3
        DEF PipelineStep, PipelineStarts, PipelineWorks, AppendFinal,
            StoreFinal, ManagersClosed, EmitTail, Pipeline
      <4> QED
        BY <4>1, <1>a DEF Becomes, TypeOK
    <3> QED
      BY <1>2, <3>1, <3>2, <3>3, PipeWriters
  <2>2. a = tries /\ pc \in {"wait", "cleanup"}
    BY <2>1 DEF CalmPipeline
  <2>3. UNCHANGED <<pc, tries>> \/ Wake \/ CleanedUp
    <3>1. CASE ApiStep \/ WatcherFires \/ CleanupTimeout
      BY <3>1
      DEF ApiStep, Create, Enqueue, EnqueueFailedEvent, EnqueueFailedStatus,
          CancelCheck, CancelRequest, WatcherFires, CleanupTimeout
    <3>2. CASE ArqStep
      BY <3>2, <2>2 DEF ArqStep, Take, GiveUp, Acknowledge
    <3>3. CASE WorkerStep
      BY <3>3, <2>2
      DEF WorkerStep, Precheck, Build, StoreRegistry, StoreQuality, SaveResult,
          CommitEvent, UpdateStatus, RefreshTTL, WriteCache, RetryEvent
    <3>4. ASSUME NEW b, PipelineStep(b) PROVE UNCHANGED <<pc, tries>>
      BY <3>4
      DEF PipelineStep, PipelineStarts, PipelineWorks, AppendFinal, StoreFinal,
          ManagersClosed, EmitTail, Pipeline
    <3> QED
      BY <3>1, <3>2, <3>3, <3>4 DEF Next
  <2>4. CASE Wake
    BY <2>2, <2>4 DEF Wake
  <2>5. CASE CleanedUp
    BY <2>1, <2>2, <2>5 DEF CleanedUp, Finished
  <2> QED
    BY <2>2, <2>3, <2>4, <2>5
<1> QED
  BY <1>1, <1>2

\* Steps that write no status leave the coroutine where its status fits.
LEMMA CalmTaskNext ==
  ASSUME TaskInv, Next, serving = "miss", serving' = serving, Calm,
         CalmClient, CalmWorker, CalmPipeline,
         \A call : ~Raises(call), ~Crash, \A kind : ~Interrupt(kind)
  PROVE  CalmClient' /\ CalmWorker'
<1>a. /\ TypeOK /\ EventHasEnding /\ GoalPlaces /\ Running /\ QueuePlaces
      /\ HandlerPlaces
  BY DEF TaskInv, TypeInv, Control, Places
<1>1. CASE ApiStep
  <2>1. UNCHANGED worker
    BY <1>1
    DEF ApiStep, Create, Enqueue, EnqueueFailedEvent, EnqueueFailedStatus,
        CancelCheck, CancelRequest
  <2>2. CASE Create
    <3>1. status' = "queued" /\ client' = "created" /\ UNCHANGED job
      BY <2>2 DEF Create
    <3>2. job = "none" /\ pc = "idle"
      BY <2>2, <1>a DEF Create, QueuePlaces
    <3> QED
      BY <2>1, <3>1, <3>2 DEF CalmClient, CalmWorker, InRun
  <2>3. CASE Enqueue
    <3>1. client' = "accepted" /\ job' = "queued" /\ UNCHANGED status
      BY <2>3 DEF Enqueue
    <3>2. status = "queued"
      BY <2>3 DEF Enqueue, CalmClient
    <3> QED
      BY <2>1, <3>1, <3>2 DEF CalmClient, CalmWorker, InRun
  <2>4. CASE EnqueueFailedEvent \/ EnqueueFailedStatus
    BY <2>4 DEF EnqueueFailedEvent, EnqueueFailedStatus, CalmClient
  <2>5. CASE CancelCheck \/ CancelRequest
    <3>1. UNCHANGED <<status, client, job>>
      BY <2>5 DEF CancelCheck, CancelRequest
    <3> QED
      BY <2>1, <3>1 DEF CalmClient, CalmWorker, InRun
  <2> QED
    BY <1>1, <2>2, <2>3, <2>4, <2>5 DEF ApiStep
<1>2. CASE ArqStep
  BY <1>2
  DEF ArqStep, Take, GiveUp, Acknowledge, CalmClient, CalmWorker, InRun
<1>3. CASE WorkerStep
  <2>0. UNCHANGED client /\ pc # "idle" /\ job = "running" /\ client # "idle"
    BY <1>3, <1>a
    DEF WorkerStep, Precheck, Build, Wake, CleanedUp, StoreRegistry,
        StoreQuality, SaveResult, CommitEvent, UpdateStatus, RefreshTTL,
        WriteCache, RetryEvent, QueuePlaces
  <2>c. client # "created"
    BY <2>0, <1>a DEF QueuePlaces
  <2> USE DEF CalmClient, CalmWorker, InRun
  <2>1. CASE Precheck
    BY <2>0, <2>c, <2>1 DEF Precheck, Commit, Update
  <2>2. CASE Build
    <3>1. UNCHANGED status /\ status = "running" /\ frame = "setup"
      BY <2>2, <1>a DEF Build, HandlerPlaces
    <3>2. CASE Throw
      BY <2>0, <2>c, <3>1, <3>2, <1>a, ThrowHandler
    <3>3. CASE ~Throw
      BY <2>0, <2>c, <3>1, <3>3, <2>2 DEF Build
    <3> QED
      BY <3>2, <3>3
  <2>3. CASE Wake \/ CleanedUp
    BY <2>0, <2>c, <2>3 DEF Wake, CleanedUp, Proceed
  <2>4. CASE StoreRegistry \/ StoreQuality \/ SaveResult
    <3>1. UNCHANGED status /\ status = "running" /\ frame = "run"
      BY <2>4, <1>a DEF StoreRegistry, StoreQuality, SaveResult, GoalPlaces
    <3>2. CASE Throw
      BY <2>0, <2>c, <3>1, <3>2, <1>a, ThrowHandler
    <3>3. CASE ~Throw
      BY <2>0, <2>c, <3>1, <3>3, <2>4
      DEF StoreRegistry, StoreQuality, SaveResult, Conclude, Commit, Update,
          Proceed
    <3> QED
      BY <3>2, <3>3
  <2>5. CASE CommitEvent
    <3>1. goal \in {"failed", "cancelled"}
      BY <2>5, <1>a DEF CommitEvent, EventHasEnding, GoalPlaces, Terminal
    <3> QED
      BY <2>0, <2>c, <2>5, <3>1 DEF CommitEvent, Proceed
  <2>6. CASE UpdateStatus
    BY <2>0, <2>c, <2>6 DEF UpdateStatus, Proceed
  <2>7. CASE RefreshTTL
    BY <2>0, <2>c, <2>7 DEF RefreshTTL, AfterUpdate, Return, Proceed
  <2>8. CASE WriteCache \/ RetryEvent
    BY <2>0, <2>c, <2>8 DEF WriteCache, RetryEvent, Return, Requeue
  <2> QED
    BY <1>3, <2>1, <2>2, <2>3, <2>4, <2>5, <2>6, <2>7, <2>8 DEF WorkerStep
<1>4. CASE WatcherFires \/ CleanupTimeout
  BY <1>4 DEF WatcherFires, CleanupTimeout, CalmClient, CalmWorker, InRun
<1>5. ASSUME NEW a, PipelineStep(a) PROVE CalmClient' /\ CalmWorker'
  <2>1. UNCHANGED <<status, client, job, pc, goal>>
    BY <1>5
    DEF PipelineStep, PipelineStarts, PipelineWorks, AppendFinal, StoreFinal,
        ManagersClosed, EmitTail, Pipeline
  <2> QED
    BY <2>1 DEF CalmClient, CalmWorker, InRun
<1> QED
  BY <1>1, <1>2, <1>3, <1>4, <1>5 DEF Next

LEMMA CalmNext == TaskInv /\ CalmInv /\ [StreamNext]_streamVars => CalmInv'
<1> SUFFICES ASSUME TaskInv, CalmInv, [StreamNext]_streamVars, Calm'
             PROVE  (CalmClient /\ CalmWorker /\ CalmPipeline)'
  BY DEF CalmInv
<1>a. Calm /\ CalmClient /\ CalmWorker /\ CalmPipeline
  BY CalmSteps DEF CalmInv
<1>b. TypeInv /\ ServeInv /\ TypeOK
  BY DEF TaskInv, TypeInv
<1>1. CASE CacheStep
  <2>1. /\ UNCHANGED <<queue, worker, pipeline>>
        /\ client' \in {client, "rejected"}
    BY <1>1, <1>b, CacheFrame
  <2>2. job = "none" /\ pc = "idle" /\ serving # "miss" /\ client = "idle"
    BY <1>1, <1>b
    DEF CacheStep, LookUp, DropEntry, Serve, ServeInv, Untouched
  <2>3. serving' = "miss" => status' = "none"
    BY <1>1, <1>b
    DEF CacheStep, LookUp, DropEntry, Serve, Refuse, ServeInv
  <2> QED
    BY <1>a, <2>1, <2>2, <2>3 DEF CalmClient, CalmWorker, CalmPipeline, InRun
<1>2. CASE ~CacheStep /\ UNCHANGED vars
  BY <1>a, <1>2, TaskSteps DEF CalmClient, CalmWorker, CalmPipeline, InRun
<1>3. CASE ~CacheStep /\ serving = "miss" /\ Next
  <2>1. /\ \A call : ~Raises(call)
        /\ ~Crash
        /\ \A kind : ~Interrupt(kind)
    BY <1>3, <1>b, NoFault, NoStrike DEF Calm
  <2> QED
    BY <1>3, <1>a, <2>1, TaskSteps, CalmTaskNext, CalmPipelineNext
<1> QED
  BY <1>1, <1>2, <1>3, TaskSteps

LEMMA CalmInvariant == StreamSpec => []CalmInv
<1>1. StreamInit => CalmInv
  BY DEF StreamInit, CachedInit, Init, CalmInv, CalmClient, CalmWorker,
         CalmPipeline, InRun
<1> QED
  BY <1>1, TaskInvariant, CalmNext, PTL DEF StreamSpec

-----------------------------------------------------------------------------
(* Nothing follows the ending                                              *)

\* Who writes the stream of a task.
LEMMA EventWriters ==
  Next => \/ UNCHANGED events
          \/ EnqueueFailedEvent \/ CommitEvent \/ RetryEvent
          \/ Wake \/ CleanupTimeout
          \/ \E a \in Attempts : PipelineStep(a)
          \/ \E kind \in {"timeout", "shutdown"} : Interrupt(kind)
  BY DEF Next, ApiStep, Create, Enqueue, EnqueueFailedStatus, CancelCheck,
         CancelRequest, ArqStep, Take, GiveUp, Acknowledge, WorkerStep, Precheck,
         Build, CleanedUp, StoreRegistry, StoreQuality, SaveResult,
         UpdateStatus, RefreshTTL, WriteCache, WatcherFires, Crash

\* While nothing goes wrong a task whose stream is written has not ended.
LEMMA CalmWrite ==
  ASSUME TaskInv, CalmInv, [StreamNext]_streamVars, Calm', events' # events
  PROVE  status \in {"none", "cached", "queued", "running"}
<1>a. CalmClient /\ CalmWorker /\ CalmPipeline
  BY CalmSteps DEF CalmInv
<1>1. CASE CacheStep
  <2>1. serving # "miss"
    BY <1>1 DEF CacheStep, LookUp, DropEntry, Serve
  <2> QED
    BY <2>1 DEF TaskInv, ServeInv, Untouched
<1>2. CASE Next
  <2>1. \A kind : ~Interrupt(kind)
    BY <1>2, NoStrike DEF TaskInv, Calm
  <2>2. CASE EnqueueFailedEvent
    BY <2>2, <1>a DEF EnqueueFailedEvent, CalmClient
  <2>3. CASE CommitEvent \/ RetryEvent \/ Wake
    BY <2>3, <1>a
    DEF CommitEvent, RetryEvent, Wake, CalmWorker, InRun
  <2>4. CASE CleanupTimeout
    BY <2>4, <1>a DEF CleanupTimeout, CalmWorker, InRun
  <2>5. ASSUME NEW a \in Attempts, PipelineStep(a)
        PROVE  status = "running"
    <3>1. pipe[a] \notin {"none", "done"}
      BY <2>5
      DEF PipelineStep, PipelineStarts, PipelineWorks, AppendFinal, StoreFinal,
          ManagersClosed, EmitTail
    <3> QED
      BY <3>1, <1>a DEF CalmPipeline, CalmWorker, InRun
  <2> QED
    BY <1>2, <2>1, <2>2, <2>3, <2>4, <2>5, EventWriters
<1>3. CASE UNCHANGED vars
  BY <1>3
<1> QED
  BY <1>1, <1>2, <1>3, StreamSteps

\* Nothing is appended to the stream of a task with a terminal status, which its
\* reader drains once, unless a call raised or a worker was struck before.
THEOREM NoEventAfterTerminalAlways == StreamSpec => NoEventAfterTerminal
<1>1. TaskInv /\ CalmInv /\ [StreamNext]_streamVars
        => [(status \in Terminal) /\ events' # events => ~Calm']_vars
  BY CalmWrite DEF Terminal
<1> QED
  BY <1>1, TaskInvariant, CalmInvariant, PTL DEF StreamSpec, NoEventAfterTerminal

-----------------------------------------------------------------------------
(* A caller sees the life of a task that TaskLifecycle promises            *)

\* No step writes the status and the result.
LEMMA OneOfBoth == Next => UNCHANGED status \/ UNCHANGED result
  BY StatusWriters DEF Create, EnqueueFailedStatus, UpdateStatus

\* What a calm step makes of the status.
LEMMA CalmStatus ==
  ASSUME TaskInv, Next, serving = "miss", CalmClient, CalmWorker,
         \A call : ~Raises(call)
  PROVE  \/ UNCHANGED status
         \/ status = "none" /\ status' = "queued"
         \/ status = "queued" /\ status' \in {"running", "failed", "cancelled"}
         \/ status = "running" /\ status' \in {"queued", "failed", "cancelled"}
         \/ status = "running" /\ result /\ status' = "completed"
<1>1. CASE Create
  BY <1>1 DEF Create, TaskInv, ServeInv
<1>2. CASE EnqueueFailedStatus
  BY <1>2 DEF EnqueueFailedStatus, CalmClient
<1>3. CASE UpdateStatus
  <2>1. status' = goal /\ goal \in Goals /\ (goal = "completed" => result)
    BY <1>3 DEF UpdateStatus, TaskInv, TypeInv, TypeOK, ResultInv
  <2>2. goal # "none"
    BY <1>3 DEF UpdateStatus, TaskInv, Places, HandlerPlaces
  <2> QED
    BY <1>3, <2>1, <2>2 DEF UpdateStatus, CalmWorker, Goals, Terminal
<1> QED
  BY <1>1, <1>2, <1>3, StatusWriters

\* What any step may make of it, once something has gone wrong.
LEMMA AnyStatus ==
  ASSUME TaskInv, TaskInv', [StreamNext]_streamVars
  PROVE  /\ status' \in {status, "queued", "running", "cached"} \union Terminal
         /\ status = "cached" => status' = "cached"
         /\ status' = "cached" => status \in {"none", "cached"}
         /\ result' \in {result, TRUE}
         /\ status' = "completed" => result'
<1>a. TypeInv /\ TypeOK /\ ServeInv /\ result' \in BOOLEAN
  BY DEF TaskInv, TypeInv, TypeOK
<1>0. status' = "completed" => result'
  BY DEF TaskInv, ResultInv, CompletedHasResult
<1>1. CASE CacheStep
  <2>1. status \in {"none", "cached"}
    BY <1>1, <1>a
    DEF CacheStep, LookUp, DropEntry, Serve, ServeInv, Untouched
  <2> QED
    BY <1>0, <1>1, <1>a, <2>1, CacheFrame DEF TypeOK
<1>2. CASE ~CacheStep /\ UNCHANGED vars
  BY <1>0, <1>2 DEF TaskInv, ServeInv
<1>3. CASE ~CacheStep /\ serving = "miss" /\ Next
  <2>1. status # "cached" /\ status' # "cached"
    BY <1>3, <1>a, NeverCached DEF ServeInv
  <2>2. status' \in {status, "queued", "running"} \union Terminal
    <3>1. CASE Create
      BY <1>3, <1>a, <3>1 DEF Create, ServeInv
    <3>2. CASE EnqueueFailedStatus
      BY <3>2 DEF EnqueueFailedStatus, Terminal
    <3>3. CASE UpdateStatus
      <4>1. goal # "none"
        BY <3>3 DEF UpdateStatus, TaskInv, Places, HandlerPlaces
      <4> QED
        BY <3>3, <4>1, <1>a DEF UpdateStatus, TypeOK, Goals
    <3> QED
      BY <1>3, <3>1, <3>2, <3>3, StatusWriters
  <2>3. result' \in {result, TRUE}
    BY <1>3, <1>a, ResultStays DEF TypeOK
  <2> QED
    BY <1>0, <2>1, <2>2, <2>3
<1> QED
  BY <1>1, <1>2, <1>3, TaskSteps

LEMMA LifecycleNext ==
  TaskInv /\ TaskInv' /\ CalmInv /\ [StreamNext]_streamVars
    => [Lifecycle!Next]_(Lifecycle!vars)
<1> SUFFICES ASSUME TaskInv, TaskInv', CalmInv, [StreamNext]_streamVars
             PROVE  Lifecycle!Next \/ UNCHANGED Lifecycle!vars
  OBVIOUS
<1>1. CASE ~Calm'
  <2>1. Lifecycle!Disturb
    BY <1>1, AnyStatus DEF Lifecycle!Disturb, Lifecycle!Terminal, Terminal
  <2> QED
    BY <2>1 DEF Lifecycle!Next
<1>2. CASE Calm'
  <2>a. Calm /\ CalmClient /\ CalmWorker
    BY <1>2, CalmSteps DEF CalmInv
  <2>b. UNCHANGED (~Calm)
    BY <1>2, <2>a
  <2>c. result' \in {result, TRUE}
    BY AnyStatus
  <2>d. UNCHANGED status => Lifecycle!Next \/ UNCHANGED Lifecycle!vars
    BY <2>b, <2>c DEF Lifecycle!Next, Lifecycle!StoreResult, Lifecycle!vars
  <2>1. CASE CacheStep
    <3>1. UNCHANGED status
            \/ (status = "none" /\ status' = "cached" /\ UNCHANGED result)
      <4>1. CASE LookUp \/ DropEntry
        BY <4>1 DEF LookUp, DropEntry
      <4>2. CASE Serve
        <5>1. written \in 0..7 /\ WritesDone
          BY <4>2 DEF Serve, TaskInv, ServeInv, WritesDone
        <5>2. Effect(Writes[written + 1]) \/ UNCHANGED <<status, result>>
          BY <4>2 DEF Serve
        <5>3. CASE written = 0 /\ Effect(Writes[written + 1])
          <6>1. Writes[written + 1] = "create"
            BY <5>3 DEF Writes
          <6>2. status = "none" /\ status' = "cached"
            BY <5>1, <5>3, <6>1 DEF WritesDone, Effect
          <6>3. result' = result
            BY <5>3, <6>1 DEF Effect, TaskInv, TypeInv, TypeOK
          <6> QED
            BY <6>2, <6>3
        <5>4. CASE written > 0 /\ Effect(Writes[written + 1])
          BY <5>1, <5>4 DEF WritesDone, Effect
        <5> QED
          BY <5>1, <5>2, <5>3, <5>4
      <4> QED
        BY <2>1, <4>1, <4>2 DEF CacheStep
    <3> QED
      BY <2>b, <2>d, <3>1 DEF Lifecycle!Next, Lifecycle!Serve
  <2>2. CASE ~CacheStep /\ UNCHANGED vars
    BY <2>2, <2>d
  <2>3. CASE ~CacheStep /\ serving = "miss" /\ Next
    <3>1. \A call : ~Raises(call)
      BY <2>3, <1>2, NoFault DEF TaskInv, Calm
    <3>2. \/ UNCHANGED status
          \/ status = "none" /\ status' = "queued"
          \/ status = "queued" /\ status' \in {"running", "failed", "cancelled"}
          \/ status = "running" /\ status' \in {"queued", "failed", "cancelled"}
          \/ status = "running" /\ result /\ status' = "completed"
      BY <2>3, <2>a, <3>1, CalmStatus
    <3>3. UNCHANGED status \/ UNCHANGED result
      BY <2>3, OneOfBoth
    <3>4. CASE UNCHANGED result /\ status = "none" /\ status' = "queued"
      BY <2>b, <3>4 DEF Lifecycle!Next, Lifecycle!Submit
    <3>5. CASE UNCHANGED result /\ status = "queued" /\ status' = "running"
      BY <2>b, <3>5 DEF Lifecycle!Next, Lifecycle!Attempt
    <3>6. CASE UNCHANGED result /\ status = "running" /\ status' = "queued"
      BY <2>b, <3>6 DEF Lifecycle!Next, Lifecycle!Attempt
    <3>7. CASE /\ UNCHANGED result /\ status \in {"queued", "running"}
               /\ status' \in {"failed", "cancelled"}
      BY <2>b, <3>7 DEF Lifecycle!Next, Lifecycle!End
    <3>8. CASE /\ UNCHANGED result /\ status = "running" /\ result
               /\ status' = "completed"
      BY <2>b, <3>8 DEF Lifecycle!Next, Lifecycle!End
    <3> QED
      BY <2>d, <3>2, <3>3, <3>4, <3>5, <3>6, <3>7, <3>8
  <2> QED
    BY <2>1, <2>2, <2>3, TaskSteps
<1> QED
  BY <1>1, <1>2

\* The record of a task implements what a caller is promised of it, with every
\* call that raises and every strike taken for the disturbance it is.
THEOREM TaskImplementsLifecycle == StreamSpec => ImplementsLifecycle
<1>1. StreamInit => Lifecycle!Init
  BY DEF StreamInit, CachedInit, Init, Lifecycle!Init, Calm
<1> QED
  BY <1>1, TaskInvariant, CalmInvariant, LifecycleNext, PTL
  DEF StreamSpec, ImplementsLifecycle, Lifecycle!Spec

-----------------------------------------------------------------------------
(* A stream that closes is complete                                        *)

\* Whatever the step, the stream is only appended to ...
LEMMA StreamGrows == TaskInv /\ [StreamNext]_streamVars => Grows
  BY StreamSteps, CacheFrame, EventsGrow DEF TaskInv, TypeInv, Grows

\* ... so that its positions hold what they held.
LEMMA PositionsKeep ==
  ASSUME TypeOK, Grows
  PROVE  /\ Len(events) \in Nat /\ Len(events') \in Nat
         /\ Len(events) <= Len(events')
         /\ \A i \in 1..Len(events) : events'[i] = events[i]
<1>1. CASE events' = events
  BY <1>1 DEF TypeOK
<1>2. ASSUME NEW x \in EventKinds, events' = Append(events, x)
      PROVE  /\ Len(events) \in Nat /\ Len(events') \in Nat
             /\ Len(events) <= Len(events')
             /\ \A i \in 1..Len(events) : events'[i] = events[i]
  BY <1>2 DEF TypeOK
<1> QED
  BY <1>1, <1>2 DEF Grows

\* A page ends where the stream does, or before.
LEMMA PageFits ==
  ASSUME TypeOK, cursor \in 0..Len(events)
  PROVE  /\ cursor + Page \in 0..Len(events) /\ cursor <= cursor + Page
         /\ Drained => cursor + Page = Len(events)
  BY ReadCountAssumption DEF TypeOK, Page, Drained

\* A task that has ended keeps its ending while nothing goes wrong.
LEMMA CalmEndingStays ==
  ASSUME TaskInv, CalmInv, [StreamNext]_streamVars, Calm',
         serving \in {"miss", "served"}, Ended(status)
  PROVE  UNCHANGED <<status, events, serving>>
<1>a. ~CacheStep
  BY DEF CacheStep, LookUp, DropEntry, Serve
<1>b. UNCHANGED serving /\ (UNCHANGED vars \/ (serving = "miss" /\ Next))
  BY <1>a, TaskSteps
<1>1. CASE serving = "served"
  BY <1>1, <1>b
<1>2. CASE serving = "miss" /\ Next
  <2>1. status \in Terminal
    BY <1>2 DEF TaskInv, ServeInv, Ended
  <2>2. UNCHANGED events
    BY <2>1, CalmWrite DEF Terminal
  <2>3. \A call : ~Raises(call)
    BY <1>2, NoFault DEF TaskInv, Calm
  <2>4. UNCHANGED status
    BY <1>2, <2>1, <2>3, CalmSteps, CalmStatus DEF CalmInv, Terminal
  <2> QED
    BY <1>b, <2>2, <2>4
<1>3. CASE UNCHANGED vars
  BY <1>3, <1>b
<1> QED
  BY <1>1, <1>2, <1>3, <1>b

\* What a reader sees at an ending is in the record with everything it names.
LEMMA SeenAtCheck ==
  ASSUME TaskInv, serving \in {"miss", "served"}, Ended(status)
  PROVE  /\ "append" \notin FaultyCalls => Logged(EndingEvent(status))
         /\ status \in {"completed", "cached"} => result
<1>1. CASE status = "cached"
  BY <1>1 DEF TaskInv, ServeInv, EndingEvent
<1>2. CASE status \in Terminal
  BY <1>2
  DEF TaskInv, EventInv, EventBeforeStatus, EndingEvent, ResultInv,
      CompletedHasResult, Terminal
<1> QED
  BY <1>1, <1>2 DEF Ended

LEMMA ReaderNext ==
  TaskInv /\ CalmInv /\ ReaderInv /\ [StreamNext]_streamVars => ReaderInv'
<1> SUFFICES ASSUME TaskInv, CalmInv, ReaderInv, [StreamNext]_streamVars
             PROVE  ReaderInv'
  OBVIOUS
<1>a. TypeOK /\ Grows
  BY StreamGrows DEF TaskInv, TypeInv
<1>b. /\ Len(events) \in Nat /\ Len(events') \in Nat
      /\ Len(events) <= Len(events')
      /\ \A i \in 1..Len(events) : events'[i] = events[i]
  BY <1>a, PositionsKeep
<1>c. cursor \in 0..Len(events)
  BY DEF ReaderInv
<1>1. CASE ReaderStep
  <2>0. UNCHANGED vars /\ UNCHANGED serving
    BY <1>1 DEF ReaderStep, Open, ReadPage, CheckStatus, DrainPage
  <2>1. CASE Open
    BY <2>0, <2>1 DEF Open, ReaderInv
  <2>2. CASE ReadPage
    <3>1. cursor' \in 0..Len(events) /\ reader' = "poll"
      BY <2>2, <1>a, <1>c, PageFits DEF ReadPage
    <3> QED
      BY <2>0, <2>2, <3>1 DEF ReadPage, ReaderInv
  <2>3. CASE CheckStatus
    <3>1. /\ UNCHANGED cursor /\ seen' = status
          /\ reader' = IF Ended(status) THEN "drain" ELSE "read"
          /\ serving \in {"miss", "served"}
      BY <2>3 DEF CheckStatus, ReaderInv
    <3>2. Ended(status) => SeenEnded'
      BY <2>0, <3>1, SeenAtCheck
      DEF SeenEnded, Logged, Ended, EndingEvent, TerminalEvent
    <3> QED
      BY <2>0, <3>1, <3>2, <1>c DEF ReaderInv
  <2>4. CASE DrainPage
    <3>1. /\ cursor' = cursor + Page /\ UNCHANGED seen
          /\ reader' = IF Drained THEN "done" ELSE "drain"
          /\ SeenEnded /\ serving \in {"miss", "served"}
      BY <2>4 DEF DrainPage, ReaderInv
    <3>2. cursor' \in 0..Len(events)
      BY <3>1, <1>a, <1>c, PageFits
    <3>3. SeenEnded'
      BY <2>0, <3>1
      DEF SeenEnded, Logged, Ended, EndingEvent, TerminalEvent, Calm
    <3>4. reader' = "done" => AllDelivered'
      <4> SUFFICES ASSUME Drained PROVE AllDelivered'
        BY <3>1
      <4>1. cursor' = Len(events)
        BY <3>1, <1>a, <1>c, PageFits
      <4> QED
        BY <2>0, <3>1, <4>1
        DEF AllDelivered, SeenEnded, Delivered, Logged, EndingEvent,
            TerminalEvent
    <3> QED
      BY <2>0, <3>1, <3>2, <3>3, <3>4 DEF ReaderInv
  <2> QED
    BY <1>1, <2>1, <2>2, <2>3, <2>4 DEF ReaderStep
<1>2. CASE UNCHANGED <<reader, cursor, seen>>
  <2>1. cursor' \in 0..Len(events')
    BY <1>2, <1>b, <1>c
  <2>2. reader # "idle" => serving' \in {"miss", "served"}
    <3>1. reader # "idle" => ~CacheStep
      BY DEF ReaderInv, CacheStep, LookUp, DropEntry, Serve
    <3> QED
      BY <3>1, TaskSteps DEF ReaderInv
  <2>3. ASSUME reader \in {"drain", "done"}
        PROVE  SeenEnded' /\ (reader = "done" => AllDelivered')
    <3>1. SeenEnded /\ serving \in {"miss", "served"} /\ ~CacheStep
      BY <2>3 DEF ReaderInv, CacheStep, LookUp, DropEntry, Serve
    <3>2. "append" \notin FaultyCalls => Logged(EndingEvent(seen))'
      <4>1. \A e : Logged(e) => Logged(e)'
        BY <1>a, GrownKeeps
      <4> QED
        BY <1>2, <3>1, <4>1 DEF SeenEnded, EndingEvent, TerminalEvent
    <3>3. seen \in {"completed", "cached"} => result'
      BY <3>1, StreamSteps, ResultStays DEF SeenEnded
    <3>4. Calm' => UNCHANGED <<status, events>> /\ Calm
      <4> SUFFICES ASSUME Calm' PROVE UNCHANGED <<status, events>> /\ Calm
        OBVIOUS
      <4>1. Calm
        BY CalmSteps
      <4>2. Ended(status)
        BY <3>1, <4>1 DEF SeenEnded
      <4> QED
        BY <3>1, <4>1, <4>2, CalmEndingStays
    <3>5. SeenEnded'
      BY <1>2, <3>1, <3>2, <3>3, <3>4 DEF SeenEnded, Ended
    <3>6. reader = "done" => AllDelivered'
      <4> SUFFICES ASSUME reader = "done" PROVE AllDelivered'
        OBVIOUS
      <4>1. AllDelivered
        BY DEF ReaderInv
      <4>2. \A e : Delivered(e) => Delivered(e)'
        BY <1>2, <1>b, <1>c DEF Delivered
      <4>3. "append" \notin FaultyCalls => Delivered(EndingEvent(seen))'
        BY <1>2, <4>1, <4>2 DEF AllDelivered, EndingEvent, TerminalEvent
      <4> QED
        BY <1>2, <3>4, <4>1, <4>3 DEF AllDelivered
    <3> QED
      BY <3>5, <3>6
  <2> QED
    BY <1>2, <2>1, <2>2, <2>3 DEF ReaderInv
<1> QED
  BY <1>1, <1>2 DEF StreamNext

\* A stream that closes with "done" has delivered the event of the ending it
\* names and, when nothing has gone wrong, everything there will ever be; a
\* report it names can be fetched.
THEOREM DoneIsCompleteAlways == StreamSpec => []DoneIsComplete
<1>1. StreamInit => ReaderInv
  BY DEF StreamInit, CachedInit, Init, ReaderInv
<1>2. ReaderInv => DoneIsComplete
  BY DEF ReaderInv, SeenEnded, AllDelivered, DoneIsComplete
<1> QED
  BY <1>1, <1>2, TaskInvariant, CalmInvariant, ReaderNext, PTL DEF StreamSpec

\* The same holds beside the cache and the reader for what is proved above
\* of the task alone: events come first and the status second, a task
\* that says completed has its report, and only full answers are shared.
THEOREM TaskKeepsItsWord ==
  StreamSpec => [](TypeOK /\ EventBeforeStatus /\ CompletedHasResult
                     /\ CacheHoldsAnswer)
<1>1. TaskInv => /\ TypeOK /\ EventBeforeStatus /\ CompletedHasResult
                 /\ CacheHoldsAnswer
  BY DEF TaskInv, TypeInv, EventInv, EventBeforeStatus, ResultInv, CacheInv,
         CacheHoldsAnswer
<1> QED
  BY <1>1, TaskInvariant, PTL

LEMMA EndingKeeps ==
  TaskInv /\ EndingInv /\ RetryInv /\ [StreamNext]_streamVars
    => EndingInv' /\ RetryInv'
<1> SUFFICES ASSUME TaskInv, EndingInv, RetryInv, [StreamNext]_streamVars
             PROVE  EndingInv' /\ RetryInv'
  OBVIOUS
<1>a. TypeInv /\ TypeOK /\ Control /\ Places /\ ServeInv
  BY DEF TaskInv, TypeInv
<1>1. CASE CacheStep
  <2>1. /\ UNCHANGED <<queue, worker, pipeline, disruptions>>
        /\ job = "none" /\ pc = "idle"
    BY <1>1, <1>a, CacheFrame
    DEF CacheStep, LookUp, DropEntry, Serve, ServeInv, Untouched
  <2>2. EndingInv'
    BY <2>1 DEF EndingInv
  <2>3. RetryInv'
    BY <2>1 DEF RetryInv, AtMostOneRun, MayRun, NotRun
  <2> QED
    BY <2>2, <2>3
<1>2. CASE [Next]_vars
  BY <1>2, <1>a, EndingNext, RetryNext
<1> QED
  BY <1>1, <1>2, StreamSteps

\* ... and for how its attempts end: over a terminal status, and with at most one
\* pipeline started.
THEOREM TaskEndsOnce == StreamSpec => [](FinishedIsTerminal /\ AtMostOnePipeline)
<1>1. StreamInit => EndingInv /\ RetryInv
  BY ParametersAssumption
  DEF StreamInit, CachedInit, Init, EndingInv, RetryInv, AtMostOneRun, NotRun
<1>2. EndingInv /\ RetryInv => FinishedIsTerminal /\ AtMostOnePipeline
  BY DEF EndingInv, FinishedIsTerminal, RetryInv, AtMostOneRun, AtMostOnePipeline
<1> QED
  BY <1>1, <1>2, TaskInvariant, EndingKeeps, PTL DEF StreamSpec

=============================================================================
