------------------------------ MODULE DemoLocal ------------------------------
(***************************************************************************)
(* The Gradio demo with its local backend: gradio_run and                  *)
(* run_research_once around stream_events_optimized, which runs a pipeline *)
(* in a thread of its own and hands its events to the event loop.          *)
(*                                                                         *)
(* All tasks ask for the same profile, so that their threads meet at       *)
(* _ensure_preloaded.  Of the events only the last list of sources, the    *)
(* report that cites it and the ending are kept.                           *)
(***************************************************************************)
EXTENDS StopRegistry

VARIABLES
  run,      \* idle | open | yield | get | dropped | joining | cut (joining, and
            \* cancelled by Gradio) | done
  got,      \* what the endpoint has seen; a page only shows it
  results,  \* the tasks whose report is in _result_cache
  box,      \* scheduled and queued items of the task's stream queue
  ready,    \* how many of them the event loop has put into the queue
  thread,   \* none | preload | await | woken | loading | running | reporting |
            \* reported | hung | succeeded | failed (or cancelled)
  profile   \* the profile is in _preload_cache

streamVars == <<run, got, results>>
queueVars == <<box, ready>>
threadVars == <<thread, profile>>
localVars == <<streamVars, queueVars, threadVars>>

LocalInit ==
  /\ run = [r \in Runs |-> "idle"]
  /\ got = [r \in Runs |-> {}]
  /\ results = {}
  /\ box = [r \in Runs |-> <<>>] /\ ready = [r \in Runs |-> 0]
  /\ thread = [r \in Runs |-> "none"] /\ profile = FALSE

\* A consumer of the task has registered it.
HeldByRun(r) == run[r] \notin {"idle", "dropped", "done"}

RunTo(r, p) == run' = [run EXCEPT ![r] = p]
ThreadTo(r, p) == thread' = [thread EXCEPT ![r] = p]

\* The thread has returned, and left its last items.
Finished(r) == thread[r] \in {"succeeded", "failed"}

\* The stream queue of a task whose generator is over takes nothing.
Closed(r) == run[r] \in {"joining", "cut", "done"}

-----------------------------------------------------------------------------
(* The pipeline thread                                                     *)

\* put_nowait_threadsafe schedules the puts on the event loop.
Publish(r, items) ==
  /\ box' = IF Closed(r) THEN box ELSE [box EXCEPT ![r] = @ \o items]
  /\ UNCHANGED ready

\* The last items, the end mark among them, and the return of the thread.
Ends(r, how, items) == Publish(r, items) /\ ThreadTo(r, how)

\* "except Exception": an error is reported unless the task is cancelled.
AfterRaise(r) == IF r \in cancelled THEN <<"end">> ELSE <<"failed", "end">>

\* _ensure_preloaded, under its lock: a hit, a load by somebody else to wait
\* for, or a load of one's own.
LookUp(r) ==
  /\ thread[r] = "preload"
  /\ ThreadTo(r, IF profile THEN "running"
                 ELSE IF \E q \in Runs : thread[q] = "loading" THEN "await"
                 ELSE "loading")
  /\ UNCHANGED <<profile, queueVars>>

\* The event of the load in flight is set: whoever waits for it wakes.
Woken(r, p) ==
  [q \in Runs |-> IF q = r THEN p
                  ELSE IF thread[q] = "await" THEN "woken" ELSE thread[q]]

Loaded(r) ==
  /\ thread[r] = "loading"
  /\ profile' = TRUE
  /\ thread' = Woken(r, "running")
  /\ UNCHANGED queueVars

\* Variant: nobody tells those who wait for a load that has failed.
TellWaiters_Not(r, p) == thread' = [thread EXCEPT ![r] = p]

\* "finally": the waiters of a load that has failed are told as well.
TellWaiters(r, p) == thread' = Woken(r, p)

LoadFails(r) ==
  /\ thread[r] = "loading"
  /\ TellWaiters(r, "failed")
  /\ Publish(r, AfterRaise(r))
  /\ UNCHANGED profile

\* A waiter goes on with the profile, whoever loaded it, or raises.
Awaited(r) ==
  /\ thread[r] = "woken"
  /\ IF profile THEN ThreadTo(r, "running") /\ UNCHANGED queueVars
     ELSE Ends(r, "failed", AfterRaise(r))
  /\ UNCHANGED profile

\* Variant: the report goes first, and the sources it cites follow.
Delivery_Swapped == <<"final", "sources">>

\* _emit_final_output: the list of the sources, then the report that cites it.
Delivery == <<"sources", "final">>

\* The queue of the pipeline drops what is put once the task is cancelled.
Emit(r, event) == Publish(r, IF r \in cancelled THEN <<>> ELSE <<event>>)

\* No await lies between the two puts, but a click may.
Report(r) ==
  /\ \/ /\ thread[r] = "running"
        /\ Emit(r, Delivery[1]) /\ ThreadTo(r, "reporting")
     \/ /\ thread[r] = "reporting"
        /\ Emit(r, Delivery[2]) /\ ThreadTo(r, "reported")
  /\ UNCHANGED profile

\* execute_task_pipeline returns or raises, also after its report: completed,
\* failed, raised, or cancelled by check_cancellation once the event is set.
PipelineEnds(r) ==
  /\ \/ thread[r] = "reported" /\ Ends(r, "succeeded", <<"completed", "end">>)
     \/ /\ thread[r] \in {"running", "reported"}
        /\ \/ Ends(r, "failed", <<"failed", "end">>)
           \/ Ends(r, "failed", AfterRaise(r))
           \/ r \in cancelled /\ Ends(r, "failed", <<"cancelled", "end">>)
  /\ UNCHANGED profile

\* A synchronous call of the pipeline does not return.
Hang(r) ==
  /\ thread[r] = "running" /\ ThreadTo(r, "hung")
  /\ UNCHANGED <<profile, queueVars>>

\* An iteration of the event loop runs all the puts scheduled before it.
Deliver(r) ==
  /\ ready[r] < Len(box[r])
  /\ ready' = [ready EXCEPT ![r] = Len(box[r])]
  /\ UNCHANGED <<box, threadVars>>

ThreadStep(r) ==
  /\ \/ LookUp(r) \/ Loaded(r) \/ LoadFails(r) \/ Awaited(r)
     \/ Report(r) \/ PipelineEnds(r) \/ Hang(r) \/ Deliver(r)
  /\ UNCHANGED <<registryVars, stopVars, cuts, streamVars>>

-----------------------------------------------------------------------------
(* The consumer                                                            *)

\* gradio_run and run_research_once register the task before anything else.
Open(r) ==
  /\ run[r] = "idle"
  /\ Register(r) /\ RunTo(r, "open")
  /\ UNCHANGED <<api, named, signals, cancelled, stopVars, cuts, got, results,
                 queueVars, threadVars>>

\* run_research_once answers from the cache without a task.
FromCache(r) ==
  /\ run[r] = "idle" /\ r \in api /\ results # {}
  /\ RunTo(r, "done")
  /\ UNCHANGED <<registryVars, stopVars, cuts, got, results, queueVars, threadVars>>

\* stream_events_optimized: its cancel event is registered and the thread
\* started.
Start(r) ==
  /\ run[r] = "open" /\ RunTo(r, "yield")
  /\ signals' = signals \cup {r}
  /\ ThreadTo(r, "preload")
  /\ UNCHANGED <<api, named, active, flag, cancelled, stopVars, cuts, got, results,
                 queueVars, profile>>

\* Only a success whose final output arrived is cached.
Cacheable(r) == {"completed", "final"} \subseteq got[r]

\* The task is dropped.
Drop(r) ==
  /\ RunTo(r, "done")
  /\ Unregister(r) /\ cuts' = cuts \ {r}

\* The generator is over: the endpoint renders what it has and may store it.
Finish(r) ==
  /\ Drop(r)
  /\ results' = IF r \in api /\ Cacheable(r) THEN results \cup {r} ELSE results
  /\ got' = [got EXCEPT ![r] = IF r \in results' THEN @ ELSE {}]

\* It is over by a cancellation, which goes on through the caller.
Unwind(r) ==
  /\ Drop(r)
  /\ got' = [got EXCEPT ![r] = {}]
  /\ UNCHANGED results

\* Variant: the thread is waited for in any case.
Waits_Always(isSet) == TRUE

\* "finally": a thread whose event was set by the Stop button is left alone.
Waits(isSet) == ~isSet

\* The finally of stream_events_optimized; what is left of the queue is dropped.
Closes(r) ==
  /\ cancelled' = cancelled \cup {r}
  /\ signals' = signals \ {r}
  /\ box' = [box EXCEPT ![r] = <<>>] /\ ready' = [ready EXCEPT ![r] = 0]
  /\ UNCHANGED <<api, named, threadVars, stopVars>>

\* The loop is left, with the event set or not before its finally.
Leave(r, isSet) ==
  /\ Closes(r)
  /\ IF Waits(isSet)
     THEN RunTo(r, "joining") /\ UNCHANGED <<active, flag, cuts, got, results>>
     ELSE Finish(r)

\* The caller takes a message and asks for the next: the disconnect check at
\* the head of the loop sets the event itself.
Resume(r) ==
  /\ run[r] = "yield"
  /\ IF Flagged(r) THEN Leave(r, TRUE)
     ELSE /\ RunTo(r, "get")
          /\ UNCHANGED <<registryVars, stopVars, cuts, got, results, queueVars,
                         threadVars>>

\* _update_state_with_event: what the page keeps of an event.
Rendered(seen, event) == seen \cup {event}

\* A message arrives, the last of which is the end mark.
Take(r) ==
  /\ run[r] = "get" /\ ready[r] > 0
  /\ IF Head(box[r]) = "end" THEN Leave(r, r \in cancelled)
     ELSE /\ got' = [got EXCEPT ![r] = IF r \in api THEN Rendered(@, Head(box[r]))
                                      ELSE @]
          /\ box' = [box EXCEPT ![r] = Tail(@)]
          /\ ready' = [ready EXCEPT ![r] = @ - 1]
          /\ RunTo(r, "yield")
          /\ UNCHANGED <<registryVars, stopVars, cuts, results, threadVars>>

\* A tenth of a second without a message: the loop ends if the thread is done,
\* also while its last puts are still scheduled; else it goes round, past the
\* disconnect check.
Timeout(r) ==
  /\ run[r] = "get" /\ ready[r] = 0
  /\ \/ Finished(r) /\ Leave(r, r \in cancelled)
     \/ ~Finished(r) /\ Flagged(r) /\ Leave(r, TRUE)

\* Five minutes without a message.
Silence(r) ==
  /\ run[r] = "get" /\ ready[r] = 0
  /\ Leave(r, r \in cancelled)

\* The thread was waited for.
Joined(r) ==
  /\ Finished(r)
  /\ \/ run[r] = "joining" /\ Finish(r)
     \/ run[r] = "cut" /\ Unwind(r)
  /\ UNCHANGED <<api, named, signals, cancelled, stopVars, queueVars, threadVars>>

\* The consumers Gradio can cancel.
Cuttable == {r \in Runs : run[r] \in {"open", "yield", "get", "joining"}}

\* The Stop button of a page whose task has begun.
Click(own) ==
  /\ run[own] # "idle" /\ own \notin api
  /\ Press(own, {own} \cap Cuttable)
  /\ UNCHANGED localVars

LocalStop ==
  (StopStep \/ (SignalTargets /\ StopReturns)) /\ UNCHANGED localVars

\* A call of a stop endpoint, from a session that may run some of the tasks.
CallStop ==
  /\ \E session \in SUBSET (api \cap Cuttable) : StopByCaller(session)
  /\ UNCHANGED localVars

\* Gradio cancels the event of a run that was stopped, in no order with what
\* the handler does.  In a get the finally of the stream runs; between two
\* messages gradio_run goes first and the generator is collected later.  The
\* endpoint consumes its stream itself, and waits nowhere between two messages.
Kill(r) ==
  /\ r \in cuts
  /\ \/ /\ run[r] \in {"open", "yield"} /\ r \notin api
        /\ RunTo(r, IF run[r] = "open" THEN "done" ELSE "dropped")
        /\ Unregister(r) /\ cuts' = cuts \ {r}
        /\ UNCHANGED <<api, named, signals, cancelled, stopVars, queueVars, got,
                       results, threadVars>>
     \/ /\ run[r] = "get" /\ Closes(r)
        /\ IF Waits(r \in cancelled)
           THEN RunTo(r, "cut") /\ cuts' = cuts \ {r}
                /\ UNCHANGED <<active, flag, got, results>>
           ELSE Unwind(r)
     \/ /\ run[r] = "joining" /\ RunTo(r, "cut") /\ cuts' = cuts \ {r}
        /\ UNCHANGED <<registryVars, stopVars, queueVars, got, results, threadVars>>

\* The generator that was left behind is collected.
Collect(r) == run[r] = "dropped" /\ Leave(r, r \in cancelled)

ConsumerStep(r) ==
  \/ Start(r) \/ Resume(r) \/ Take(r) \/ Timeout(r) \/ Joined(r) \/ Collect(r)

LocalNext ==
  \/ \E r \in Runs :
       \/ Open(r) \/ FromCache(r) \/ ConsumerStep(r) \/ Silence(r)
       \/ Click(r) \/ Kill(r) \/ ThreadStep(r)
  \/ LocalStop \/ CallStop

-----------------------------------------------------------------------------
(* Properties                                                              *)

\* A report that is stored for others is the work of a pipeline that succeeded,
\* and has with it the sources it cites.  The endpoint does not look for them:
\* they were put first, and a task that is cancelled between the two puts, a
\* consumer that leaves early, a Stop or a failure after the report must not
\* break them apart.
CachedIsWhole ==
  \A r \in results : thread[r] = "succeeded" /\ {"sources", "final"} \subseteq got[r]

\* Once the event of a running task is set the caller is released, also when
\* its thread never comes back (main.py:1786-1789).
StopReleases ==
  \A r \in Runs :
    (run[r] \in {"yield", "get"} /\ r \in cancelled) ~> (run[r] = "done")

\* Every task ends whose pipeline does, also when the load of the profile it
\* waits for fails.
RunEnds ==
  \A r \in Runs :
    (run[r] \in {"yield", "get", "joining", "cut"})
      ~> (run[r] = "done" \/ thread[r] = "hung")

\* The Stop button of one page leaves the tasks of other pages alone.
StopIsTargeted == stop = "flagged" => targets \cap active \subseteq {page}

-----------------------------------------------------------------------------
(* Said by the documentation, and not so: no run lists these properties  *)

\* A task that nobody stopped is told how it ended
\* (test_stream_emits_explicit_structured_terminal_events).
EndingHeard ==
  \A r \in api :
    run[r] = "joining" /\ Finished(r)
      => got[r] \cap {"completed", "failed", "cancelled"} # {}
=============================================================================
