--------------------------- MODULE ResearchStream ---------------------------
(***************************************************************************)
(* GET /v1/research/{task_id}/stream: one reader of a task's event stream  *)
(* (stream_research in routers/research.py) beside everything that writes  *)
(* it (CachedTask, which extends ResearchTask).                            *)
(*                                                                         *)
(* The reader pages through the stream ReadCount events at a time, looks   *)
(* at the status between two pages, and once it is terminal drains what is *)
(* left and closes with "done".  What it has delivered is always the       *)
(* prefix of the stream its cursor (last_event_id) stands at.  A client    *)
(* that reconnects opens a new stream, which starts over: this reader may  *)
(* open at any moment of the task's life.  Trimming of streams longer than *)
(* event_stream_maxlen is not modelled.                                    *)
(***************************************************************************)
EXTENDS CachedTask

CONSTANT ReadCount   \* SSE_EVENT_READ_COUNT

ASSUME ReadCountAssumption == ReadCount \in Nat \ {0}

VARIABLES
  reader,  \* where the generator is
  cursor,  \* last_event_id, as a position of the stream
  seen     \* the status of the last get_task

streamVars == <<cachedVars, reader, cursor, seen>>

StreamInit == CachedInit /\ reader = "idle" /\ cursor = 0 /\ seen = "none"

\* stream_research answers 404 unless the task exists; the id of a task that
\* is served from the cache is known to nobody before the last write.
Open ==
  /\ reader = "idle"
  /\ status # "none"
  /\ serving \in {"miss", "served"}
  /\ reader' = "read"
  /\ UNCHANGED <<cachedVars, cursor, seen>>

\* The number of events one xread returns.
Page == LET left == Len(events) - cursor
        IN  IF left < ReadCount THEN left ELSE ReadCount

ReadPage ==
  /\ reader = "read"
  /\ cursor' = cursor + Page
  /\ reader' = "poll"
  /\ UNCHANGED <<cachedVars, seen>>

\* Variant: a cancelled task is not taken for an ended one.
Ended_ForgetsCancelled(s) == s \in {"completed", "failed"}

\* The statuses at which the stream closes.
Ended(s) == s \in Terminal \union {"cached"}

\* Variant: what was read before the status is taken for everything.
CheckStatus_NoDrain ==
  /\ reader = "poll"
  /\ seen' = status
  /\ reader' = IF Ended(status) THEN "done" ELSE "read"
  /\ UNCHANGED <<cachedVars, cursor>>

CheckStatus ==
  /\ reader = "poll"
  /\ seen' = status
  /\ reader' = IF Ended(status) THEN "drain" ELSE "read"
  /\ UNCHANGED <<cachedVars, cursor>>

\* Variant: one page is enough.
Drained_OnePage == TRUE

\* A short page is the last one.
Drained == Page < ReadCount

\* The non-blocking drain.
DrainPage ==
  /\ reader = "drain"
  /\ cursor' = cursor + Page
  /\ reader' = IF Drained THEN "done" ELSE "drain"
  /\ UNCHANGED <<cachedVars, seen>>

ReaderStep == Open \/ ReadPage \/ CheckStatus \/ DrainPage

StreamNext ==
  \/ ReaderStep
  \/ CachedNext /\ UNCHANGED <<reader, cursor, seen>>

StreamSpec == StreamInit /\ [][StreamNext]_streamVars

\* A connected reader is scheduled, and so is the rest.
StreamFairSpec ==
  /\ StreamSpec
  /\ WF_streamVars(ReadPage \/ CheckStatus \/ DrainPage)
  /\ WF_streamVars(ArqStep /\ UNCHANGED <<cacheVars, reader, cursor, seen>>)
  /\ WF_streamVars(WorkerStep /\ UNCHANGED <<cacheVars, reader, cursor, seen>>)
  /\ WF_streamVars(WatcherFires /\ UNCHANGED <<cacheVars, reader, cursor, seen>>)
  /\ \A a \in Attempts :
       WF_streamVars((PipelineStarts(a) \/ AppendFinal(a) \/ StoreFinal(a)
                        \/ ManagersClosed(a) \/ EmitTail(a))
                     /\ UNCHANGED <<cacheVars, reader, cursor, seen>>)

-----------------------------------------------------------------------------
(* Properties                                                              *)

\* The event that holds the ending a status names.
EndingEvent(s) == IF s = "cached" THEN "final_output" ELSE TerminalEvent(s)

Delivered(e) == \E i \in 1..cursor : events[i] = e

\* A stream that closes with "done" has delivered the event of the ending it
\* names, whatever failed, was retried or was struck meanwhile
\* (routers/research.py:304-306), be it researched or served from the cache, and
\* a report it names can be fetched.  When nothing has gone wrong it has
\* delivered all there will ever be and names the status the task keeps: a
\* client that stops at "done" misses nothing.
DoneIsComplete ==
  reader = "done" =>
    /\ "append" \notin FaultyCalls => Delivered(EndingEvent(seen))
    /\ seen \in {"completed", "cached"} => result
    /\ Calm => cursor = Len(events) /\ seen = status

\* Whoever watches a task that was asked to stop sees the stream close.
StreamCloses ==
  (reader # "idle" /\ cancelRequested /\ job \in {"queued", "running"})
    ~> (reader = "done")

=============================================================================
