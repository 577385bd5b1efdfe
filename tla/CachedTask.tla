----------------------------- MODULE CachedTask -----------------------------
(***************************************************************************)
(* POST /v1/research in front of the shared result cache: create_research  *)
(* looks for a report of the same research first, drops an entry it cannot *)
(* use, and serves one it can as a task of its own with status "cached".   *)
(* Without one the request goes the way of ResearchTask.                   *)
(*                                                                         *)
(* The id of a served task reaches its client with the answer to the POST, *)
(* after the last write.  Any write that raises answers 500 and leaves the *)
(* record as it is.  A read or a removal of the cache that raises counts   *)
(* as a fault of the call "cache".                                         *)
(***************************************************************************)
EXTENDS ResearchTask

VARIABLES
  entry,    \* what the shared cache holds: absent | good | broken
  serving,  \* create_research: look | drop | write | served | failed | miss
  written   \* writes of the served task that are done

cacheVars == <<entry, serving, written>>
cachedVars == <<vars, cacheVars>>

CachedInit ==
  /\ Init
  /\ entry \in {"absent", "good", "broken"} /\ serving = "look" /\ written = 0

\* The request answers 500.
Refuse == serving' = "failed" /\ client' = "rejected"

\* get_cached_result and _validate_cached_quality: a report with a quality
\* that has an answer and with its sources.
Usable(e) == e = "good"

LookUp ==
  /\ serving = "look"
  /\ \/ /\ Returns
        /\ serving' = IF Usable(entry) THEN "write"
                      ELSE IF entry = "broken" THEN "drop" ELSE "miss"
        /\ UNCHANGED client
     \/ Raises("cache") /\ Refuse
  /\ UNCHANGED <<store, canceller, queue, worker, pipeline, disruptions,
                 entry, written>>

\* delete_cached_result: the request goes on as if there had been no entry.
DropEntry ==
  /\ serving = "drop"
  /\ \/ Returns /\ entry' = "absent" /\ serving' = "miss" /\ UNCHANGED client
     \/ Raises("cache") /\ entry' \in {"absent", entry} /\ Refuse
  /\ UNCHANGED <<store, canceller, queue, worker, pipeline, disruptions,
                 written>>

\* The writes of a served task in their order.
Writes ==
  <<"create", "registry", "registryEvent", "finalEvent", "result", "quality",
    "status", "expire">>

\* The call of the store each of them is.
CallOf(w) ==
  CASE w \in {"registry", "result", "quality"} -> "save"
    [] w \in {"registryEvent", "finalEvent"} -> "append"
    [] OTHER -> w

\* What the record shows of it.
Effect(w) ==
  /\ status' = IF w \in {"create", "status"} THEN "cached" ELSE status
  /\ result' = (result \/ w = "result")
  /\ events' = CASE w = "registryEvent" -> Append(events, "source_registry")
                 [] w = "finalEvent" -> Append(events, "final_output")
                 [] OTHER -> events

\* The next write; after the last one the client learns the id.
Serve ==
  /\ serving = "write"
  /\ written' = written + 1
  /\ LET w == Writes[written + 1]
     IN  \/ /\ Returns /\ Effect(w)
            /\ serving' = IF written' = Len(Writes) THEN "served" ELSE "write"
            /\ UNCHANGED client
         \/ /\ Raises(CallOf(w)) /\ Refuse
            /\ Effect(w) \/ UNCHANGED <<status, result, events>>
  /\ UNCHANGED <<cancelRequested, cache, canceller, queue, worker, pipeline,
                 disruptions, entry>>

CacheStep == LookUp \/ DropEntry \/ Serve

\* A miss: the request creates and enqueues a task.
Research == serving = "miss" /\ Next /\ UNCHANGED cacheVars

CachedNext == CacheStep \/ Research

=============================================================================
