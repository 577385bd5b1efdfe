------------------------------- MODULE DemoApi -------------------------------
(***************************************************************************)
(* The Gradio demo with the API server as its backend: a run creates a     *)
(* task there and reads its event stream; a page that is loaded with the   *)
(* id of a task in its address reads the stream as well.  Both share the   *)
(* entry of the task in the registry.                                      *)
(*                                                                         *)
(* Tasks are named after the runs that create them.  The server is reduced *)
(* to what its clients see of it.                                          *)
(***************************************************************************)
EXTENDS StopRegistry

Viewers == {"run", "reload"}

VARIABLES
  view,    \* per viewer: idle | create | again | lookup | read | left (the
           \* stream was read) | done (it never was)
  holds,   \* the viewers that have registered their task
  server   \* none | live | asked (to cancel) | ended

viewVars == <<view, holds>>
apiVars == <<viewVars, server>>

ApiInit ==
  /\ view = [r \in Runs |-> [v \in Viewers |-> "idle"]]
  /\ holds = {}
  /\ server = [r \in Runs |-> "none"]

ViewTo(r, v, p) == view' = [view EXCEPT ![r][v] = p]

\* A viewer of the task has registered it.
HeldByView(r) == \E v \in Viewers : <<r, v>> \in holds

\* The first viewer to leave removes the entry they share.
Release(r, v) ==
  /\ holds' = holds \ {<<r, v>>}
  /\ IF <<r, v>> \in holds THEN Unregister(r) ELSE UNCHANGED <<active, flag>>

\* A viewer ends, in one way or another.
Close(r, v) ==
  /\ ViewTo(r, v, IF view[r][v] = "read" THEN "left" ELSE "done")
  /\ Release(r, v)
  /\ cuts' = IF v = "run" THEN cuts \ {r} ELSE cuts

\* _cancel_remote_task_ids: a request that fails is logged and forgotten.
AskServer(rs) ==
  \E reached \in SUBSET {r \in rs : server[r] = "live"} :
    server' = [r \in Runs |-> IF r \in reached THEN "asked" ELSE server[r]]

-----------------------------------------------------------------------------
(* The server                                                              *)

\* A task ends by itself or because it was asked to.
ServerEnds(r) ==
  /\ server[r] \in {"live", "asked"}
  /\ server' = [server EXCEPT ![r] = "ended"]
  /\ UNCHANGED <<viewVars, registryVars, stopVars, cuts>>

-----------------------------------------------------------------------------
(* A run                                                                   *)

Submit(r) ==
  /\ view[r]["run"] = "idle"
  /\ ViewTo(r, "run", "create")
  /\ UNCHANGED <<holds, server, registryVars, stopVars, cuts>>

\* The task exists at the server from the moment the request is carried out;
\* a result in the cache makes it a task that has ended.
ServerCreates(r) ==
  /\ view[r]["run"] \in {"create", "again"} /\ server[r] = "none"
  /\ \E s \in {"live", "ended"} : server' = [server EXCEPT ![r] = s]
  /\ UNCHANGED <<viewVars, registryVars, stopVars, cuts>>

\* The answer arrives: the task is registered, with a clear flag.
Created(r) ==
  /\ view[r]["run"] \in {"create", "again"} /\ server[r] # "none"
  /\ ViewTo(r, "run", "read")
  /\ Register(r) /\ holds' = holds \cup {<<r, "run">>}
  /\ UNCHANGED <<server, api, named, signals, cancelled, stopVars, cuts>>

\* An answer of 400 or more is retried once; then, or when the connection fails
\* or times out, the run ends with an error.  A task that the server has made
\* all the same goes on without anybody who knows of it: the second request
\* makes another.
CreateFails(r) ==
  /\ \/ /\ view[r]["run"] = "create" /\ ViewTo(r, "run", "again")
        /\ server' = [server EXCEPT ![r] = "none"]
     \/ /\ view[r]["run"] \in {"create", "again"} /\ ViewTo(r, "run", "done")
        /\ UNCHANGED server
  /\ UNCHANGED <<holds, registryVars, stopVars, cuts>>

-----------------------------------------------------------------------------
(* A page that reconnects                                                  *)

\* reconnect_or_init, with the id from the address.
Reload(r) ==
  /\ server[r] # "none" /\ r \notin api
  /\ view[r]["reload"] = "idle" /\ view[r]["run"] \in {"read", "left"}
  /\ ViewTo(r, "reload", "lookup")
  /\ UNCHANGED <<holds, server, registryVars, stopVars, cuts>>

\* The snapshot arrives: a task that has ended is not registered.  It may also
\* be refused or have expired.
Snapshot(r) ==
  /\ view[r]["reload"] = "lookup"
  /\ \/ /\ ViewTo(r, "reload", "read")
        /\ \/ server[r] = "ended" /\ UNCHANGED <<holds, active, flag>>
           \/ /\ server[r] # "ended"
              /\ Register(r) /\ holds' = holds \cup {<<r, "reload">>}
     \/ ViewTo(r, "reload", "done") /\ UNCHANGED <<holds, active, flag>>
  /\ UNCHANGED <<server, api, named, signals, cancelled, stopVars, cuts>>

-----------------------------------------------------------------------------
(* Reading the stream                                                      *)

\* A chunk arrives: cancel_check is asked first, then the done event of a task
\* that has ended closes the stream.  Other events and heartbeats are shown.
Chunk(r, v) ==
  /\ view[r][v] = "read"
  /\ Flagged(r) \/ server[r] = "ended"
  /\ Close(r, v)
  /\ UNCHANGED <<server, api, named, signals, cancelled, stopVars>>

\* The stream is refused, breaks, or is silent for ten minutes.
Breaks(r, v) ==
  /\ view[r][v] = "read" /\ Close(r, v)
  /\ UNCHANGED <<server, api, named, signals, cancelled, stopVars>>

ViewerStep(r) ==
  \/ Created(r) \/ Snapshot(r)
  \/ \E v \in Viewers : Chunk(r, v)

-----------------------------------------------------------------------------
(* Stopping                                                                *)

Watches(r, v) == view[r][v] = "read"
Calling(r) == view[r]["run"] \in {"create", "again", "read"}

\* The Stop button of the page of a run, or of one that reconnected and has no
\* run of its own.  It works from the first frame of the stream to the last,
\* which a click may cross.
ClickApi(r, v) ==
  /\ r \notin api
  /\ Watches(r, v) \/ view[r][v] = "left"
  /\ Press(r, IF v = "run" /\ Watches(r, v) THEN {r} ELSE {})
  /\ UNCHANGED apiVars

\* The handler goes on to ask the server, after the registry.
Signalled ==
  /\ SignalTargets
  /\ stop' = "signalled" /\ UNCHANGED <<page, targets>>
  /\ UNCHANGED apiVars

CancelRemote ==
  /\ stop = "signalled"
  /\ AskServer(targets)
  /\ StopReturns
  /\ UNCHANGED <<viewVars, registryVars, cuts, stops>>

\* Gradio cancels the run of the page the button belongs to, in no order with
\* the handler; a page that reconnected is not cancelled.
CancelRun(r) ==
  /\ r \in cuts \ api
  /\ Watches(r, "run") /\ Close(r, "run")
  /\ UNCHANGED <<server, api, named, signals, cancelled, stopVars>>

\* A call of run_research_once that Gradio cancels asks the server itself, if it
\* has the id of the task.
CancelCall(r) ==
  /\ r \in cuts \cap api
  /\ Calling(r) /\ Close(r, "run")
  /\ AskServer(IF Watches(r, "run") THEN {r} ELSE {})
  /\ UNCHANGED <<api, named, signals, cancelled, stopVars>>

\* stop_current_by_caller marks the tasks and has them cancelled.
CancelByCaller ==
  /\ \E session \in SUBSET {r \in api : Calling(r)} : StopByCaller(session)
  /\ AskServer(active \cap named)
  /\ UNCHANGED viewVars

ApiStop == (StopStep /\ UNCHANGED apiVars) \/ Signalled \/ CancelRemote

ApiNext ==
  \/ \E r \in Runs :
       \/ Submit(r) \/ ServerCreates(r) \/ CreateFails(r) \/ Reload(r)
       \/ ServerEnds(r) \/ ViewerStep(r) \/ CancelRun(r) \/ CancelCall(r)
       \/ \E v \in Viewers : Breaks(r, v) \/ ClickApi(r, v)
  \/ ApiStop \/ CancelByCaller

-----------------------------------------------------------------------------
(* Said by the documentation, and not so: no run lists these properties  *)

\* A Stop on the page of a live task is passed on to the server, whether or not
\* the request gets there.
StopIsHeard ==
  [][CancelRemote => page \in targets \/ server[page] # "live"]_<<stopVars, apiVars>>
=============================================================================
