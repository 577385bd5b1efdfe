-------------------------------- MODULE Demo --------------------------------
(***************************************************************************)
(* The Gradio process with either backend: every entry point asks          *)
(* is_api_mode_enabled, and the environment does not change while it runs. *)
(***************************************************************************)
EXTENDS DemoLocal, DemoApi

VARIABLE backend   \* BACKEND_MODE: local | api

vars == <<registryVars, stopVars, cuts, localVars, apiVars, backend>>

\* get_backend_mode refuses any other value.
Backends == {"local", "api"}

Init ==
  /\ backend \in Backends
  /\ RegistryInit /\ LocalInit /\ ApiInit

\* gradio_run, run_research_once, stop_current_ui and stop_current_api branch on
\* the backend.
Next ==
  \/ backend = "local" /\ LocalNext /\ UNCHANGED <<apiVars, backend>>
  \/ backend = "api" /\ ApiNext /\ UNCHANGED <<localVars, backend>>

\* What the steps of the local backend change.
runVars == <<registryVars, stopVars, cuts, localVars>>

Spec == Init /\ [][Next]_vars

\* The event loop and the threads run; a pipeline ends unless it hangs.
Fairness ==
  /\ \A r \in Runs : WF_runVars(ConsumerStep(r)) /\ WF_runVars(ThreadStep(r))
  /\ WF_runVars(LocalStop)

FairSpec == Spec /\ Fairness

-----------------------------------------------------------------------------
(* Properties                                                              *)

\* A task nobody runs or reads any more has no entry, no flag and no cancel
\* event, in whatever order its viewers, a click and a caller left: the marks
\* of a task cannot pile up or meet a later one.
NoOrphans ==
  \A r \in Runs : ~ (HeldByRun(r) \/ HeldByView(r)) /\ run[r] # "dropped"
    => r \notin active /\ flag[r] = "none" /\ r \notin signals
=============================================================================
