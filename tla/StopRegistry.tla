---------------------------- MODULE StopRegistry ----------------------------
(***************************************************************************)
(* The registry of running tasks in the Gradio process: which tasks are    *)
(* active, on whose behalf, their cancel flags, and the cancel events of   *)
(* the pipeline threads; with the Stop button and the stop endpoints that   *)
(* work on it.                                                             *)
(*                                                                         *)
(* _CANCEL_LOCK makes each access atomic.  The handler of the button is a   *)
(* plain function, which Gradio runs in a thread of its own: its three     *)
(* accesses are three steps, with anything in between.                     *)
(***************************************************************************)
EXTENDS Integers, Sequences

CONSTANTS
  Runs,      \* the tasks
  MaxStops   \* bound on clicks and calls that stop

ASSUME RegistryAssumption ==
  MaxStops \in Nat /\ "none" \notin Runs

VARIABLES
  api,       \* the tasks of the endpoint run_research_once; the others are
             \* started from a page
  named,     \* those that came with a caller id, all with the same or none
  active,    \* keys of _ACTIVE_TASK_IDS
  flag,      \* _CANCEL_FLAGS: "none" (no entry), "clear" or "set"
  signals,   \* keys of _ACTIVE_CANCEL_EVENTS
  cancelled, \* the tasks whose cancel_event is set
  stop,      \* the step a click has reached: idle | clicked | picked |
             \* flagged | signalled (with the API backend)
  page,      \* the task in the ui_state of the page of that click, or "none"
  cuts,      \* the tasks whose event Gradio has yet to cancel
  targets,   \* target_ids of that click
  stops      \* clicks and calls so far

registryVars == <<api, named, active, flag, signals, cancelled>>
stopVars == <<stop, page, targets, stops>>

RegistryInit ==
  /\ api \in SUBSET Runs /\ named \in {{}, api}
  /\ active = {} /\ flag = [r \in Runs |-> "none"] /\ signals = {}
  /\ cancelled = {}
  /\ stop = "idle" /\ page = "none" /\ cuts = {} /\ targets = {} /\ stops = 0

\* The tasks _get_active_task_ids("") can name.
Unnamed == Runs \ named

\* _reset_cancel_flag and _register_active_task.
Register(r) ==
  /\ active' = active \cup {r}
  /\ flag' = [flag EXCEPT ![r] = "clear"]

\* Variant: the entry of the flag stays.
Unregister_KeepFlag(r) == active' = active \ {r} /\ UNCHANGED flag

\* _unregister_active_task.
Unregister(r) ==
  /\ active' = active \ {r}
  /\ flag' = [flag EXCEPT ![r] = "none"]

\* _disconnect_check_for_task.
Flagged(r) == flag[r] = "set"

\* Somebody presses Stop.  The frame that makes the button work carries the
\* task of the page, which may have ended when the click is handled.  The
\* button also has Gradio cancel what the page itself runs.
Press(shown, own) ==
  /\ stop = "idle" /\ stops < MaxStops
  /\ stops' = stops + 1
  /\ page' = shown /\ cuts' = cuts \cup own
  /\ stop' = "clicked"
  /\ UNCHANGED <<registryVars, targets>>

\* stop_current_ui, first access: the task the page names if it is active,
\* all active tasks without a caller id if it is not.
PickTargets ==
  /\ stop = "clicked"
  /\ targets' = IF page \in active \cap Unnamed THEN {page}
                ELSE active \cap Unnamed
  /\ stop' = "picked"
  /\ UNCHANGED <<registryVars, page, cuts, stops>>

\* Variant: a task that has ended meanwhile is marked as well.
Markable_All == targets

\* The tasks _cancel_task_ids marks.
Markable == targets \cap active

\* Second access.
FlagTargets ==
  /\ stop = "picked"
  /\ flag' = [r \in Runs |-> IF r \in Markable THEN "set" ELSE flag[r]]
  /\ stop' = "flagged"
  /\ UNCHANGED <<api, named, active, signals, cancelled, page, cuts, targets,
                 stops>>

\* Third access: _signal_pipeline_cancel.
SignalTargets ==
  /\ stop = "flagged"
  /\ signals' = signals \ targets
  /\ cancelled' = cancelled \cup (targets \cap signals)
  /\ UNCHANGED <<api, named, active, flag, cuts, stops>>

\* The handler returns.
StopReturns == stop' = "idle" /\ targets' = {} /\ page' = "none"

\* stop_current_by_caller_api selects and marks in one access, and does not
\* touch the threads.  Gradio cancels the endpoint's runs of the same session,
\* whatever their caller id.
StopByCaller(session) ==
  /\ stops < MaxStops
  /\ stops' = stops + 1
  /\ session \cup (active \cap named) # {}
  /\ cuts' = cuts \cup session
  /\ flag' = [r \in Runs |-> IF r \in active \cap named THEN "set" ELSE flag[r]]
  /\ UNCHANGED <<api, named, active, signals, cancelled, stop, page, targets>>

StopStep == PickTargets \/ FlagTargets
=============================================================================
