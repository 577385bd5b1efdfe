--------------------------- MODULE TaskLifecycle ----------------------------
(***************************************************************************)
(* What the API promises about one task, with no API process, queue,       *)
(* worker or pipeline in sight: TaskStatus, the stored result, and the     *)
(* order in which a caller that polls GET /v1/research/{task_id} may see   *)
(* them change.                                                            *)
(*                                                                         *)
(* disturbed records that the deployment did not behave: a call of the     *)
(* store or of the queue raised, or a worker was interrupted or killed.    *)
(* From then on the promise is weaker: a status may be replaced, yet a     *)
(* task still never says completed without a result, and never vanishes.   *)
(* A task served from the shared cache keeps its status whatever happens.  *)
(***************************************************************************)

VARIABLES status, result, disturbed

vars == <<status, result, disturbed>>

Terminal == {"completed", "failed", "cancelled"}

Init == status = "none" /\ result = FALSE /\ disturbed = FALSE

\* The task is accepted.
Submit ==
  /\ status = "none" /\ status' = "queued"
  /\ UNCHANGED <<result, disturbed>>

\* The report of an earlier research is served.
Serve ==
  /\ status = "none" /\ status' = "cached"
  /\ UNCHANGED <<result, disturbed>>

\* An attempt starts, or goes back to the queue.
Attempt ==
  /\ \/ status = "queued" /\ status' = "running"
     \/ status = "running" /\ status' = "queued"
  /\ UNCHANGED <<result, disturbed>>

StoreResult ==
  /\ result' = TRUE
  /\ UNCHANGED <<status, disturbed>>

\* Only a running task completes; a queued one may still be cancelled.
End ==
  /\ \/ status = "running" /\ result /\ status' = "completed"
     \/ status = "running" /\ status' \in {"failed", "cancelled"}
     \/ status = "queued" /\ status' = "cancelled"
     \/ status = "queued" /\ status' = "failed"
  /\ UNCHANGED <<result, disturbed>>

\* The deployment misbehaves: this very step may already replace the status.
Disturb ==
  /\ disturbed' = TRUE
  /\ status' \in {status, "queued", "running", "cached"} \union Terminal
  /\ status = "cached" => status' = "cached"
  /\ status' = "cached" => status \in {"none", "cached"}
  /\ result' \in {result, TRUE}
  /\ status' = "completed" => result'

Next == Submit \/ Serve \/ Attempt \/ StoreResult \/ End \/ Disturb

Spec == Init /\ [][Next]_vars

\* What a caller may rely on.
CompletedHasResult == status = "completed" => result

TerminalIsFinal ==
  [][(status \in Terminal) /\ status' # status => disturbed']_vars

=============================================================================
