----------------------------- MODULE Benchmark ------------------------------
(***************************************************************************)
(* A benchmark (common_benchmark.py): every task is tried up to K times by *)
(* a process of a pool, an attempt is repeated when it brings no usable    *)
(* answer, and answers are judged.  The logs of the attempts are all that  *)
(* outlives the benchmark; started again in the same directory it goes on  *)
(* from them.                                                              *)
(*                                                                         *)
(* The pipeline of an attempt is taken as a whole, with the log it writes. *)
(* Newer logs of a repetition hide older ones, so one is kept for each.    *)
(* The failure experiences that are told to the next repetition are left   *)
(* out: nothing here depends on what a task is told.                       *)
(***************************************************************************)
EXTENDS Integers, FiniteSets, FiniteSetsExt

CONSTANTS
  Tasks,      \* tasks of the benchmark
  K,          \* pass_at_k
  Limit,      \* context_compress_limit: repetitions of an attempt
  Workers,    \* max_concurrent
  MaxRuns     \* bound of the model: times the benchmark is started

ASSUME BenchmarkAssumption ==
  /\ IsFiniteSet(Tasks) /\ K \in Nat \ {0} /\ Limit \in Nat
  /\ Workers \in Nat \ {0} /\ MaxRuns \in Nat \ {0}

Attempts == 1..K
Retries == 0..Limit

\* A log file: none, torn (cut off while it was written), or what it says.
Log(s, a, v) == [status |-> s, answer |-> a, verdict |-> v]
NoLog == Log("absent", "none", "none")
Torn == Log("torn", "none", "none")

VARIABLES
  log,      \* of every task, attempt and repetition
  at,       \* per task: queued | loaded | running | judging | recording | over
  attempt,  \* the attempt a task is in
  retry,    \* format_retry_count
  got,      \* attempt_result: [status, answer, verdict]
  best,     \* result: [status, answer, attempt]
  found,    \* found_correct_answer, which evaluate_accuracy counts
  ending,   \* how a task got its result: none | whole | cancelled | broken
  runs,     \* times the benchmark was started
  formatErrors \* completed runs of an attempt whose answer had no format

files == <<log, formatErrors>>
process == <<at, attempt, retry, got, best, found, ending>>
vars == <<files, process, runs>>

Nothing == [status |-> "pending", answer |-> "none", verdict |-> "none"]
NoResult == [status |-> "pending", answer |-> "none", attempt |-> 0]

Init ==
  /\ at = [t \in Tasks |-> "queued"] /\ attempt = [t \in Tasks |-> 1]
  /\ retry = [t \in Tasks |-> 0] /\ got = [t \in Tasks |-> Nothing]
  /\ best = [t \in Tasks |-> NoResult] /\ found = [t \in Tasks |-> FALSE]
  /\ ending = [t \in Tasks |-> "none"]
  /\ log = [t \in Tasks |-> [a \in Attempts |-> [r \in Retries |-> NoLog]]]
  /\ formatErrors = [t \in Tasks |-> [a \in Attempts |-> 0]]
  /\ runs = 1

-----------------------------------------------------------------------------
(* An attempt begins                                                       *)

\* matching_logs[-1]: the log of the last repetition there is one of, or -1.
Newest(t, a) == Max({-1} \cup {r \in Retries : log[t][a][r] # NoLog})

\* Variant: a repetition that ended is done again.
RetryOf_Same(r, l) == r

\* The repetition to go on with after log l of repetition r.
RetryOf(r, l) == IF l.status = "success" THEN r + 1 ELSE r

\* Variant: the verdict of an answer is asked for again.
Loaded_NoVerdict(l) ==
  IF l.answer = "none" THEN Nothing ELSE [l EXCEPT !.verdict = "none"]

\* What is taken over from a log: nothing without an answer in it.
Loaded(l) == IF l.answer = "none" THEN Nothing ELSE l

\* Attempt a of t with what the logs have of it.
Begin(t, a) ==
  LET r == Newest(t, a)
  IN  /\ attempt' = [attempt EXCEPT ![t] = a]
      /\ retry' = [retry EXCEPT ![t] = IF r = -1 THEN 0 ELSE RetryOf(r, log[t][a][r])]
      /\ got' = [got EXCEPT ![t] = IF r = -1 THEN Nothing ELSE Loaded(log[t][a][r])]
      /\ at' = [at EXCEPT ![t] = "loaded"]

Busy == {t \in Tasks : at[t] \notin {"queued", "over"}}

\* _task_worker: a process of the pool takes a task.
StartTask(t) ==
  /\ at[t] = "queued" /\ Cardinality(Busy) < Workers
  /\ Begin(t, 1)
  /\ UNCHANGED <<files, best, found, ending, runs>>

\* The pipeline runs unless there is an answer, as often as it may.
MayRun(t) == got[t].answer \in {"none", "format"} /\ retry[t] <= Limit

PipelineStarts(t) ==
  /\ at[t] = "loaded" /\ MayRun(t)
  /\ log' = [log EXCEPT ![t][attempt[t]][retry[t]] = Log("running", "none", "none")]
  /\ at' = [at EXCEPT ![t] = "running"]
  /\ UNCHANGED <<attempt, retry, got, best, found, ending, formatErrors, runs>>

\* Nothing to run: the answer of the log is judged, or its verdict known.
\* got is the log's, which may be a success without a format.
Goes(g) == IF g.status = "success" /\ g.answer = "text" /\ g.verdict = "none"
           THEN "judging" ELSE "recording"

TakeOver(t) ==
  /\ at[t] = "loaded" /\ ~MayRun(t)
  /\ at' = [at EXCEPT ![t] = Goes(got[t])]
  /\ UNCHANGED <<files, attempt, retry, got, best, found, ending, runs>>

-----------------------------------------------------------------------------
(* The pipeline returns                                                    *)

\* The log of t says l.
Logs(t, l) == log' = [log EXCEPT ![t][attempt[t]][retry[t]] = l]

\* A completed run, with an answer or with none to judge.
Completes(t) ==
  /\ at[t] = "running"
  /\ \E a \in {"text", "none"} :
       LET l == Log("success", a, "none")
       IN  /\ Logs(t, l) /\ got' = [got EXCEPT ![t] = l]
           /\ at' = [at EXCEPT ![t] = Goes(l)]
  /\ UNCHANGED <<attempt, retry, best, found, ending, formatErrors, runs>>

\* A completed run whose answer has no format is repeated, and at the end of
\* the repetitions a success without an answer to judge.
NoFormat(t) ==
  /\ at[t] = "running"
  /\ LET l == Log("success", "format", "none")
     IN  Logs(t, l) /\ got' = [got EXCEPT ![t] = l]
  /\ formatErrors' = [formatErrors EXCEPT ![t][attempt[t]] = @ + 1]
  /\ retry' = [retry EXCEPT ![t] = @ + 1]
  /\ at' = [at EXCEPT ![t] = IF retry[t] < Limit THEN "loaded" ELSE "recording"]
  /\ UNCHANGED <<attempt, best, found, ending, runs>>

\* _is_retryable_summary_failure: the research is there and the summary is not.
Retryable(failure) == failure = "summary"

\* A run that failed for want of a summary is repeated, any other failure is
\* not.  Its log has no answer, or one without a format.
Fails(t) ==
  /\ at[t] = "running"
  /\ \E a \in {"none", "format"} : Logs(t, Log("failed", a, "none"))
  /\ \E failure \in {"summary", "other"} :
       IF Retryable(failure) /\ retry[t] < Limit
       THEN /\ retry' = [retry EXCEPT ![t] = @ + 1]
            /\ at' = [at EXCEPT ![t] = "loaded"] /\ UNCHANGED got
       ELSE /\ at' = [at EXCEPT ![t] = "recording"]
            /\ got' = [got EXCEPT ![t].status = "failed"] /\ UNCHANGED retry
  /\ UNCHANGED <<attempt, best, found, ending, formatErrors, runs>>

Cancelled(t) ==
  /\ at[t] = "running"
  /\ Logs(t, Log("cancelled", "none", "none"))
  /\ got' = [got EXCEPT ![t].status = "cancelled"]
  /\ at' = [at EXCEPT ![t] = "recording"]
  /\ UNCHANGED <<attempt, retry, best, found, ending, formatErrors, runs>>

-----------------------------------------------------------------------------
(* The answer is judged and recorded                                       *)

\* The log the attempt took its answer from.
AnswerLog(t) == Newest(t, attempt[t])

\* _update_log_file_with_evaluation: the log is replaced at once by a complete
\* file, or left alone when anything of it fails.
WriteVerdict(t, v) ==
  \/ UNCHANGED log
  \/ log' = [log EXCEPT ![t][attempt[t]][AnswerLog(t)].verdict = v]

\* A judge that fails is not written down.
Judge(t) ==
  /\ at[t] = "judging"
  /\ \E v \in {"CORRECT", "INCORRECT", "ERROR"} :
       /\ got' = [got EXCEPT ![t].verdict = v]
       /\ IF v = "ERROR" THEN UNCHANGED log ELSE WriteVerdict(t, v)
  /\ at' = [at EXCEPT ![t] = "recording"]
  /\ UNCHANGED <<attempt, retry, best, found, ending, formatErrors, runs>>

Correct(g) == g.verdict = "CORRECT"

\* Variant: the first answer is reported.
Better_First(t) ==
  attempt[t] = 1 \/ (got[t].status = "success" /\ best[t].answer = "none")

\* The attempt becomes the result of the task.
Better(t) ==
  \/ Correct(got[t]) \/ attempt[t] = 1
  \/ got[t].status = "success" /\ best[t].answer = "none"

\* The attempt is recorded, and the next one begins unless this was the last,
\* brought a correct answer, or was cancelled.
Record(t) ==
  /\ at[t] = "recording"
  /\ best' = IF Better(t)
             THEN [best EXCEPT ![t] = [status |-> got[t].status,
                                       answer |-> got[t].answer,
                                       attempt |-> attempt[t]]]
             ELSE best
  /\ found' = [found EXCEPT ![t] = Correct(got[t])]
  /\ IF Correct(got[t]) \/ got[t].status = "cancelled" \/ attempt[t] = K
     THEN /\ at' = [at EXCEPT ![t] = "over"]
          /\ ending' = [ending EXCEPT ![t] =
               IF got[t].status = "cancelled" THEN "cancelled" ELSE "whole"]
          /\ UNCHANGED <<attempt, retry, got>>
     ELSE Begin(t, attempt[t] + 1) /\ UNCHANGED ending
  /\ UNCHANGED <<files, runs>>

-----------------------------------------------------------------------------
(* The pool                                                                *)

Running == {t \in Tasks : at[t] = "running"}

\* The logs of the tasks in S are cut off.
Cut(S) ==
  [t \in Tasks |-> IF t \in S THEN [log[t] EXCEPT ![attempt[t]][retry[t]] = Torn]
                   ELSE log[t]]

\* A process dies and the pool breaks: what has no result yet gets a failure.
PoolBreaks ==
  /\ Busy # {}
  /\ \E S \in SUBSET Running : log' = Cut(S)
  /\ at' = [t \in Tasks |-> "over"]
  /\ ending' = [t \in Tasks |-> IF at[t] = "over" THEN ending[t] ELSE "broken"]
  /\ best' = [t \in Tasks |-> IF at[t] = "over" THEN best[t]
                              ELSE [NoResult EXCEPT !.status = "failed"]]
  /\ found' = [t \in Tasks |-> at[t] = "over" /\ found[t]]
  /\ UNCHANGED <<attempt, retry, got, formatErrors, runs>>

\* The benchmark ends or is interrupted anywhere, and is started again.
StartAgain ==
  /\ runs < MaxRuns
  /\ \E S \in SUBSET Running : log' = Cut(S)
  /\ at' = [t \in Tasks |-> "queued"] /\ attempt' = [t \in Tasks |-> 1]
  /\ retry' = [t \in Tasks |-> 0] /\ got' = [t \in Tasks |-> Nothing]
  /\ best' = [t \in Tasks |-> NoResult] /\ found' = [t \in Tasks |-> FALSE]
  /\ ending' = [t \in Tasks |-> "none"]
  /\ runs' = runs + 1
  /\ UNCHANGED formatErrors

\* The tasks evaluate_accuracy counts as passed.
Passed == {t \in Tasks : found[t]}

Finished == (\A t \in Tasks : at[t] = "over") /\ UNCHANGED vars

TaskStep(t) ==
  \/ StartTask(t) \/ PipelineStarts(t) \/ TakeOver(t) \/ Completes(t)
  \/ NoFormat(t) \/ Fails(t) \/ Cancelled(t) \/ Judge(t) \/ Record(t)

Next == (\E t \in Tasks : TaskStep(t)) \/ PoolBreaks \/ StartAgain \/ Finished

Spec == Init /\ [][Next]_vars

-----------------------------------------------------------------------------
(* Properties                                                              *)

\* Whether t has a log with a verdict CORRECT.
Proven(t) == \E a \in Attempts, r \in Retries : log[t][a][r].verdict = "CORRECT"

\* However often the benchmark is interrupted, cut off and started again: a
\* task once judged correct passes in every run that brings it to its end, and
\* a task that passes reports the answer of the attempt that was judged so.
CorrectIsKept ==
  \A t \in Tasks :
    /\ ending[t] = "whole" /\ Proven(t) => t \in Passed
    /\ t \in Passed => best[t].answer = "text" /\ best[t].attempt = attempt[t]

\* Starting again gives no attempt more repetitions: answers without a format
\* are counted across the runs of the benchmark.
RepetitionsBounded ==
  \A t \in Tasks, a \in Attempts : formatErrors[t][a] <= Limit + 1
=============================================================================
