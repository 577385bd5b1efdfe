------------------------------ MODULE SubAgent ------------------------------
(***************************************************************************)
(* A sub-agent (Orchestrator.run_sub_agent): a conversation of its own, in *)
(* which the model asks for tools turn by turn until it answers, fails too *)
(* often or fills its context, and a last call that sums up.               *)
(*                                                                         *)
(* A turn may be taken back: its message leaves the conversation and the   *)
(* turn is not counted, but the attempt is.  Of a message only what it is  *)
(* is kept, with the number of calls it makes or answers.  What becomes of *)
(* a search or a scrape outside this conversation is left to the modules   *)
(* of the sources and of the main loop; the sub-agents of a task run one   *)
(* after the other, never beside each other.                               *)
(***************************************************************************)
EXTENDS Integers, SequencesExt

CONSTANTS
  MaxTurns,     \* max_turns of the sub-agent
  Buffer,       \* EXTRA_ATTEMPTS_BUFFER
  MaxRollbacks, \* MAX_CONSECUTIVE_ROLLBACKS
  MaxFailures,  \* max_consecutive_llm_failures
  Queries,      \* what a tool can be asked
  MaxCalls      \* bound of the model: calls in one reply

ASSUME SubAgentAssumption ==
  /\ MaxTurns \in Nat /\ Buffer \in Nat /\ MaxCalls \in Nat \ {0}
  /\ MaxRollbacks \in Nat \ {0, 1} /\ MaxFailures \in Nat \ {0}

VARIABLES
  at,        \* model | tools | summary | done
  turn,      \* turn_count
  attempts,  \* total_attempts
  rollbacks, \* consecutive_rollbacks
  failures,  \* consecutive_llm_failures
  fallback,  \* a fallback model that has not been activated
  history,   \* message_history
  calls,     \* the calls of the reply that are still to make
  answers,   \* all_tool_results_content_with_id: how many
  used,      \* used_queries
  finished,  \* turns whose results joined the conversation
  lost,      \* turns in which the model brought nothing
  trimmed,   \* the last pair was removed for want of space
  answer     \* what the parent gets: none | text | excuse

counters == <<turn, attempts, rollbacks, failures, fallback>>
turnVars == <<calls, answers, used>>
books == <<finished, lost, trimmed, answer>>
vars == <<at, counters, history, turnVars, books>>

\* A call of a tool without a query is never a duplicate.
NoQuery == "no query"

Task == <<"task", 0>>
Prompt == <<"prompt", 0>>
Assistant(n) == <<"assistant", n>>
Results(n) == <<"results", n>>

Init ==
  /\ at = "model" /\ turn = 0 /\ attempts = 0 /\ rollbacks = 0 /\ failures = 0
  /\ fallback \in BOOLEAN
  /\ history = <<Task>> /\ calls = <<>> /\ answers = 0 /\ used = {}
  /\ finished = 0 /\ lost = 0 /\ trimmed = FALSE /\ answer = "none"

-----------------------------------------------------------------------------
(* The model is asked                                                      *)

\* The condition of the loop.
LoopGoes == turn < MaxTurns /\ attempts < MaxTurns + Buffer

\* A turn of the loop begins.  That too many turns were taken back is looked at
\* here and never found: MayTakeBack stops short of it.
Asks == at = "model" /\ LoopGoes

\* Variant: the turn that is taken back stays counted.
TakenBack_Counted ==
  /\ turn' = turn
  /\ rollbacks' = rollbacks + 1

\* The counters after a turn was taken back, from "turn" that is running.
TakenBack ==
  /\ turn' = turn - 1
  /\ rollbacks' = rollbacks + 1

\* Only so many turns in a row are taken back.
MayTakeBack == rollbacks < MaxRollbacks - 1

\* should_break: no choice in the response, or a reply that says the context
\* is exceeded and stays in the conversation.
ModelBreaks ==
  /\ Asks
  /\ turn' = turn + 1 /\ attempts' = attempts + 1
  /\ history' \in {history, Append(history, Assistant(0))}
  /\ at' = "summary"
  /\ UNCHANGED <<rollbacks, failures, fallback, turnVars, books>>

\* No response, or a response that is empty or cannot be parsed, which stays in
\* the conversation.  Too many in a row activate the fallback model, once.
ModelFails ==
  /\ Asks
  /\ turn' = turn + 1 /\ attempts' = attempts + 1
  /\ history' \in {history, Append(history, Assistant(0))}
  /\ lost' = lost + 1
  /\ IF failures + 1 < MaxFailures
     THEN failures' = failures + 1 /\ UNCHANGED <<at, fallback>>
     ELSE IF fallback
     THEN failures' = 0 /\ fallback' = FALSE /\ UNCHANGED at
     ELSE failures' = failures + 1 /\ at' = "summary" /\ UNCHANGED fallback
  /\ UNCHANGED <<rollbacks, turnVars, finished, trimmed, answer>>

\* A reply without calls is the last one.
ModelAnswers ==
  /\ Asks
  /\ turn' = turn + 1 /\ attempts' = attempts + 1 /\ failures' = 0
  /\ history' = Append(history, Assistant(0))
  /\ at' = "summary"
  /\ UNCHANGED <<rollbacks, fallback, turnVars, books>>

\* _handle_response_format_issues: a reply with tags of a call in its text, or
\* one that refuses, leaves the conversation and is asked for again.
ReplyTakenBack ==
  /\ Asks /\ MayTakeBack
  /\ attempts' = attempts + 1 /\ failures' = 0
  /\ UNCHANGED turn /\ rollbacks' = rollbacks + 1
  /\ UNCHANGED <<at, fallback, history, turnVars, books>>

\* A reply with calls.
ModelCalls ==
  /\ Asks
  /\ turn' = turn + 1 /\ attempts' = attempts + 1 /\ failures' = 0
  /\ \E n \in 1..MaxCalls :
       /\ calls' \in [1..n -> Queries \cup {NoQuery}]
       /\ history' = Append(history, Assistant(n))
  /\ answers' = 0 /\ at' = "tools"
  /\ UNCHANGED <<rollbacks, fallback, used, books>>

-----------------------------------------------------------------------------
(* The calls of a reply                                                    *)

Calling == at = "tools" /\ calls # <<>>

Duplicate == Head(calls) \in used

\* Variant: the other calls of the reply are made nevertheless.
TurnBack_GoesOn ==
  /\ TakenBack
  /\ history' = Front(history)
  /\ calls' = Tail(calls)
  /\ UNCHANGED <<attempts, failures, fallback, at, answers>>

\* The turn is taken back: the message that asked for the calls leaves the
\* conversation, and the calls that are left are not made.
TurnBack ==
  /\ TakenBack
  /\ history' = Front(history)
  /\ at' = "model" /\ calls' = <<>> /\ answers' = 0
  /\ UNCHANGED <<attempts, failures, fallback>>

\* _check_duplicate_query.  After too many turns that were taken back a
\* duplicate is let through.
Refuse ==
  /\ Calling /\ Duplicate /\ MayTakeBack
  /\ TurnBack
  /\ UNCHANGED <<used, books>>

Runs == Calling /\ ~(Duplicate /\ MayTakeBack)

\* _record_query: the tool brought something, an error text or an empty list
\* included, as long as it is not an error of the call itself.
Recorded == used \cup ({Head(calls)} \ {NoQuery})

\* The tool answers or fails, and either goes into the results.
Answered ==
  /\ Runs
  /\ calls' = Tail(calls) /\ answers' = answers + 1
  /\ used' \in {used, Recorded}
  /\ UNCHANGED <<at, counters, history, books>>

\* should_rollback_result: an unknown tool, an error of the tool or an empty
\* search, which by then may have been recorded.
ResultTakenBack ==
  /\ Runs /\ MayTakeBack
  /\ TurnBack
  /\ used' \in {used, Recorded}
  /\ UNCHANGED books

\* _trim_tool_result_pair_for_summary_context: the last message with results
\* and the one before it.  After the results of a turn these end the history.
Trim(h) == Front(Front(h))

\* update_message_history and ensure_summary_context: the results join the
\* conversation; when no space is left for the summary they leave it again
\* with the message that asked for them.
TurnEnds ==
  /\ at = "tools" /\ calls = <<>>
  /\ rollbacks' = 0 /\ finished' = finished + 1
  /\ LET grown == Append(history, Results(answers))
     IN  \/ history' = grown /\ at' = "model" /\ UNCHANGED <<turn, trimmed>>
         \/ /\ history' = Trim(grown) /\ trimmed' = TRUE
            /\ turn' = MaxTurns /\ at' = "summary"
  /\ UNCHANGED <<attempts, failures, fallback, turnVars, lost, answer>>

-----------------------------------------------------------------------------
(* The summary                                                             *)

\* The loop is over: turns or attempts are used up.
LoopEnds ==
  /\ at = "model" /\ ~LoopGoes
  /\ at' = "summary"
  /\ UNCHANGED <<counters, history, turnVars, books>>

\* One call without tools, which is not repeated: without an answer the parent
\* gets an excuse.
Summarize ==
  /\ at = "summary"
  /\ at' = "done"
  /\ \/ /\ answer' = "text"
        /\ history' = Append(Append(history, Prompt), Assistant(0))
     \/ /\ answer' = "excuse"
        /\ history' \in {Append(history, Prompt),
                         Append(Append(history, Prompt), Assistant(0))}
  /\ UNCHANGED <<counters, turnVars, finished, lost, trimmed>>

Done == at = "done" /\ UNCHANGED vars

Next ==
  \/ ModelBreaks \/ ModelFails \/ ModelAnswers \/ ReplyTakenBack \/ ModelCalls
  \/ Refuse \/ Answered \/ ResultTakenBack \/ TurnEnds
  \/ LoopEnds \/ Summarize \/ Done

Spec == Init /\ [][Next]_vars

-----------------------------------------------------------------------------
(* Properties                                                              *)

ResultsAt == {i \in DOMAIN history : history[i][1] = "results"}

\* The conversation stays one the model can be asked about, whatever was taken
\* back or trimmed: it starts with the task, and every message with results
\* answers all calls of the message right before it.
ConversationHolds ==
  /\ history[1] = Task
  /\ \A i \in ResultsAt : history[i - 1] = Assistant(history[i][2])

\* Taking turns back costs attempts, never work: the results of every finished
\* turn are in the conversation the summary is made from, but those of the
\* last one when the context was full; and a turn that is neither finished nor
\* lost to a failing model is not counted.  Nor does anything that is taken back
\* exhaust the limit of rollbacks in a row.
WorkIsKept ==
  /\ Cardinality(ResultsAt) = finished - (IF trimmed THEN 1 ELSE 0)
  /\ at = "model" => turn = finished + lost
  /\ rollbacks < MaxRollbacks
=============================================================================
