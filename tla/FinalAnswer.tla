----------------------------- MODULE FinalAnswer -----------------------------
(***************************************************************************)
(* The final stage of a research attempt: the end of run_main_agent and    *)
(* AnswerGenerator.generate_and_finalize_answer.  It may verify the        *)
(* findings in a call without tools, asks for the summary with a few       *)
(* tries, falls back to a boxed answer of the research, to a failure       *)
(* experience for another attempt or to a degraded report, has the claims  *)
(* of the report adjudicated, and hands the report to the stream.          *)
(*                                                                         *)
(* Every request is a call of LlmCall.  A message is its role and what the *)
(* stage tells apart:                                                      *)
(*   user side       user, result (marked tool result), stub, ask (the     *)
(*                   prompts for the summary)                              *)
(*   assistant side  call (short), draft (a long research text), note (a   *)
(*                   long cross verification), answer (a long reply to an  *)
(*                   "ask")                                                *)
(***************************************************************************)
EXTENDS LlmCall, SequencesExt

CONSTANTS
  FinalTries,  \* max_final_answer_retries
  Rounds,      \* tool rounds a history may hold when the stage begins
  ResearchKeep,\* agent.keep_tool_result, -1 keeps all
  SummaryKeep, \* summary_keep_tool_result
  Compress,    \* values of context_compress_limit > 0
  Retry,       \* values of retry_with_summary
  Final,       \* values of is_final_retry
  Verify,      \* subset of {"off", "folded", "same", "high"}: verification_*
  Strict,      \* values of summary_retry_min_chars > 0 without the skeleton
  Boxed        \* whether the research left intermediate boxed answers

ASSUME AnswerAssumption ==
  /\ FinalTries \in Nat \ {0} /\ Rounds \in Nat
  /\ ResearchKeep \in Int /\ SummaryKeep \in Int
  /\ Compress \subseteq BOOLEAN /\ Retry \subseteq BOOLEAN
  /\ Final \subseteq BOOLEAN /\ Strict \subseteq BOOLEAN /\ Boxed \subseteq BOOLEAN
  /\ Verify \subseteq {"off", "folded", "same", "high"}

VARIABLES
  mode,      \* the configuration of the attempt
  at,        \* where the stage is
  history,   \* message_history
  asked,     \* the list the call in flight was given, and appends to
  try,       \* retry_idx + 1
  quality,   \* of the last reply: none | boxed | unboxed | unusable
  report,    \* final_summary: none | summary | intermediate | degraded
  boxed,     \* final_boxed_answer is an answer
  available, \* result_quality["answer_available"]
  experience,\* a failure experience was written
  source,    \* the message a degraded report was made of
  delivered, \* final_output went to the stream
  best       \* some reply was usable (history)

stageVars == <<at, history, asked, try, quality, report, boxed, available,
               experience, source, delivered, best>>
vars == <<callVars, mode, stageVars>>

UserSide == {"user", "result", "stub", "ask"}
FromUser(h) == h # <<>> /\ h[Len(h)] \in UserSide
FromAssistant(h) == h # <<>> /\ h[Len(h)] \notin UserSide

\* What the turn loop leaves: the task, rounds of a call and its results, and
\* perhaps a long reply without a call.
Histories ==
  UNION {{<<"user">> \o FlattenSeq([i \in 1..n |-> <<said[i], "result">>]) \o tail :
            said \in [1..n -> {"call", "draft"}], tail \in {<<>>, <<"draft">>}}
          : n \in 0..Rounds}

\* What the configuration makes of the stage.
Modes == [compress : Compress, retry : Retry, last : Final, verify : Verify,
          strict : Strict, boxed : Boxed]

Init ==
  /\ CallInit
  /\ mode \in Modes
  /\ at = "begin" /\ history \in Histories /\ asked = <<>> /\ try = 0
  /\ quality = "none" /\ report = "none" /\ boxed = FALSE /\ available = FALSE
  /\ experience = FALSE /\ source = "none" /\ delivered = FALSE /\ best = FALSE

-----------------------------------------------------------------------------
(* Message lists                                                           *)

\* _remove_tool_result_from_messages, on the copy that is sent: all but the
\* last "keep" tool results become stubs.
Omit(h, keep) ==
  LET results == {i \in 1..Len(h) : h[i] = "result"}
      After_(i) == Cardinality({j \in results : j > i})
  IN  [i \in 1..Len(h) |->
        IF i \in results /\ keep # -1 /\ After_(i) >= keep THEN "stub" ELSE h[i]]

Request ==
  Omit(asked, IF stage \in SummaryStages THEN SummaryKeep ELSE ResearchKeep)

\* _trim_tool_result_pair_for_summary_context: the latest tool result that
\* follows an assistant message goes, and that message with it.
Trim(h) ==
  LET pairs == {i \in 2..Len(h) : h[i] = "result" /\ h[i - 1] \notin UserSide}
      i == CHOOSE i \in pairs : \A j \in pairs : j <= i
  IN  IF pairs = {} THEN h ELSE SubSeq(h, 1, i - 2) \o SubSeq(h, i + 1, Len(h))

\* _strip_omitted_tool_stubs.
Strip(h) == SelectSeq(h, LAMBDA m : m # "stub")

PopAssistant(h) == IF FromAssistant(h) THEN Front(h) ELSE h

\* The list after process_llm_response: the reply joins it, an empty one too.
Said(long) ==
  IF reply = "none" THEN asked
  ELSE Append(asked, IF reply = "text" THEN long ELSE "call")

\* handle_llm_call: the list is not copied, the reply joins it.
Call(s, list) == StartCall(s) /\ asked' = list
\* No call follows at once: the list of the last one is not used again.
Idle == asked' = <<>> /\ UNCHANGED callVars

-----------------------------------------------------------------------------
(* Cross verification                                                      *)

VerificationStage == IF mode.verify = "high" THEN "verification" ELSE "main"

\* The status note of the orchestrator and, unless verification is off or
\* folded into the summary prompt, the verification call on a copy.
Begin ==
  /\ at = "begin"
  /\ history' = IF mode.verify = "off" THEN history ELSE Append(history, "user")
  /\ IF mode.verify \in {"same", "high"}
     THEN /\ at' = "verifying"
          /\ Call(VerificationStage, Append(history', "user"))
     ELSE at' = "prompt" /\ Idle
  /\ UNCHANGED <<mode, try, quality, report, boxed, available, experience,
                 source, delivered, best>>

\* A note joins the conversation with its prompt.  A verification model that
\* gave nothing is replaced once by the summary model, on the same list: an
\* empty reply has been appended to it by then.
Verified ==
  /\ at \in {"verifying", "reverifying"} /\ phase = "done"
  /\ \/ /\ reply = "text"
        /\ \E long \in {"note", "call"} : history' = Said(long)
        /\ at' = "prompt"
        /\ Idle
     \/ /\ reply # "text" /\ stage = "verification"
        /\ at' = "reverifying"
        /\ Call("final_summary", Said("note"))
        /\ UNCHANGED history
     \/ /\ reply # "text" /\ stage # "verification"
        /\ at' = "prompt"
        /\ Idle /\ UNCHANGED history
  /\ UNCHANGED <<mode, try, quality, report, boxed, available, experience,
                 source, delivered, best>>

-----------------------------------------------------------------------------
(* The summary                                                             *)

\* final_summary_agent_types[min(retry_idx, ...)].
SummaryStage(i) ==
  IF mode.verify = "high" /\ i = 1 THEN "verification" ELSE "final_summary"

\* Variant: a failed try is not counted.
Following_Same(i) == i
Following(i) == i + 1

\* The next request of the summary, on the history h.
Ask(h, i) ==
  /\ history' = h
  /\ try' = i
  /\ Call(SummaryStage(i), h)

\* ensure_summary_context: by an estimate of its tokens the conversation may
\* be too long; it loses one tool round then.
EnsureContext(h) == {h, Trim(h)}

\* Stubs are stripped, the context is checked and the summary prompt appended.
Prompt ==
  /\ at = "prompt"
  /\ \E h \in EnsureContext(Strip(history)) : Ask(Append(h, "ask"), 1)
  /\ at' = "summarising"
  /\ UNCHANGED <<mode, quality, report, boxed, available, experience, source,
                 delivered, best>>

\* format_final_summary_payload: a text without its reasoning has a box, is
\* shown as a whole, or is nothing that could be shown.
Qualities == {"boxed", "unboxed", "unusable"}

\* _is_summary_too_short.
TooShort == {FALSE, mode.strict}

\* A reply that is too short or not boxed is taken back while tries are
\* left, and a prompt says why.
Replied ==
  /\ at = "summarising" /\ phase = "done" /\ reply = "text"
  /\ \E q \in Qualities, short \in TooShort, long \in {"answer", "call"} :
       /\ quality' = q
       /\ boxed' = (q # "unusable")
       /\ best' = (best \/ q # "unusable")
       /\ IF try < FinalTries /\ (short \/ q # "boxed")
          THEN /\ Ask(Append(PopAssistant(Said(long)), "ask"), Following(try))
               /\ UNCHANGED at
          ELSE /\ history' = Said(long)
               /\ at' = "finalise"
               /\ Idle /\ UNCHANGED try
  /\ report' = "summary"
  /\ UNCHANGED <<mode, available, experience, source, delivered>>

\* No reply: what a failed call appended is taken back and the next try
\* follows.
NoReply ==
  /\ at = "summarising" /\ phase = "done" /\ reply # "text"
  /\ IF try < FinalTries
     THEN Ask(PopAssistant(Said("call")), Following(try)) /\ UNCHANGED at
     ELSE /\ history' = Said("call")
          /\ at' = "finalise"
          /\ Idle /\ UNCHANGED try
  /\ UNCHANGED <<mode, quality, report, boxed, available, experience, source,
                 delivered, best>>

-----------------------------------------------------------------------------
(* Fallbacks                                                               *)

\* Variant: any reply counts as an answer.
Usable_AnyText == quality # "none"
\* quality["answer_available"] of the last reply.
Usable == quality \in {"boxed", "unboxed"}

\* handle_no_context_management_fallback: nothing usable is replaced by the
\* last boxed answer of the research.
FallBack ==
  /\ available' = (Usable \/ mode.boxed)
  /\ report' = IF Usable THEN report
               ELSE IF mode.boxed THEN "intermediate" ELSE "none"
  /\ boxed' = IF Usable THEN boxed ELSE mode.boxed
  /\ at' = "degrade"
  /\ Idle

\* The prompt of the failure summary and the beginning of its answer replace a
\* last prompt.
FailureRequest ==
  (IF FromUser(history) THEN Front(history) ELSE history) \o <<"user", "call">>

\* handle_context_management_no_fallback: no guess is made, another attempt
\* gets a failure experience.
NoFallback ==
  /\ available' = Usable
  /\ report' = IF Usable THEN report ELSE "none"
  /\ boxed' = (Usable /\ boxed)
  /\ IF ~Usable /\ mode.retry
     THEN /\ at' = "failing"
          /\ Call("failure_summary", FailureRequest)
     ELSE at' = "degrade" /\ Idle

Finalise ==
  /\ at = "finalise"
  /\ IF ~mode.compress \/ mode.last THEN FallBack ELSE NoFallback
  /\ UNCHANGED <<mode, history, try, quality, experience, source, delivered,
                 best>>

\* generate_failure_summary.
FailureSummary ==
  /\ at = "failing" /\ phase = "done"
  /\ experience' = (reply = "text")
  /\ at' = "degrade"
  /\ UNCHANGED <<callVars, mode, history, asked, try, quality, report, boxed,
                 available, source, delivered, best>>

\* Variant: a failure experience does not keep the report from being degraded.
Degradable_Always == ~available
\* Variant: retry_with_summary is not looked at.
Degradable_FinalOnly == ~available /\ mode.last
\* No other summary will be tried.
Degradable == ~available /\ (mode.last \/ ~mode.retry)

\* build_degraded_report: the latest long assistant message.
LongAt(h) == {i \in 1..Len(h) : h[i] \in {"draft", "note", "answer"}}

Degrade ==
  /\ at = "degrade"
  /\ IF Degradable /\ LongAt(history) # {}
     THEN /\ report' = "degraded"
          /\ available' = TRUE
          /\ boxed' = (boxed \/ mode.boxed)
          /\ source' = history[CHOOSE i \in LongAt(history) :
                                 \A j \in LongAt(history) : j <= i]
     ELSE UNCHANGED <<report, available, boxed, source>>
  /\ at' = "claims"
  /\ UNCHANGED <<callVars, mode, history, asked, try, quality, experience,
                 delivered, best>>

-----------------------------------------------------------------------------
(* The report                                                              *)

\* generate_claim_support_map.
ClaimRequest == Append(history, "user")

\* _adjudicate_report_claims: one call on a copy, when it is enabled and the
\* report makes claims; whatever it gives, the report goes on.
Adjudicate ==
  /\ at = "claims"
  /\ at' = "adjudicating"
  /\ Call("main", ClaimRequest)
  /\ UNCHANGED <<mode, history, try, quality, report, boxed, available,
                 experience, source, delivered, best>>

\* _emit_final_output: only an available answer is sent.
Deliverable == available /\ report # "none"

\* The report is prepared for its readers and sent.
Emit ==
  /\ \/ at = "claims"
     \/ at = "adjudicating" /\ phase = "done"
  /\ delivered' = Deliverable
  /\ at' = "end"
  /\ UNCHANGED <<callVars, mode, history, asked, try, quality, report, boxed,
                 available, experience, source, best>>

StageStep ==
  \/ Begin \/ Verified \/ Prompt \/ Replied \/ NoReply \/ Finalise
  \/ FailureSummary \/ Degrade \/ Adjudicate \/ Emit

InCall == CallStep /\ UNCHANGED <<mode, stageVars>>
Cooldown == PoolStep /\ UNCHANGED <<mode, stageVars>>

\* The report is out, or there is none.
Over == at = "end" /\ UNCHANGED vars

Next == StageStep \/ InCall \/ Cooldown \/ Over

Progress ==
  /\ \/ Answered \/ RequestFailed \/ TimedOut \/ RateLimited \/ CooldownOver
     \/ Rested \/ AnthropicAnswered \/ AnthropicFailed
  /\ UNCHANGED <<mode, stageVars>>

\* The SDK ends every request (LLM_HTTP_TIMEOUT_SECONDS) and sleeps end.
Fairness ==
  /\ WF_vars(StageStep)
  /\ WF_vars(Progress)

Spec == Init /\ [][Next]_vars
FairSpec == Spec /\ Fairness

-----------------------------------------------------------------------------
(* Properties                                                              *)

\* The quality record, the report and the stream agree: the run reports an
\* answer exactly when it has a report, and the stream got it.  An attempt that
\* delivers leaves no experience of failure for the next one
\* (generate_and_finalize_answer).
AnswerHasReport ==
  /\ at = "end" => /\ available = (report # "none")
                   /\ delivered = available
                   /\ available => boxed \/ report = "degraded"
  /\ ~(delivered /\ experience)

\* When no other attempt follows, a conversation that holds a long text of
\* the research always ends in a report (CHANGELOG.md:14).
LastChanceDelivers ==
  at = "end" /\ (mode.last \/ ~mode.retry) /\ LongAt(history) # {} => delivered

\* The stage ends, whatever the models answer.
StageEnds == <>(at = "end")

-----------------------------------------------------------------------------
(* Said by the documentation, and not so: no run lists these properties  *)

\* The stub markers of condensed tool results are not digested again by the
\* final call (docs/DEEP_EFFICIENCY.md:105-107).
SummaryWithoutStubs ==
  at = "summarising" /\ phase = "sending" =>
    \A i \in 1..Len(Request) : Request[i] # "stub"

\* A usable reply of one try is not lost to a failure of a later one when no
\* other attempt follows (answer_generator.py:121-122).
UsableReplySurvives ==
  at = "end" /\ best /\ (mode.last \/ ~mode.retry) => delivered

\* A degraded report is made of what the research produced
\* (answer_generator.py:1498-1499).
DegradedFromResearch == source \in {"none", "draft"}
=============================================================================
