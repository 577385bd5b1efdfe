------------------------------- MODULE LlmCall -------------------------------
(***************************************************************************)
(* One LLM call at a time: AnswerGenerator.handle_llm_call around          *)
(* BaseClient.create_message around the retry loop of the OpenAI client    *)
(* (_create_message) with its pool of API keys, or the single request of   *)
(* the Anthropic client.                                                   *)
(*                                                                         *)
(* Only one call is in flight (the agents of a task take turns), so the    *)
(* client, its pool and the counters of the loop are plain variables.      *)
(* Models, prompts and token counts are left out.  A cooldown ends at any   *)
(* moment: the code does not bound a Retry-After.                          *)
(***************************************************************************)
EXTENDS Integers

CONSTANTS
  Pool,         \* keys in OPENAI_API_KEYS, after deduplication
  OwnKey,       \* llm.api_key as a member of the pool, 0 when it is not one
  MaxRetries,   \* llm.max_retries
  FailFast,     \* llm.timeout_fail_fast
  Attempts,     \* stop_after_attempt of the Anthropic client
  Providers     \* subset of {"openai", "anthropic"}

ASSUME CallAssumption ==
  /\ Pool \in Nat \ {0} /\ OwnKey \in 0..Pool
  /\ MaxRetries \in Nat \ {0} /\ Attempts \in Nat \ {0} /\ FailFast \in BOOLEAN
  /\ Providers \subseteq {"openai", "anthropic"} /\ Providers # {}

Keys == 1..Pool
Stages == {"main", "verification", "final_summary", "failure_summary"}

\* SUMMARY_AGENT_TYPES and FAST_AGENT_TYPES
SummaryStages == {"final_summary", "failure_summary"}

VARIABLES
  provider,  \* llm.provider
  index,     \* KeyPool._index, from 1
  cooling,   \* the keys whose cooldown lies in the future
  clientKey, \* the key self.client was built with
  phase,     \* idle | sending | resting | cooldown | done
  stage,     \* agent_type of the call
  attempt,   \* attempt
  streak,    \* _429_streak
  degraded,  \* timeout_degrade_used
  thinking,  \* the opt-out of thinking: "asked", "stripped" or "unused"
  reply,     \* what the call gave: none | text | empty
  sent,      \* requests of this call so far (history)
  timeouts   \* those that timed out (history)

clientVars == <<provider, index, cooling, clientKey>>
loopVars == <<attempt, streak, degraded, thinking, sent, timeouts>>
callVars == <<clientVars, loopVars, phase, stage, reply>>

\* What a fresh client looks like: BaseClient.__post_init__ builds the SDK
\* client before OpenAIClient.__post_init__ has created the pool, so it gets
\* llm.api_key and not the pool's current key.
ClientInit ==
  /\ provider \in Providers
  /\ index = 1
  /\ cooling = {}
  /\ clientKey = OwnKey

CallInit ==
  /\ ClientInit
  /\ phase = "idle" /\ stage = "main" /\ reply = "none"
  /\ attempt = 0 /\ streak = 0 /\ degraded = FALSE /\ thinking = "unused"
  /\ sent = 0 /\ timeouts = 0

-----------------------------------------------------------------------------
(* The key pool                                                            *)

\* The key d places after key k.
After(k, d) == ((k - 1 + d) % Pool) + 1

\* Variant: a key that still cools may be taken.
NextAvailable_Blind(cool) == After(index, 1)

\* next_available_key: the first key after the current one that does not
\* cool, 0 when all do.  The current key comes last.
NextAvailable(cool) ==
  LET free == {d \in 1..Pool : After(index, d) \notin cool}
  IN  IF free = {} THEN 0
      ELSE After(index, CHOOSE d \in free : \A e \in free : d <= e)

\* Variant: only the pool turns, the SDK client keeps its key.
Rotate_PoolOnly(key) ==
  /\ index' = IF key = 0 THEN index ELSE key
  /\ UNCHANGED clientKey

\* _create_client: from here on requests carry this key.
BuildClient(key) == clientKey' = key

\* next_available_key followed by _rotate_client: nothing runs in between.
\* A pool that is all cooling turns once around and the client stays.
Rotate(key) ==
  IF key = 0 THEN UNCHANGED <<index, clientKey>>
  ELSE index' = key /\ BuildClient(key)

\* A cooldown ends.
CooldownEnds(k) ==
  /\ k \in cooling
  /\ cooling' = cooling \ {k}
  /\ UNCHANGED <<provider, index, clientKey, loopVars, phase, stage,
                 reply>>

-----------------------------------------------------------------------------
(* The call                                                                *)

\* The variant forgets that auxiliary stages get one attempt only.
Limit_Same == IF provider = "anthropic" THEN Attempts ELSE MaxRetries

\* max_retries of _create_message: one for the summary and verification
\* stages, whose callers have retries of their own.  The Anthropic client
\* repeats every request alike.
Limit ==
  IF provider = "anthropic" THEN Attempts
  ELSE IF stage = "main" THEN MaxRetries ELSE 1

\* handle_llm_call enters create_message for an agent_type.
StartCall(s) ==
  /\ phase \in {"idle", "done"}
  /\ phase' = "sending" /\ stage' = s /\ reply' = "none"
  /\ attempt' = 0 /\ streak' = 0 /\ degraded' = FALSE
  /\ thinking' = IF provider = "openai" /\ s \in SummaryStages
                 THEN "asked" ELSE "unused"
  /\ sent' = 1 /\ timeouts' = 0
  /\ UNCHANGED clientVars

\* The call is over and the locals of its loop are gone.
Leave ==
  /\ phase' = "done"
  /\ attempt' = 0 /\ streak' = 0 /\ degraded' = FALSE /\ thinking' = "unused"
  /\ sent' = 0 /\ timeouts' = 0

\* create_message turns every exception into no response, handle_llm_call
\* every missing response into an empty text and the history it was given.
Fail == Leave /\ reply' = "none"

\* process_llm_response appends what the model said, also when that is empty,
\* and appends nothing for a finish reason it does not know.
Reply == Leave /\ reply' \in {"text", "empty", "none"}

\* Variant: one attempt too many.
LastAttempt_OffByOne == attempt >= Limit
LastAttempt == attempt >= Limit - 1

\* Sleep retry_wait_seconds and start the next round of the loop.
NextAttempt ==
  /\ attempt' = attempt + 1
  /\ phase' = "resting"
  /\ UNCHANGED <<streak, thinking, sent, reply>>

\* A response with finish_reason "stop" or "tool_calls", or one that is cut at
\* max_tokens or repeats itself when no attempt is left (a summary that is cut
\* is returned at once).
Answered ==
  /\ phase = "sending" /\ provider = "openai"
  /\ Reply
  /\ UNCHANGED <<clientVars, stage>>

\* Such a response while attempts are left.
Truncated ==
  /\ phase = "sending" /\ provider = "openai" /\ ~LastAttempt
  /\ NextAttempt
  /\ UNCHANGED <<clientVars, degraded, timeouts, stage>>

\* Variant: a round of 429s takes no attempt.
RoundFailed_Free ==
  /\ streak' = 0 /\ phase' = "cooldown"
  /\ UNCHANGED <<attempt, degraded, thinking, sent, timeouts, reply>>

\* Every key of the round answered 429: one failed attempt, followed by a wait
\* for the shortest cooldown (at most two minutes).
RoundFailed ==
  IF LastAttempt THEN Fail
  ELSE /\ attempt' = attempt + 1 /\ streak' = 0 /\ phase' = "cooldown"
       /\ UNCHANGED <<degraded, thinking, sent, timeouts, reply>>

\* 429: the pool's current key starts to cool.  While keys of this round are
\* untried the next free one is taken at once and no attempt is used up.
RateLimited ==
  /\ phase = "sending" /\ provider = "openai"
  /\ cooling' = cooling \cup {index}
  /\ LET key == NextAvailable(cooling')
     IN  IF streak + 1 < Pool /\ key # 0
         THEN /\ Rotate(key)
              /\ streak' = streak + 1 /\ sent' = sent + 1
              /\ UNCHANGED <<attempt, degraded, thinking, timeouts, phase, reply>>
         ELSE RoundFailed /\ UNCHANGED <<index, clientKey>>
  /\ UNCHANGED <<provider, stage>>

\* After the wait the loop takes the next free key, if there is one by now.
CooldownOver ==
  /\ phase = "cooldown"
  /\ Rotate(NextAvailable(cooling))
  /\ phase' = "sending" /\ sent' = sent + 1
  /\ UNCHANGED <<provider, cooling, attempt, streak, degraded,
                 thinking, timeouts, stage, reply>>

\* Variant: every timeout of the research may degrade the request once more.
DegradeDue_Again == stage = "main" /\ FailFast
\* timeout_degrade_used is not set, and the stage has attempts of its own.
DegradeDue == ~degraded /\ stage = "main" /\ FailFast

\* _degrade_messages_for_timeout_retry works on the copy that is sent, from
\* which the first pass has already taken the marks of the tool results: no
\* message is recognised as one, and only long bodies are cut.  Without
\* timeout_fail_fast a timeout is retried like any other error.
TimedOut ==
  /\ phase = "sending" /\ provider = "openai"
  /\ IF DegradeDue \/ (~FailFast /\ ~LastAttempt)
     THEN /\ NextAttempt
          /\ timeouts' = timeouts + 1
          /\ degraded' = (degraded \/ DegradeDue)
     ELSE Fail
  /\ UNCHANGED <<clientVars, stage>>

\* A 400 while the optional "no thinking" parameters are asked for: they are
\* taken off and the request is sent again, without using up an attempt.
OptOutRefused ==
  /\ phase = "sending" /\ thinking = "asked"
  /\ thinking' = "stripped"
  /\ sent' = sent + 1
  /\ UNCHANGED <<clientVars, attempt, streak, degraded, timeouts, phase, stage,
                 reply>>

\* Any other error; a context that is too long is never retried.
RequestFailed ==
  /\ phase = "sending" /\ provider = "openai"
  /\ \/ ~LastAttempt /\ NextAttempt /\ UNCHANGED <<degraded, timeouts>>
     \/ Fail
  /\ UNCHANGED <<clientVars, stage>>

\* The Anthropic client: a reply, of which content without text or no content
\* at all gives an empty text.
AnthropicAnswered ==
  /\ phase = "sending" /\ provider = "anthropic"
  /\ Reply
  /\ UNCHANGED <<clientVars, stage>>

\* The decorator of _create_message repeats it after every error alike.
AnthropicFailed ==
  /\ phase = "sending" /\ provider = "anthropic"
  /\ IF LastAttempt THEN Fail
     ELSE NextAttempt /\ UNCHANGED <<degraded, timeouts>>
  /\ UNCHANGED <<clientVars, stage>>

\* The head of the loop after a sleep.  A request degraded on the last
\* attempt never runs: the loop ends and reports an unexpected error.
Rested ==
  /\ phase = "resting"
  /\ IF attempt < Limit
     THEN /\ phase' = "sending" /\ sent' = sent + 1
          /\ UNCHANGED <<attempt, streak, degraded, thinking, timeouts, reply>>
     ELSE Fail
  /\ UNCHANGED <<clientVars, stage>>

\* The wall-clock limit of handle_llm_call (or of create_message) cancels the
\* call wherever it waits.
WallTimeout ==
  /\ phase \in {"sending", "resting", "cooldown"}
  /\ Fail
  /\ UNCHANGED <<clientVars, stage>>

CallStep ==
  \/ Answered \/ Truncated \/ RateLimited \/ CooldownOver \/ TimedOut
  \/ OptOutRefused \/ RequestFailed \/ AnthropicAnswered \/ AnthropicFailed
  \/ Rested \/ WallTimeout

PoolStep == \E k \in cooling : CooldownEnds(k)

\* One client that is called again and again, by any of the stages.
CallSpec ==
  CallInit /\ [][(\E s \in Stages : StartCall(s)) \/ CallStep \/ PoolStep]_callVars

-----------------------------------------------------------------------------
(* Properties                                                              *)

\* One call sends at most one request per key and attempt, and one more when
\* the model refuses the request not to think (_create_message).  With
\* timeout_fail_fast a call that still runs has seen at most one timeout: the
\* second ends it (openai_client.py:96-106).
RequestsBounded ==
  /\ sent <= Limit * Pool + 1
  /\ FailFast => timeouts <= 1

\* Only the key a request was sent with is put to rest: whatever the pool and
\* the SDK client do in between, they agree about the key in use.
MarksUsedKey == [][cooling' \subseteq cooling \cup {clientKey}]_callVars
=============================================================================
