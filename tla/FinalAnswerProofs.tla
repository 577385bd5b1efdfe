-------------------------- MODULE FinalAnswerProofs --------------------------
(***************************************************************************)
(* Theorems about the final stage and the LLM calls it makes, for every    *)
(* size of the key pool, every number of attempts and tries, and every     *)
(* history the research leaves.                                            *)
(***************************************************************************)
EXTENDS FinalAnswer, TLAPS

(***************************************************************************)
(* One call: every attempt counts for a round through the pool, of which   *)
(* the streak of 429s is the part that is used up.                         *)
(***************************************************************************)
CallType ==
  /\ provider \in {"openai", "anthropic"}
  /\ phase \in {"idle", "sending", "resting", "cooldown", "done"}
  /\ stage \in Stages
  /\ attempt \in Nat /\ streak \in 0..(Pool - 1)
  /\ degraded \in BOOLEAN
  /\ thinking \in {"asked", "stripped", "unused"}
  /\ sent \in Nat /\ timeouts \in Nat

\* The request that is repeated without the optional parameters.
Extra == IF thinking = "stripped" THEN 1 ELSE 0

\* Requests of the rounds before, and of this one.
RoundsSent(n) == sent <= n * Pool + streak + 1 + Extra

\* A call that is sending is in one of its attempts; one that waits has taken the
\* attempt to come, which a degraded request may do beyond the last.
CallCounts ==
  /\ phase \in {"idle", "done"} => sent = 0
  /\ phase = "sending" => attempt < Limit /\ RoundsSent(attempt)
  /\ phase = "resting" =>
       attempt \in 1..Limit /\ RoundsSent(attempt - 1)
  /\ phase = "cooldown" =>
       attempt < Limit /\ streak = 0 /\ sent <= attempt * Pool + Extra

\* With timeout_fail_fast the degradation is the memory of the one timeout.
TimeoutsCounted == FailFast => timeouts = IF degraded THEN 1 ELSE 0

CallInv == CallType /\ CallCounts /\ TimeoutsCounted

(***************************************************************************)
(* The stage: what its variables say at each of its places.                *)
(***************************************************************************)
StageType ==
  /\ mode \in Modes
  /\ at \in {"begin", "verifying", "reverifying", "prompt", "summarising",
             "finalise", "failing", "degrade", "claims", "adjudicating", "end"}
  /\ quality \in {"none", "boxed", "unboxed", "unusable"}
  /\ report \in {"none", "summary", "intermediate", "degraded"}
  /\ boxed \in BOOLEAN /\ available \in BOOLEAN /\ experience \in BOOLEAN
  /\ delivered \in BOOLEAN

Before == {"begin", "verifying", "reverifying", "prompt"}
Asking == {"summarising", "finalise"}

\* No reply has been judged yet.
NothingYet == quality = "none" /\ report = "none" /\ ~boxed

\* The last reply that was judged is the report, and boxed if it was usable.
ReplyJudged ==
  /\ (quality = "none") <=> (report = "none")
  /\ report \in {"none", "summary"}
  /\ boxed <=> Usable

\* An experience of failure is for another attempt.
ExperienceForAnother == experience => mode.retry /\ ~mode.last

\* The record of quality and the report agree.
Agree == available <=> report # "none"

StageInv ==
  /\ StageType
  /\ at \in Before => NothingYet
  /\ at \in Asking => ReplyJudged
  /\ at \in Before \union Asking \union {"failing"} => ~available /\ ~experience
  /\ at = "failing" => report = "none" /\ mode.retry /\ ~mode.last
  /\ at = "degrade" =>
       /\ Agree /\ ExperienceForAnother
       /\ available => boxed /\ ~experience
  /\ at \in {"claims", "adjudicating", "end"} =>
       /\ Agree
       /\ available => boxed \/ report = "degraded"
       /\ available => ~experience
  /\ at # "end" => ~delivered
  /\ at = "end" => delivered = available

\* When no other attempt follows, a long text has become a report by the time
\* the claims are adjudicated.
LastChanceInv ==
  at \in {"claims", "adjudicating", "end"} /\ (mode.last \/ ~mode.retry)
    /\ LongAt(history) # {} => available

-----------------------------------------------------------------------------
(* Requests                                                                *)

USE DEF clientVars, loopVars, callVars, stageVars, vars

\* A longer call has more requests to send.
LEMMA RoundsGrow ==
  ASSUME NEW m \in Nat, NEW n \in Nat, NEW p \in Nat, m <= n
  PROVE  m * p \in Nat /\ m * p <= n * p
<1>1. PICK d \in Nat : n = m + d
  <2>1. n - m \in Nat /\ n = m + (n - m)
    OBVIOUS
  <2> QED
    BY <2>1
<1>2. n * p = m * p + d * p
  BY <1>1
<1>3. m * p \in Nat /\ d * p \in Nat
  OBVIOUS
<1> QED
  BY <1>2, <1>3

\* A further round has as many requests as there are keys.
LEMMA OneRoundMore ==
  ASSUME NEW n \in Nat
  PROVE  n * Pool \in Nat /\ (n + 1) * Pool = n * Pool + Pool
  BY CallAssumption

LEMMA LimitType == Limit \in Nat \ {0}
  BY CallAssumption DEF Limit

\* A call that leaves has given up its counts.
LEMMA LeaveInv ==
  ASSUME CallInv, Leave, UNCHANGED <<provider>>, stage' \in Stages
  PROVE  CallInv'
<1>1. 0 \in 0..(Pool - 1)
  BY CallAssumption
<1> QED
  BY <1>1 DEF CallInv, CallType, CallCounts, TimeoutsCounted, Leave

LEMMA NextAttemptInv ==
  ASSUME CallInv, NextAttempt, phase = "sending", UNCHANGED <<provider, stage>>,
         degraded' \in BOOLEAN, timeouts' \in Nat, TimeoutsCounted'
  PROVE  CallInv'
<1>1. Limit' = Limit /\ Extra' = Extra /\ attempt' = attempt + 1
  BY DEF NextAttempt, Limit, Extra
<1>2. attempt \in 0..(Limit - 1)
  BY LimitType DEF CallInv, CallType, CallCounts
<1>3. attempt' \in 1..Limit' /\ attempt' - 1 = attempt
  BY <1>1, <1>2, LimitType
<1>4. RoundsSent(attempt)
  BY DEF CallInv, CallCounts
<1>5. sent' <= (attempt' - 1) * Pool + streak' + 1 + Extra'
  BY <1>1, <1>3, <1>4 DEF RoundsSent, NextAttempt
<1> QED
  BY <1>1, <1>3, <1>5 DEF CallInv, CallType, CallCounts, RoundsSent, NextAttempt

\* No step of a call breaks the invariant of the call.
LEMMA CallStepInv == CallInv /\ CallStep => CallInv'
<1> SUFFICES ASSUME CallInv, CallStep PROVE CallInv'
  OBVIOUS
<1>a. CallType /\ CallCounts /\ TimeoutsCounted
  BY DEF CallInv
<1>b. UNCHANGED <<provider, stage>>
  BY DEF CallStep, Answered, Truncated, RateLimited, CooldownOver, TimedOut,
         OptOutRefused, RequestFailed, AnthropicAnswered, AnthropicFailed,
         Rested, WallTimeout
<1>c. Limit' = Limit /\ Limit \in Nat \ {0} /\ Pool \in Nat \ {0}
  BY <1>b, LimitType, CallAssumption DEF Limit
<1>d. CASE Leave
  BY <1>a, <1>b, <1>d, LeaveInv DEF CallType
<1>e. CASE NextAttempt /\ phase = "sending" /\ UNCHANGED <<degraded, timeouts>>
  BY <1>a, <1>b, <1>e, NextAttemptInv DEF CallType, TimeoutsCounted
<1>1. CASE Answered \/ AnthropicAnswered \/ WallTimeout
  BY <1>1, <1>d DEF Answered, AnthropicAnswered, WallTimeout, Reply, Fail
<1>2. CASE Truncated \/ RequestFailed \/ AnthropicFailed
  BY <1>2, <1>d, <1>e DEF Truncated, RequestFailed, AnthropicFailed, Fail
<1>3. CASE TimedOut
  <2>1. CASE Fail
    BY <2>1, <1>d DEF Fail
  <2>2. CASE ~Fail
    <3>1. /\ NextAttempt /\ phase = "sending" /\ timeouts' = timeouts + 1
          /\ degraded' = (degraded \/ DegradeDue)
          /\ DegradeDue \/ ~FailFast
      BY <1>3, <2>2 DEF TimedOut
    <3>2. degraded' \in BOOLEAN
      BY <3>1
    <3>3. TimeoutsCounted'
      <4> SUFFICES ASSUME FailFast PROVE timeouts' = 1 /\ degraded'
        BY DEF TimeoutsCounted
      <4>1. ~degraded /\ degraded'
        BY <3>1 DEF DegradeDue
      <4>2. timeouts' = 1
        BY <4>1, <3>1, <1>a DEF TimeoutsCounted
      <4> QED
        BY <4>1, <4>2
    <3> QED
      BY <1>a, <1>b, <3>1, <3>2, <3>3, NextAttemptInv DEF CallType
  <2> QED
    BY <2>1, <2>2
<1>4. CASE RateLimited
  <2>a. phase = "sending" /\ attempt < Limit /\ RoundsSent(attempt)
    BY <1>4, <1>a DEF RateLimited, CallCounts
  <2>1. CASE Fail
    BY <2>1, <1>d DEF Fail
  <2>2. CASE /\ streak + 1 < Pool /\ streak' = streak + 1 /\ sent' = sent + 1
             /\ UNCHANGED <<attempt, degraded, thinking, timeouts, phase>>
    <3>1. sent' <= attempt' * Pool + streak' + 1 + Extra'
      BY <2>2, <2>a, <1>a, <1>c, OneRoundMore DEF RoundsSent, Extra, CallType
    <3> QED
      BY <2>2, <2>a, <3>1, <1>a, <1>b, <1>c
      DEF CallInv, CallType, CallCounts, RoundsSent, TimeoutsCounted
  <2>3. CASE /\ attempt' = attempt + 1 /\ streak' = 0 /\ phase' = "cooldown"
             /\ UNCHANGED <<degraded, thinking, sent, timeouts>>
             /\ ~LastAttempt
    <3>1. attempt' < Limit'
      BY <2>3, <1>a, <1>c DEF LastAttempt, CallType
    <3>2. sent' <= attempt' * Pool + Extra'
      <4>1. sent <= attempt * Pool + Pool + Extra
        BY <2>a, <1>a, <1>c, OneRoundMore DEF RoundsSent, Extra, CallType
      <4> QED
        BY <2>3, <4>1, <1>a, OneRoundMore DEF Extra, CallType
    <3> QED
      BY <2>3, <3>1, <3>2, <1>a, <1>b, <1>c
      DEF CallInv, CallType, CallCounts, TimeoutsCounted
  <2> QED
    BY <1>4, <2>1, <2>2, <2>3 DEF RateLimited, RoundFailed
<1>5. CASE CooldownOver
  <2>1. /\ phase = "cooldown" /\ phase' = "sending" /\ sent' = sent + 1
        /\ UNCHANGED <<attempt, streak, degraded, thinking, timeouts>>
    BY <1>5 DEF CooldownOver
  <2>2. attempt < Limit /\ streak = 0 /\ sent <= attempt * Pool + Extra
    BY <2>1, <1>a DEF CallCounts
  <2>3. sent' <= attempt' * Pool + streak' + 1 + Extra'
    BY <2>1, <2>2, <1>a, OneRoundMore DEF Extra, CallType
  <2> QED
    BY <2>1, <2>2, <2>3, <1>a, <1>b, <1>c
    DEF CallInv, CallType, CallCounts, RoundsSent, TimeoutsCounted
<1>6. CASE OptOutRefused
  <2>1. /\ phase = "sending" /\ phase' = "sending" /\ sent' = sent + 1
        /\ UNCHANGED <<attempt, streak, degraded, timeouts>>
        /\ thinking = "asked" /\ thinking' = "stripped"
    BY <1>6 DEF OptOutRefused
  <2>2. attempt < Limit /\ RoundsSent(attempt)
    BY <2>1, <1>a DEF CallCounts
  <2>3. sent' <= attempt' * Pool + streak' + 1 + Extra'
    BY <2>1, <2>2, <1>a, OneRoundMore DEF RoundsSent, Extra, CallType
  <2> QED
    BY <2>1, <2>2, <2>3, <1>a, <1>b, <1>c
    DEF CallInv, CallType, CallCounts, RoundsSent, TimeoutsCounted
<1>7. CASE Rested
  <2>1. CASE Fail
    BY <2>1, <1>d DEF Fail
  <2>2. CASE ~Fail
    <3>1. /\ phase = "resting" /\ phase' = "sending" /\ sent' = sent + 1
          /\ attempt < Limit
          /\ UNCHANGED <<attempt, streak, degraded, thinking, timeouts>>
      BY <1>7, <2>2 DEF Rested
    <3>2. attempt \in 1..Limit /\ RoundsSent(attempt - 1)
      BY <3>1, <1>a DEF CallCounts
    <3>3. attempt - 1 \in Nat /\ (attempt - 1) + 1 = attempt
      BY <3>2, <1>c
    <3>4. /\ (attempt - 1) * Pool \in Nat
          /\ attempt * Pool = (attempt - 1) * Pool + Pool
      BY <3>3, OneRoundMore
    <3>5. sent' <= attempt' * Pool + streak' + 1 + Extra'
      BY <3>1, <3>2, <3>4, <1>a, <1>c DEF RoundsSent, Extra, CallType
    <3> QED
      BY <3>1, <3>5, <1>a, <1>b, <1>c
      DEF CallInv, CallType, CallCounts, RoundsSent, TimeoutsCounted
  <2> QED
    BY <2>1, <2>2
<1> QED
  BY <1>1, <1>2, <1>3, <1>4, <1>5, <1>6, <1>7 DEF CallStep

LEMMA StartCallInv ==
  ASSUME CallInv, NEW s \in Stages, StartCall(s)
  PROVE  CallInv'
<1>1. 0 \in 0..(Pool - 1) /\ Pool \in Nat
  BY CallAssumption
<1>2. 0 < Limit' /\ 0 * Pool = 0
  BY CallAssumption DEF Limit
<1>3. sent' <= attempt' * Pool + streak' + 1 + Extra'
  BY <1>1, <1>2 DEF StartCall, Extra
<1>4. UNCHANGED provider /\ stage' \in Stages
  BY DEF StartCall
<1> QED
  BY <1>1, <1>2, <1>3, <1>4
  DEF CallInv, CallType, CallCounts, RoundsSent, TimeoutsCounted, StartCall

\* The invariant of the call bounds its requests.
LEMMA CallBounded == CallInv => RequestsBounded
<1> SUFFICES ASSUME CallInv PROVE RequestsBounded
  OBVIOUS
<1>a. CallType /\ CallCounts /\ TimeoutsCounted
  BY DEF CallInv
<1>b. Limit \in Nat \ {0} /\ Pool \in Nat \ {0} /\ Extra \in 0..1
  BY LimitType, CallAssumption DEF Extra
<1>1. FailFast => timeouts <= 1
  BY <1>a DEF TimeoutsCounted
<1>2. sent <= Limit * Pool + 1
  <2>1. ASSUME NEW n \in Nat, n < Limit PROVE n * Pool + Pool <= Limit * Pool
    <3>1. (n + 1) * Pool <= Limit * Pool
      BY <2>1, <1>b, RoundsGrow
    <3> QED
      BY <3>1, OneRoundMore
  <2>2. Limit * Pool \in Nat
    BY <1>b, RoundsGrow
  <2>3. CASE phase \in {"idle", "done"}
    BY <2>2, <2>3, <1>a DEF CallCounts
  <2>4. CASE phase = "sending"
    <3>1. attempt \in Nat /\ attempt < Limit /\ RoundsSent(attempt)
      BY <2>4, <1>a DEF CallCounts, CallType
    <3>2. sent <= attempt * Pool + Pool + Extra /\ attempt * Pool \in Nat
      BY <3>1, <1>a, <1>b, OneRoundMore DEF RoundsSent, CallType
    <3> QED
      BY <3>1, <3>2, <2>1, <2>2, <1>a, <1>b DEF CallType
  <2>5. CASE phase = "resting"
    <3>1. attempt - 1 \in Nat /\ attempt - 1 < Limit /\ RoundsSent(attempt - 1)
      BY <2>5, <1>a, <1>b DEF CallCounts
    <3>2. /\ sent <= (attempt - 1) * Pool + Pool + Extra
          /\ (attempt - 1) * Pool \in Nat
      BY <3>1, <1>a, <1>b, OneRoundMore DEF RoundsSent, CallType
    <3> QED
      BY <3>1, <3>2, <2>1, <2>2, <1>a, <1>b DEF CallType
  <2>6. CASE phase = "cooldown"
    <3>1. attempt \in Nat /\ attempt < Limit /\ sent <= attempt * Pool + Extra
      BY <2>6, <1>a DEF CallCounts, CallType
    <3>2. attempt * Pool \in Nat
      BY <3>1, OneRoundMore
    <3> QED
      BY <3>1, <3>2, <2>1, <2>2, <1>a, <1>b DEF CallType
  <2> QED
    BY <2>3, <2>4, <2>5, <2>6, <1>a DEF CallType
<1> QED
  BY <1>1, <1>2 DEF RequestsBounded

\* What the stage does to the call in flight: it starts one, or leaves it alone.
LEMMA StageCalls ==
  ASSUME [Next]_vars
  PROVE  \/ \E s \in Stages : StartCall(s)
         \/ CallStep
         \/ PoolStep
         \/ UNCHANGED callVars
<1>a. VerificationStage \in Stages /\ \A i : SummaryStage(i) \in Stages
  BY DEF VerificationStage, SummaryStage, Stages
<1>b. {"main", "final_summary", "failure_summary"} \subseteq Stages
  BY DEF Stages
<1> HIDE DEF callVars
<1>1. CASE Begin \/ Verified
  BY <1>1, <1>a, <1>b DEF Begin, Verified, Call, Idle
<1>2. CASE Prompt \/ NoReply
  BY <1>2, <1>a DEF Prompt, NoReply, Ask, Call, Idle
<1>3. CASE Replied
  BY <1>3, <1>a DEF Replied, Ask, Call, Idle
<1>4. CASE Finalise \/ FailureSummary \/ Degrade \/ Adjudicate \/ Emit
  BY <1>4, <1>b
  DEF Finalise, FallBack, NoFallback, FailureSummary, Degrade, Adjudicate, Emit,
      Call, Idle
<1>5. CASE InCall \/ Cooldown \/ Over \/ UNCHANGED vars
  BY <1>5 DEF InCall, Cooldown, Over
<1> QED
  BY <1>1, <1>2, <1>3, <1>4, <1>5 DEF Next, StageStep

LEMMA CallInvariant == Spec => []CallInv
<1>1. Init => CallInv
  <2> SUFFICES ASSUME Init PROVE CallInv
    OBVIOUS
  <2>1. 0 \in 0..(Pool - 1)
    BY CallAssumption
  <2>2. provider \in {"openai", "anthropic"}
    BY CallAssumption DEF Init, CallInit, ClientInit
  <2> QED
    BY <2>1, <2>2
    DEF Init, CallInit, CallInv, CallType, CallCounts, TimeoutsCounted, Stages
<1>2. CallInv /\ [Next]_vars => CallInv'
  <2> SUFFICES ASSUME CallInv, [Next]_vars PROVE CallInv'
    OBVIOUS
  <2>1. CASE UNCHANGED callVars \/ PoolStep
    <3>1. UNCHANGED <<provider, phase, stage, loopVars>>
      BY <2>1 DEF PoolStep, CooldownEnds
    <3> QED
      BY <3>1
      DEF CallInv, CallType, CallCounts, RoundsSent, Extra, Limit,
          TimeoutsCounted
  <2> QED
    BY <2>1, StageCalls, StartCallInv, CallStepInv
<1> QED
  BY <1>1, <1>2, PTL DEF Spec

\* One call sends at most one request for every key and attempt, and one more;
\* with timeout_fail_fast it sees at most one timeout.
THEOREM RequestsBoundedAlways == Spec => []RequestsBounded
  BY CallInvariant, CallBounded, PTL

\* The pool and the SDK client agree about the key in use, but for a client that
\* was never rotated and still has llm.api_key.
KeyInv == clientKey = index \/ (index = 1 /\ clientKey = OwnKey)

LEMMA KeyInvariant == Spec => []KeyInv
<1>1. Init => KeyInv
  BY DEF Init, CallInit, ClientInit, KeyInv
<1>2. KeyInv /\ [Next]_vars => KeyInv'
  <2> SUFFICES ASSUME KeyInv, [Next]_vars PROVE KeyInv'
    OBVIOUS
  <2>1. CASE \E s \in Stages : StartCall(s)
    BY <2>1 DEF StartCall, KeyInv
  <2>2. CASE CallStep
    BY <2>2
    DEF CallStep, Answered, Truncated, RateLimited, CooldownOver, TimedOut,
        OptOutRefused, RequestFailed, AnthropicAnswered, AnthropicFailed,
        Rested, WallTimeout, Rotate, BuildClient, KeyInv
  <2>3. CASE PoolStep \/ UNCHANGED callVars
    BY <2>3 DEF PoolStep, CooldownEnds, KeyInv
  <2> QED
    BY <2>1, <2>2, <2>3, StageCalls
<1> QED
  BY <1>1, <1>2, PTL DEF Spec

\* A step puts at most the current key of the pool to rest.
LEMMA OnlyCurrentCools ==
  ASSUME [Next]_vars
  PROVE  cooling' \subseteq cooling \cup {index}
<1>1. CASE \E s \in Stages : StartCall(s)
  BY <1>1 DEF StartCall
<1>2. CASE CallStep
  BY <1>2
  DEF CallStep, Answered, Truncated, RateLimited, CooldownOver, TimedOut,
      OptOutRefused, RequestFailed, AnthropicAnswered, AnthropicFailed,
      Rested, WallTimeout
<1>3. CASE PoolStep \/ UNCHANGED callVars
  BY <1>3 DEF PoolStep, CooldownEnds
<1> QED
  BY <1>1, <1>2, <1>3, StageCalls

\* Only the key a request was sent with is put to rest, in a client that was
\* built with the first key of the pool (llm.api_key is OPENAI_API_KEYS' first).
THEOREM MarksUsedKeyAlways ==
  ASSUME OwnKey = 1
  PROVE  Spec => MarksUsedKey
<1>1. KeyInv /\ [Next]_vars => [cooling' \subseteq cooling \cup {clientKey}]_callVars
  BY OnlyCurrentCools DEF KeyInv
<1> QED
  BY <1>1, KeyInvariant, PTL DEF Spec, MarksUsedKey

\* The same of a client that was built with any key, from its first rotation
\* on: once the pool has moved from its first key, what is put to rest is the
\* key the request was sent with (_rotate_client).
THEOREM RotatedMarksUsedKeyAlways ==
  Spec => [][index # 1 => cooling' \subseteq cooling \cup {clientKey}]_callVars
<1>1. KeyInv /\ [Next]_vars
        => [index # 1 => cooling' \subseteq cooling \cup {clientKey}]_callVars
  BY OnlyCurrentCools DEF KeyInv
<1> QED
  BY <1>1, KeyInvariant, PTL DEF Spec

-----------------------------------------------------------------------------
(* The report                                                              *)

LEMMA StageInit == Init => StageInv /\ LastChanceInv
<1> SUFFICES ASSUME Init PROVE StageInv /\ LastChanceInv
  OBVIOUS
<1>1. StageType
  BY DEF Init, StageType
<1> QED
  BY <1>1
  DEF Init, StageInv, LastChanceInv, Before, Asking, NothingYet

LEMMA StageNext == StageInv /\ LastChanceInv /\ [Next]_vars => StageInv' /\ LastChanceInv'
<1> SUFFICES ASSUME StageInv, LastChanceInv, [Next]_vars
             PROVE  StageInv' /\ LastChanceInv'
  OBVIOUS
<1>a. StageType
  BY DEF StageInv
<1>b. /\ mode.last \in BOOLEAN /\ mode.retry \in BOOLEAN /\ mode.boxed \in BOOLEAN
  BY <1>a, AnswerAssumption DEF StageType, Modes
<1>1. CASE UNCHANGED <<mode, stageVars>>
  BY <1>1
  DEF StageInv, StageType, LastChanceInv, NothingYet, ReplyJudged, Usable, Agree,
      ExperienceForAnother
<1>2. CASE Begin \/ Verified \/ Prompt
  <2>1. /\ at \in Before
        /\ at' \in {"verifying", "reverifying", "prompt", "summarising"}
        /\ UNCHANGED <<mode, quality, report, boxed, available, experience,
                       delivered>>
    BY <1>2 DEF Begin, Verified, Prompt, Before
  <2>2. NothingYet /\ ~available /\ ~experience /\ ~delivered
    BY <2>1 DEF StageInv, Before
  <2>3. StageType'
    BY <2>1, <1>a DEF StageType
  <2> QED
    BY <2>1, <2>2, <2>3
    DEF StageInv, LastChanceInv, NothingYet, ReplyJudged, Usable, Before, Asking
<1>3. CASE Replied
  <2>1. at = "summarising" /\ ~available /\ ~experience /\ ~delivered
    BY <1>3 DEF Replied, StageInv, Asking
  <2>2. PICK q \in Qualities : quality' = q /\ boxed' = (q # "unusable")
    BY <1>3 DEF Replied
  <2>3. /\ at' \in Asking /\ report' = "summary"
        /\ UNCHANGED <<mode, available, experience, delivered>>
    BY <1>3, <2>1 DEF Replied, Asking
  <2>4. boxed' \in BOOLEAN /\ (boxed' <=> Usable')
    BY <2>2 DEF Usable, Qualities
  <2>5. StageType'
    BY <1>a, <2>2, <2>3, <2>4 DEF StageType, Qualities, Asking
  <2> QED
    BY <2>1, <2>2, <2>3, <2>4, <2>5
    DEF StageInv, LastChanceInv, ReplyJudged, Qualities, Before, Asking
<1>4. CASE NoReply
  <2>1. /\ at = "summarising" /\ at' \in Asking
        /\ UNCHANGED <<mode, quality, report, boxed, available, experience,
                       delivered>>
    BY <1>4 DEF NoReply, Asking
  <2>2. ReplyJudged /\ ~available /\ ~experience /\ ~delivered
    BY <2>1 DEF StageInv, Asking
  <2>3. StageType'
    BY <1>a, <2>1 DEF StageType, Asking
  <2> QED
    BY <2>1, <2>2, <2>3
    DEF StageInv, LastChanceInv, ReplyJudged, Usable, Before, Asking
<1>5. CASE Finalise
  <2>1. /\ at = "finalise" /\ ReplyJudged /\ ~available /\ ~experience
        /\ ~delivered
    BY <1>5 DEF Finalise, StageInv, Asking
  <2>2. UNCHANGED <<mode, history, quality, experience, delivered>>
    BY <1>5 DEF Finalise
  <2>3. CASE FallBack
    <3>1. /\ available' = (Usable \/ mode.boxed)
          /\ report' = IF Usable THEN report
                       ELSE IF mode.boxed THEN "intermediate" ELSE "none"
          /\ boxed' = IF Usable THEN boxed ELSE mode.boxed
          /\ at' = "degrade"
      BY <2>3 DEF FallBack
    <3>2. available' \in BOOLEAN /\ boxed' \in BOOLEAN
      BY <3>1, <1>a, <1>b DEF StageType
    <3>3. Agree' /\ (available' => boxed')
      BY <3>1, <2>1 DEF Agree, ReplyJudged, Usable
    <3>4. StageType'
      BY <3>1, <3>2, <2>2, <1>a DEF StageType
    <3> QED
      BY <3>1, <3>3, <3>4, <2>1, <2>2
      DEF StageInv, LastChanceInv, ExperienceForAnother, Before, Asking
  <2>4. CASE NoFallback /\ ~mode.last
    <3>1. /\ available' = Usable
          /\ report' = IF Usable THEN report ELSE "none"
          /\ boxed' = (Usable /\ boxed)
          /\ \/ at' = "failing" /\ ~Usable /\ mode.retry
             \/ at' = "degrade"
      BY <2>4 DEF NoFallback
    <3>2. available' \in BOOLEAN /\ boxed' \in BOOLEAN
      BY <3>1 DEF Usable
    <3>3. Agree' /\ (available' => boxed')
      BY <3>1, <2>1 DEF Agree, ReplyJudged, Usable
    <3>4. StageType'
      BY <3>1, <3>2, <2>2, <1>a DEF StageType
    <3>5. at' = "failing" => ~available' /\ report' = "none" /\ mode'.retry
                              /\ ~mode'.last
      BY <3>1, <2>2, <2>4
    <3> QED
      BY <3>1, <3>3, <3>4, <3>5, <2>1, <2>2
      DEF StageInv, LastChanceInv, ExperienceForAnother, Before, Asking
  <2> QED
    BY <1>5, <2>3, <2>4 DEF Finalise
<1>6. CASE FailureSummary
  <2>1. /\ at = "failing" /\ at' = "degrade"
        /\ experience' = (reply = "text")
        /\ UNCHANGED <<mode, history, quality, report, boxed, available,
                       delivered>>
    BY <1>6 DEF FailureSummary
  <2>2. report = "none" /\ mode.retry /\ ~mode.last /\ ~available /\ ~delivered
    BY <2>1 DEF StageInv
  <2>3. StageType'
    BY <2>1, <1>a DEF StageType
  <2> QED
    BY <2>1, <2>2, <2>3
    DEF StageInv, LastChanceInv, ExperienceForAnother, Agree, Before, Asking
<1>7. CASE Degrade
  <2>1. /\ at = "degrade" /\ at' = "claims"
        /\ UNCHANGED <<mode, history, quality, experience, delivered>>
    BY <1>7 DEF Degrade
  <2>2. /\ Agree /\ ExperienceForAnother /\ (available => boxed /\ ~experience)
        /\ ~delivered
    BY <2>1 DEF StageInv
  <2>3. CASE Degradable /\ LongAt(history) # {}
    <3>1. /\ report' = "degraded" /\ available' = TRUE
          /\ boxed' = (boxed \/ mode.boxed)
      BY <1>7, <2>3 DEF Degrade
    <3>2. ~experience
      BY <2>2, <2>3 DEF Degradable, ExperienceForAnother
    <3>3. StageType'
      BY <2>1, <3>1, <1>a DEF StageType
    <3> QED
      BY <2>1, <2>2, <3>1, <3>2, <3>3
      DEF StageInv, LastChanceInv, Agree, Before, Asking
  <2>4. CASE ~(Degradable /\ LongAt(history) # {})
    <3>1. UNCHANGED <<report, available, boxed>>
      BY <1>7, <2>4 DEF Degrade
    <3>2. StageType'
      BY <2>1, <3>1, <1>a DEF StageType
    <3>3. LastChanceInv'
      BY <2>1, <2>4, <3>1 DEF LastChanceInv, LongAt, Degradable
    <3> QED
      BY <2>1, <2>2, <3>1, <3>2, <3>3 DEF StageInv, Agree, Before, Asking
  <2> QED
    BY <2>3, <2>4
<1>8. CASE Adjudicate \/ Emit
  <2>1. /\ at \in {"claims", "adjudicating"}
        /\ UNCHANGED <<mode, history, quality, report, boxed, available,
                       experience>>
    BY <1>8 DEF Adjudicate, Emit
  <2>2. /\ Agree /\ (available => boxed \/ report = "degraded")
        /\ (available => ~experience) /\ ~delivered
    BY <2>1 DEF StageInv
  <2>3. LastChanceInv'
    <3>1. at' \in {"adjudicating", "end"}
      BY <1>8 DEF Adjudicate, Emit
    <3> QED
      BY <2>1, <3>1 DEF LastChanceInv, LongAt
  <2>4. CASE Adjudicate
    <3>1. at' = "adjudicating" /\ UNCHANGED delivered
      BY <2>4 DEF Adjudicate
    <3>2. StageType'
      BY <2>1, <3>1, <1>a DEF StageType
    <3> QED
      BY <2>1, <2>2, <2>3, <3>1, <3>2 DEF StageInv, Agree, Before, Asking
  <2>5. CASE Emit
    <3>1. at' = "end" /\ delivered' = Deliverable
      BY <2>5 DEF Emit
    <3>2. delivered' \in BOOLEAN /\ delivered' = available
      BY <2>2, <3>1, <1>a DEF Deliverable, Agree, StageType
    <3>3. StageType'
      BY <2>1, <3>1, <3>2, <1>a DEF StageType
    <3> QED
      BY <2>1, <2>2, <2>3, <3>1, <3>2, <3>3 DEF StageInv, Agree, Before, Asking
  <2> QED
    BY <1>8, <2>4, <2>5
<1>9. CASE Over \/ InCall \/ Cooldown
  BY <1>1, <1>9 DEF Over, InCall, Cooldown
<1> QED
  BY <1>1, <1>2, <1>3, <1>4, <1>5, <1>6, <1>7, <1>8, <1>9 DEF Next, StageStep

LEMMA StageInvariant == Spec => [](StageInv /\ LastChanceInv)
  BY StageInit, StageNext, PTL DEF Spec

\* The quality record, the report and the stream agree when the stage is over,
\* and what is delivered leaves no experience of failure behind.
THEOREM AnswerHasReportAlways == Spec => []AnswerHasReport
<1>1. StageInv => AnswerHasReport
  BY DEF StageInv, StageType, Agree, AnswerHasReport
<1> QED
  BY <1>1, StageInvariant, PTL

\* When no other attempt follows, a conversation with a long text of the research
\* ends in a report, for every number of tries and whatever the models answer.
THEOREM LastChanceDeliversAlways == Spec => []LastChanceDelivers
<1>1. StageInv /\ LastChanceInv => LastChanceDelivers
  BY DEF StageInv, LastChanceInv, LastChanceDelivers
<1> QED
  BY <1>1, StageInvariant, PTL

=============================================================================
