----------------------------- MODULE ExtractInfo -----------------------------
(***************************************************************************)
(* The tool scrape_and_extract_info: a page through the Jina reader, with a *)
(* direct download when that fails, and a summary of it by an LLM.         *)
(*                                                                         *)
(* The three requests have retry loops of the same shape and with          *)
(* different exits.  A page is its length in units of what one retry cuts  *)
(* from it (40960 characters); 0 is an empty page.                         *)
(***************************************************************************)
EXTENDS Integers, Sequences

CONSTANTS
  JinaTries,    \* retries of scrape_url_with_jina
  PythonTries,  \* of scrape_url_with_python
  LlmTries,     \* of extract_info_with_llm
  PageSizes,    \* lengths of a page
  ServiceTier,  \* the model is a GPT-5: service_tier is sent
  Configured    \* subset of {"jina", "llm"}: keys and URLs that are set

ASSUME ExtractAssumption ==
  /\ JinaTries \in Nat \ {0} /\ PythonTries \in Nat \ {0}
  /\ LlmTries \in Nat \ {0} /\ PageSizes \subseteq Nat
  /\ ServiceTier \in BOOLEAN /\ Configured \subseteq {"jina", "llm"}

VARIABLES
  step,      \* idle | jina | python | summary | done
  try,       \* attempts of the present loop that failed
  size,      \* length of the page
  prompt,    \* what of it the prompt shows
  tier,      \* service_tier is in the payload
  last,      \* what the last answer of the LLM was
  verdict    \* none | success | failure

extractVars == <<step, try, size, prompt, tier, last, verdict>>

ExtractInit ==
  /\ step = "idle" /\ try = 0 /\ size = 0 /\ prompt = 0 /\ tier = ServiceTier
  /\ last = "none" /\ verdict = "none"

Conclude(how) == step' = "done" /\ verdict' = how

\* The page of a dataset of Hugging Face is refused.
RefusePage ==
  /\ step = "idle"
  /\ Conclude("failure")
  /\ UNCHANGED <<try, size, prompt, tier, last>>

\* Without a key the reader fails before any request.
StartExtract ==
  /\ step = "idle"
  /\ step' = IF "jina" \in Configured THEN "jina" ELSE "python"
  /\ UNCHANGED <<try, size, prompt, tier, last, verdict>>

Tries == IF step = "jina" THEN JinaTries ELSE PythonTries

\* The reader gives up: the direct download; that gives up: an error.
ScrapeGivesUp ==
  /\ try' = 0
  /\ IF step = "jina" THEN step' = "python" /\ UNCHANGED verdict
     ELSE Conclude("failure")

\* A connection that fails, a timeout, a status of 5xx, 408, 409, 425, 429.
ScrapeRetries ==
  /\ step \in {"jina", "python"}
  /\ IF try + 1 < Tries
     THEN try' = try + 1 /\ UNCHANGED <<step, verdict>>
     ELSE ScrapeGivesUp
  /\ UNCHANGED <<size, prompt, tier, last>>

\* Another status, an empty page, or for the reader an empty balance.
ScrapeRefused ==
  /\ step \in {"jina", "python"}
  /\ ScrapeGivesUp
  /\ UNCHANGED <<size, prompt, tier, last>>

\* The page is there.  A page of blanks, or no LLM to ask, ends the call.
Scraped ==
  /\ step \in {"jina", "python"}
  /\ \E n \in PageSizes :
       /\ size' = n /\ prompt' = n
       /\ IF n = 0 \/ "llm" \notin Configured THEN Conclude("failure")
          ELSE step' = "summary" /\ UNCHANGED verdict
  /\ try' = 0
  /\ UNCHANGED <<tier, last>>

\* What is left of the loop once its attempts are used up: the last answer
\* is parsed like any other.  The complaint about a long prompt has no choices;
\* a repetition may have some, or be no JSON at all.
AfterLoop(answer) ==
  \E how \in {"success", "failure"} :
    /\ answer = "context" => how = "failure"
    /\ Conclude(how)

\* The LLM repeats itself: asked again, without a pause; after the last
\* attempt what repeats is taken for an answer.
Repeats ==
  /\ step = "summary" /\ last' = "repeat"
  /\ IF try + 1 < LlmTries
     THEN try' = try + 1 /\ UNCHANGED <<step, verdict>>
     ELSE AfterLoop("repeat") /\ UNCHANGED try
  /\ UNCHANGED <<size, prompt, tier>>

\* Variant: every retry cuts the same amount.
Shortened_Once == IF size > 1 THEN size - 1 ELSE 0

\* get_prompt_with_truncation: the number of the attempt times the unit,
\* from the end of the whole page.
Shortened == IF size > try + 1 THEN size - (try + 1) ELSE 0

\* The prompt is too long for the model: a shorter one.  A prompt without
\* the page fits.
TooLong ==
  /\ step = "summary" /\ prompt > 0 /\ last' = "context"
  /\ prompt' = Shortened
  /\ IF try + 1 < LlmTries
     THEN try' = try + 1 /\ UNCHANGED <<step, verdict>>
     ELSE AfterLoop("context") /\ UNCHANGED try
  /\ UNCHANGED <<size, tier>>

\* A failed connection, a read timeout or a retryable status.
SummaryRetries ==
  /\ step = "summary" /\ last' = "failed"
  /\ IF try + 1 < LlmTries
     THEN try' = try + 1 /\ UNCHANGED <<step, verdict>>
     ELSE Conclude("failure") /\ UNCHANGED try
  /\ UNCHANGED <<size, prompt, tier>>

\* An error status while service_tier is sent: once more without it.
TierRefused ==
  /\ step = "summary" /\ tier
  /\ tier' = FALSE /\ last' = "failed"
  /\ IF try + 1 < LlmTries
     THEN try' = try + 1 /\ UNCHANGED <<step, verdict>>
     ELSE Conclude("failure") /\ UNCHANGED try
  /\ UNCHANGED <<size, prompt>>

\* A status that is not retried, another request error, or an answer without
\* choices.
SummaryFails ==
  /\ step = "summary"
  /\ Conclude("failure") /\ last' = "failed"
  /\ UNCHANGED <<try, size, prompt, tier>>

\* choices[0] has a message.
Summarized ==
  /\ step = "summary"
  /\ Conclude("success") /\ last' = "summary"
  /\ UNCHANGED <<try, size, prompt, tier>>

ExtractNext ==
  \/ RefusePage \/ StartExtract \/ ScrapeRetries \/ ScrapeRefused \/ Scraped
  \/ Repeats \/ TooLong \/ SummaryRetries \/ TierRefused \/ SummaryFails
  \/ Summarized

-----------------------------------------------------------------------------
(* Properties                                                              *)

\* A prompt that the model found too long is never sent again as long as
\* before, whatever happened to the attempts in between.
LongPromptShrinks ==
  [][last' = "context" => prompt' < prompt]_extractVars
=============================================================================
