------------------------------ MODULE TurnLoop ------------------------------
(***************************************************************************)
(* The main loop of one research run (core/orchestrator.py,                *)
(* run_main_agent): ask the model, run the tools it asks for one after the *)
(* other or all at once, account for what they bring, have the evidence    *)
(* judged, and stop early when independent sources agree.                  *)
(*                                                                         *)
(* Three accounts have to stay straight although turns are rolled back,    *)
(* calls fail and a batch runs in parallel:                                *)
(*   - the scrape budget: a slot is reserved when a scrape starts and      *)
(*     committed or released when its result is processed;                 *)
(*   - the evidence revision, which every new piece of evidence raises,    *)
(*     and the revision the last verdict was about;                        *)
(*   - the convergence countdown, its nudge to the model, and what revokes *)
(*     them.                                                               *)
(* The texts that are exchanged are abstracted to what these depend on.    *)
(***************************************************************************)
EXTENDS Naturals, Sequences, FiniteSets

CONSTANTS
  MaxTurns,         \* agent.main_agent.max_turns
  ExtraAttempts,    \* EXTRA_ATTEMPTS_BUFFER
  MaxRollbacks,     \* MAX_CONSECUTIVE_ROLLBACKS
  MaxFailures,      \* max_consecutive_llm_failures
  HasFallback,      \* whether a fallback model is configured
  MaxScrape,        \* max_scrape_per_task, 0 for no limit
  Parallel,         \* parallel_tool_calls
  EarlyStop,        \* deep_early_stop_enabled
  ExitOnEarlyStop,  \* deep_exit_on_early_stop
  PostTurns,        \* deep_post_early_stop_turns
  MinRounds,        \* search rounds before an early stop, at least 2
  MaxChecks,        \* MAX_EVIDENCE_AGREEMENT_CHECKS
  Verified,         \* verification_enabled
  VerifyRounds,     \* verification_min_search_rounds
  MaxGuidance,      \* verification_max_guidance_attempts
  MaxStagnant,      \* verification_max_stagnant_guidance_attempts
  MaxFollowUps,     \* lead_tracker.max_follow_ups, 0 when it is disabled
  Kinds,            \* what the model may call
  Queries,          \* what its calls may ask
  MaxCalls          \* bound on the calls of one reply

ASSUME LoopAssumption ==
  /\ {MaxTurns, ExtraAttempts, MaxScrape, PostTurns, MinRounds, MaxChecks,
      VerifyRounds, MaxGuidance, MaxFollowUps, MaxCalls} \subseteq Nat
  /\ MinRounds >= 2
  /\ {MaxRollbacks, MaxFailures, MaxStagnant} \subseteq Nat \ {0}
  /\ {HasFallback, Parallel, EarlyStop, ExitOnEarlyStop, Verified}
        \subseteq BOOLEAN
  /\ Kinds \subseteq {"search", "scrape", "agent", "other"}
  /\ "none" \notin Queries

VARIABLES
  \* The loop: what it awaits, its counters, and why it ended
  pc, turn, attempts, rollbacks, failures, fallback, exit,
  \* The calls of the present reply, the next one whose result is processed,
  \* and those whose result carries a reserved scrape slot
  batch, next, held,
  \* used_queries, scrape_count and _scrape_slots_reserved
  used, scrapeCount, reserved,
  \* search_rounds, the source conditions that are met, evidence_revision, and
  \* whether the latest evidence has reached the message history
  searchRounds, sources, revision, latest,
  \* evidence_agreement, evidence_agreement_attempts,
  \* agreement_checked_revision
  agreement, checks, checked,
  \* deep_early_stop_triggered, deep_early_stop_turn,
  \* _deep_convergence_nudge_sent
  triggered, stopTurn, nudged,
  \* verification_guidance_attempts, its anchor and its stagnation counter, and
  \* the follow-ups of leads
  guidance, anchor, stagnant, followUps

loop     == <<turn, attempts, rollbacks, failures, fallback>>
tools    == <<batch, next, held, used, scrapeCount, reserved>>
evidence == <<searchRounds, sources, revision, latest>>
verdict  == <<agreement, checks, checked>>
stop     == <<triggered, stopTurn, nudged>>
guide    == <<guidance, anchor, stagnant, followUps>>
vars     == <<pc, exit, loop, tools, evidence, verdict, stop, guide>>

Pcs      == {"turn", "llm", "calls", "review", "judge", "converge", "done"}
Exits    == {"none", "limit", "rollbacks", "failures", "nudgeFailed", "break",
             "answered", "converged", "context"}
Verdicts == {"unknown", "agree", "conflict"}
Latest   == {"none", "pending", "shown", "lost"}

\* How a call may end.  "evidence" is a search with links, a page with a body
\* or the report of a sub-agent, "empty" the same without content, "failure"
\* what a tool or a sub-agent says about its own failure in its result,
\* "error" a failure of the session, "toolError" the text ("Error executing tool",
\* "Unknown tool:") a tool server answers with, "skip" that of the spent budget.
Outcomes == {"evidence", "empty", "failure", "error", "toolError",
             "exception", "skip"}

Calls == {c \in [kind : Kinds, query : Queries \union {"none"},
                 state : {"waiting"}] :
            /\ c.kind = "search" => c.query # "none"
            /\ c.kind = "other" => c.query = "none"}

Batches == UNION {[1..n -> Calls] : n \in 1..MaxCalls}

Init ==
  /\ pc = "turn" /\ exit = "none"
  /\ turn = 0 /\ attempts = 0 /\ rollbacks = 0 /\ failures = 0
  /\ fallback = HasFallback
  /\ batch = << >> /\ next = 1 /\ held = {}
  /\ used = {} /\ scrapeCount = 0 /\ reserved = 0
  /\ searchRounds = 0 /\ sources = {} /\ revision = 0 /\ latest = "none"
  /\ agreement = "unknown" /\ checks = 0 /\ checked = 0
  /\ triggered = FALSE /\ stopTurn = 0 /\ nudged = FALSE
  /\ guidance = 0 /\ anchor = 0 /\ stagnant = 0 /\ followUps = 0

-----------------------------------------------------------------------------
(* Conditions                                                              *)

\* _numeric_early_stop_conditions_met
Gate == EarlyStop /\ searchRounds >= MinRounds /\ "corroborated" \in sources

\* Variant: an agreement counts whatever evidence it was about.
Agreed_AnyRevision == Gate /\ agreement = "agree"

\* _should_early_stop_clue_chase
Agreed == Gate /\ agreement = "agree" /\ checked = revision

\* _should_issue_verification_guidance, up to its progress check
GuidanceDue ==
  /\ Verified
  /\ searchRounds < VerifyRounds \/ "verified" \notin sources
  /\ guidance < MaxGuidance
  /\ turn < MaxTurns

Progress == guidance = 0 \/ searchRounds > anchor

\* What a call brings, as _record_search_evidence, _classify_scrape_result and
\* the sub-agent branch of the loop see it.
IsEvidence(kind, o) ==
  \/ o = "evidence" /\ kind # "other"
  \/ o = "toolError" /\ kind = "scrape"
  \/ o = "failure" /\ kind = "agent"

IsFetch(kind, o) == kind = "scrape" /\ o \in {"evidence", "empty", "toolError"}

\* should_rollback_result
RollsBack(kind, o) == o = "toolError" \/ (o = "empty" /\ kind = "search")

OutcomesOf(kind) ==
  CASE kind = "agent" -> {"evidence", "empty", "failure", "exception"}
    [] kind = "other" -> Outcomes \ {"empty", "skip"}
    [] OTHER          -> Outcomes \ {"skip"}

-----------------------------------------------------------------------------
(* One iteration                                                           *)

Continue      == pc' = "turn" /\ UNCHANGED exit
Leave(reason) == pc' = "done" /\ exit' = reason

\* The turn is taken back.  What its calls had brought so far never reaches the
\* message history.
Rollback ==
  /\ turn' = turn - 1
  /\ rollbacks' = rollbacks + 1
  /\ UNCHANGED <<attempts, failures, fallback>>
  /\ Continue

MayRollBack == rollbacks < MaxRollbacks - 1

GoesOn == turn < MaxTurns /\ attempts < MaxTurns + ExtraAttempts

BeginTurn ==
  /\ pc = "turn"
  /\ GoesOn
  /\ turn' = turn + 1
  /\ attempts' = attempts + 1
  /\ \/ rollbacks >= MaxRollbacks /\ Leave("rollbacks")
     \/ rollbacks < MaxRollbacks /\ pc' = "llm" /\ UNCHANGED exit
  /\ UNCHANGED <<rollbacks, failures, fallback, tools, evidence, verdict, stop,
                 guide>>

EndLoop ==
  /\ pc = "turn"
  /\ ~GoesOn
  /\ Leave("limit")
  /\ UNCHANGED <<loop, tools, evidence, verdict, stop, guide>>

\* The model failed, timed out or answered nothing.
NoReply ==
  /\ pc = "llm"
  /\ \/ nudged /\ Leave("nudgeFailed")
          /\ failures' = failures + 1 /\ UNCHANGED fallback
     \/ ~nudged /\ failures + 1 < MaxFailures /\ Continue
          /\ failures' = failures + 1 /\ UNCHANGED fallback
     \/ ~nudged /\ failures + 1 >= MaxFailures
          /\ \/ fallback /\ fallback' = FALSE /\ failures' = 0 /\ Continue
             \/ ~fallback /\ failures' = failures + 1 /\ UNCHANGED fallback
                  /\ Leave("failures")
  /\ UNCHANGED <<turn, attempts, rollbacks, tools, evidence, verdict, stop,
                 guide>>

\* _note_deep_early_stop, when the condition of its caller holds.
Note(condition) ==
  /\ triggered' = (triggered \/ condition)
  /\ stopTurn' = IF condition /\ ~triggered THEN turn ELSE stopTurn

\* _inject_lead_followup: open says that a lead is worth following.
LeadOpen(open) == open /\ followUps < MaxFollowUps

FollowLead(open) ==
  /\ LeadOpen(open) /\ ~Agreed
  /\ followUps' = followUps + 1
  /\ Continue
  /\ UNCHANGED stop

\* The model wants to stop although it asks for tools.
BreakWithTools(open) ==
  /\ pc = "llm"
  /\ failures' = 0
  /\ \/ FollowLead(open)
     \/ ~(LeadOpen(open) /\ ~Agreed) /\ Leave("break")
          /\ Note(LeadOpen(open) /\ Agreed) /\ UNCHANGED <<nudged, followUps>>
  /\ UNCHANGED <<turn, attempts, rollbacks, fallback, tools, evidence, verdict,
                 guidance, anchor, stagnant>>

-----------------------------------------------------------------------------
(* A reply without tools                                                   *)

\* _should_force_summary_after_early_stop, after its note
ForceSummary == ExitOnEarlyStop /\ Agreed /\ turn >= stopTurn' + PostTurns

\* _maybe_nudge_and_force_summary, and the loop's reaction to it
Converge ==
  \/ ForceSummary /\ nudged /\ Leave("converged") /\ UNCHANGED nudged
  \/ ForceSummary /\ ~nudged /\ nudged' = TRUE /\ Continue

\* The verification gate asks for another search.
Guide ==
  /\ GuidanceDue
  /\ Progress \/ stagnant + 1 < MaxStagnant
  /\ guidance' = guidance + 1
  /\ anchor' = searchRounds
  /\ stagnant' = IF Progress THEN 0 ELSE stagnant + 1

NoGuide ==
  /\ ~(GuidanceDue /\ (Progress \/ stagnant + 1 < MaxStagnant))
  /\ stagnant' = IF GuidanceDue THEN stagnant + 1 ELSE stagnant
  /\ UNCHANGED <<guidance, anchor>>

\* The model answers in text: malformed is a tool call written as text, or a
\* refusal; break asks to leave the loop.
Text(open, malformed, break) ==
  /\ pc = "llm"
  /\ failures' = 0
  /\ \/ /\ Guide
        /\ Continue
        /\ UNCHANGED <<turn, rollbacks, stop, followUps>>
     \/ /\ NoGuide
        /\ FollowLead(open)
        /\ UNCHANGED <<turn, rollbacks>>
     \/ /\ NoGuide
        /\ ~(LeadOpen(open) /\ ~Agreed)
        /\ Note(Agreed /\ (LeadOpen(open) \/ ExitOnEarlyStop))
        /\ UNCHANGED followUps
        /\ \/ Converge /\ UNCHANGED <<turn, rollbacks>>
           \/ /\ ~ForceSummary
              /\ UNCHANGED nudged
              /\ \/ /\ malformed /\ ~break /\ MayRollBack
                    /\ turn' = turn - 1
                    /\ rollbacks' = rollbacks + 1
                    /\ Continue
                 \/ /\ ~(malformed /\ ~break /\ MayRollBack)
                    /\ Leave(IF break THEN "break" ELSE "answered")
                    /\ UNCHANGED <<turn, rollbacks>>
  /\ UNCHANGED <<attempts, fallback, tools, evidence, verdict>>

-----------------------------------------------------------------------------
(* A reply with tools                                                      *)

InParallel(b) == /\ Parallel /\ Len(b) > 1
                 /\ \A i \in DOMAIN b : b[i].kind # "agent"

AskTools ==
  /\ pc = "llm"
  /\ failures' = 0
  /\ batch' \in Batches
  /\ next' = 1
  /\ pc' = "calls"
  /\ UNCHANGED <<exit, turn, attempts, rollbacks, fallback, held, used,
                 scrapeCount, reserved, evidence, verdict, stop, guide>>

Dropped == batch' = << >> /\ next' = 1

\* _check_duplicate_query, which parallel calls do not go through
Repeated(i) ==
  /\ ~InParallel(batch)
  /\ <<batch[i].kind, batch[i].query>> \in used
  /\ MayRollBack \/ Verified

DuplicateQuery ==
  /\ pc = "calls"
  /\ batch[next].state = "waiting" /\ Repeated(next)
  /\ Rollback
  /\ Dropped
  /\ latest' = IF latest = "pending" THEN "lost" ELSE latest
  /\ UNCHANGED <<held, used, scrapeCount, reserved, searchRounds, sources,
                 revision, verdict, stop, guide>>

\* Variant: only what is counted already is held against the budget.
SlotFree_CountedOnly == MaxScrape = 0 \/ scrapeCount < MaxScrape

\* _reserve_scrape_slot
SlotFree == MaxScrape = 0 \/ scrapeCount + reserved < MaxScrape

Reserve(i) == /\ held' = held \union {i}
              /\ reserved' = IF MaxScrape = 0 THEN reserved ELSE reserved + 1

\* Variant: gives a slot back that was never reserved.
Release_Unconditional(i) ==
  /\ held' = held \ {i}
  /\ reserved' = IF MaxScrape # 0 THEN reserved - 1 ELSE reserved

\* _release_scrape_slot, when the result carries a reservation
Release(i) ==
  /\ held' = held \ {i}
  /\ reserved' = IF i \in held /\ MaxScrape # 0 /\ reserved > 0
                   THEN reserved - 1 ELSE reserved

\* The coroutines of a parallel batch start in order, before any of them ends.
StartCall(i) ==
  /\ pc = "calls"
  /\ batch[i].state = "waiting" /\ ~Repeated(i)
  /\ \A j \in 1..(i - 1) : batch[j].state # "waiting"
  /\ InParallel(batch) \/ i = next
  /\ \/ /\ batch[i].kind = "scrape" /\ SlotFree
        /\ Reserve(i)
        /\ batch' = [batch EXCEPT ![i].state = "running"]
     \/ /\ batch[i].kind = "scrape" /\ ~SlotFree
        /\ batch' = [batch EXCEPT ![i].state = "skip"]
        /\ UNCHANGED <<held, reserved>>
     \/ /\ batch[i].kind # "scrape"
        /\ batch' = [batch EXCEPT ![i].state = "running"]
        /\ UNCHANGED <<held, reserved>>
  /\ UNCHANGED <<pc, exit, loop, next, used, scrapeCount, evidence, verdict,
                 stop, guide>>

\* An exception gives the slot back; every other result keeps it until it is
\* processed.
ReturnCall(i) ==
  /\ pc = "calls"
  /\ batch[i].state = "running"
  /\ \E o \in OutcomesOf(batch[i].kind) :
       /\ batch' = [batch EXCEPT ![i].state = o]
       /\ \/ o = "exception" /\ Release(i)
          \/ o # "exception" /\ UNCHANGED <<held, reserved>>
  /\ UNCHANGED <<pc, exit, loop, next, used, scrapeCount, evidence, verdict,
                 stop, guide>>

Returned(i) == batch[i].state \in Outcomes

\* _record_query: whatever is not an error, under the tool that was called.
RecordQuery(call) ==
  used' = IF call.state \in {"error", "exception"} \/ call.query = "none"
            THEN used ELSE used \union {<<call.kind, call.query>>}

\* Variant: a scrape that is not counted keeps its slot.
RecordScrape_KeepsSlot(i, kind, o) ==
  IF IsFetch(kind, o) THEN Release(i) /\ scrapeCount' = scrapeCount + 1
                      ELSE UNCHANGED <<held, reserved, scrapeCount>>

\* _record_scrape_metric: commit the slot, or give it back.
RecordScrape(i, kind, o) ==
  /\ Release(i)
  /\ scrapeCount' = scrapeCount + IF IsFetch(kind, o) THEN 1 ELSE 0

\* _record_search_evidence: links raise the round, and any result may bring the
\* sources or the confidence that a gate was waiting for.
RecordSearch(kind, o) ==
  /\ searchRounds' =
       searchRounds + IF kind = "search" /\ o = "evidence" THEN 1 ELSE 0
  /\ IF kind = "search" /\ o \in {"evidence", "empty"}
       THEN \E more \in SUBSET {"corroborated", "verified"} :
              sources' = sources \union more
       ELSE UNCHANGED sources

\* The result of the next call is processed: of a sequential call as soon as it
\* is there, of a parallel batch when all are.  Only sequential calls take the
\* turn back; after the last call the results enter the message history.
RecordCall ==
  LET i      == next
      kind   == batch[i].kind
      o      == batch[i].state
      fresh  == IF IsEvidence(kind, o) THEN "pending" ELSE latest
      undone == /\ kind # "agent" /\ RollsBack(kind, o)
                /\ ~InParallel(batch) /\ MayRollBack
  IN
  /\ pc = "calls"
  /\ Returned(i)
  /\ InParallel(batch) => \A j \in DOMAIN batch : Returned(j)
  /\ RecordQuery(batch[i])
  /\ RecordScrape(i, kind, o)
  /\ RecordSearch(kind, o)
  /\ revision' = IF IsEvidence(kind, o) THEN revision + 1 ELSE revision
  /\ \/ /\ undone
        /\ Rollback
        /\ Dropped
        /\ latest' = IF fresh = "pending" THEN "lost" ELSE fresh
     \/ /\ ~undone /\ i < Len(batch)
        /\ next' = i + 1
        /\ latest' = fresh
        /\ UNCHANGED <<pc, exit, loop, batch>>
     \/ /\ ~undone /\ i = Len(batch)
        /\ Dropped
        /\ rollbacks' = 0
        /\ latest' = IF fresh = "pending" THEN "shown" ELSE fresh
        /\ pc' = "review"
        /\ UNCHANGED <<exit, turn, attempts, failures, fallback>>
  /\ UNCHANGED <<verdict, stop, guide>>

-----------------------------------------------------------------------------
(* Agreement and convergence                                               *)

Stale == agreement = "agree" /\ checked # revision

\* Variant: the nudge is left standing.
Revoke_KeepsNudge ==
  \/ /\ Stale
     /\ agreement' = "unknown"
     /\ triggered' = FALSE
     /\ stopTurn' = IF triggered THEN 0 ELSE stopTurn
     /\ UNCHANGED nudged
  \/ ~Stale /\ UNCHANGED <<agreement, stop>>

\* Variant: the countdown goes on.
Revoke_KeepsCountdown ==
  \/ /\ Stale
     /\ agreement' = "unknown"
     /\ nudged' = FALSE
     /\ UNCHANGED <<triggered, stopTurn>>
  \/ ~Stale /\ UNCHANGED <<agreement, stop>>

\* _revoke_stale_early_stop_countdown
Revoke ==
  \/ /\ Stale
     /\ agreement' = "unknown"
     /\ triggered' = FALSE
     /\ stopTurn' = IF triggered THEN 0 ELSE stopTurn
     /\ nudged' = FALSE
  \/ ~Stale /\ UNCHANGED <<agreement, stop>>

JudgeDue == checked < revision /\ checks < MaxChecks /\ Gate

\* _maybe_evaluate_evidence_agreement up to its call of the model, which is
\* asked about the evidence of the present revision.
Review ==
  /\ pc = "review"
  /\ Revoke
  /\ \/ JudgeDue /\ checks' = checks + 1 /\ checked' = revision /\ pc' = "judge"
     \/ ~JudgeDue /\ pc' = "converge" /\ UNCHANGED <<checks, checked>>
  /\ UNCHANGED <<exit, loop, tools, evidence, guide>>

\* Its answer; a failed call counts as "unknown".
Judge ==
  /\ pc = "judge"
  /\ agreement' \in Verdicts
  /\ pc' = "converge"
  /\ UNCHANGED <<exit, loop, tools, evidence, checks, checked, stop, guide>>

\* After the tools: nudge or leave, else check the length of the context.
AfterTools ==
  /\ pc = "converge"
  /\ Note(ExitOnEarlyStop /\ Agreed)
  /\ \/ Converge /\ UNCHANGED turn
     \/ /\ ~ForceSummary /\ UNCHANGED nudged
        /\ \/ Continue /\ UNCHANGED turn
           \/ Leave("context") /\ turn' = MaxTurns
  /\ UNCHANGED <<attempts, rollbacks, failures, fallback, tools, evidence,
                 verdict, guide>>

-----------------------------------------------------------------------------

ToolStep == \/ DuplicateQuery \/ RecordCall
            \/ \E i \in DOMAIN batch : StartCall(i) \/ ReturnCall(i)

Next ==
  \/ BeginTurn \/ EndLoop \/ NoReply \/ AskTools \/ ToolStep
  \/ Review \/ Judge \/ AfterTools
  \/ \E open \in BOOLEAN : BreakWithTools(open)
  \/ \E open, malformed, break \in BOOLEAN : Text(open, malformed, break)

Spec == Init /\ [][Next]_vars

-----------------------------------------------------------------------------
(* Properties                                                              *)

CallStates == {"waiting", "running"} \union Outcomes

LoopType ==
  /\ pc \in Pcs /\ exit \in Exits
  /\ turn \in 0..MaxTurns /\ attempts \in 0..(MaxTurns + ExtraAttempts)
  /\ rollbacks \in 0..MaxRollbacks
  /\ failures \in 0..MaxFailures /\ fallback \in BOOLEAN

ToolsType ==
  /\ DOMAIN batch \subseteq 1..MaxCalls
  /\ batch \in Seq([kind : Kinds, query : Queries \union {"none"},
                     state : CallStates])
  /\ next \in Nat \ {0} /\ held \subseteq 1..MaxCalls
  /\ used \subseteq Kinds \X Queries
  /\ scrapeCount \in Nat /\ reserved \in Nat

EvidenceType ==
  /\ searchRounds \in Nat /\ sources \subseteq {"corroborated", "verified"}
  /\ revision \in Nat /\ latest \in Latest
  /\ agreement \in Verdicts /\ checks \in 0..MaxChecks /\ checked \in 0..revision

StopType ==
  /\ triggered \in BOOLEAN /\ stopTurn \in 0..MaxTurns /\ nudged \in BOOLEAN

GuideType ==
  /\ guidance \in 0..MaxGuidance /\ anchor \in Nat /\ stagnant \in Nat
  /\ followUps \in 0..MaxFollowUps

\* Every variable stays in its range; turns, rollbacks, guidance, follow-ups and
\* verdicts stay within their limits however turns are taken back.
TypeOK == LoopType /\ ToolsType /\ EvidenceType /\ StopType /\ GuideType

\* The scrapes that are running and those that were counted never exceed the
\* budget of the task, also when a parallel batch starts many of them before the
\* first one is counted (_reserve_scrape_slot).
Scraping == {i \in DOMAIN batch :
               batch[i].kind = "scrape" /\ batch[i].state = "running"}

BudgetHolds ==
  MaxScrape # 0 => scrapeCount + Cardinality(Scraping) <= MaxScrape

\* Between two batches no slot stays reserved, whatever became of the calls that
\* reserved one: a slot that leaks is lost for the rest of the task
\* (_release_scrape_slot, _commit_scrape_slot).
SlotsReturned == pc # "calls" => reserved = 0

\* While the model has been told to write its report, the agreement behind that
\* is about all the evidence, unless the turn that brought more was taken back
\* (_revoke_stale_early_stop_countdown).
NudgeIsFresh ==
  pc = "llm" /\ nudged =>
    rollbacks > 0 \/ (agreement = "agree" /\ checked = revision)

\* The loop is only forced to end on an agreement about the present evidence
\* (_maybe_nudge_and_force_summary), and after the model was told.
ConvergedIsFresh ==
  exit = "converged" =>
    nudged /\ agreement = "agree" /\ checked = revision

\* A countdown never outlives the verdict it counts from: once the evidence is
\* judged again it starts again (docs/plans/2026-09-24-research-depth-roadmap.md).
CountdownRestarts == [][triggered /\ triggered' => checked' = checked]_vars

\* What the comment in Orchestrator.__init__ says: only an agreement on the
\* present evidence may end the research early.  Being told to write the report
\* and then failing to answer is such an end (run_main_agent).
EarlyExitIsFresh ==
  exit \in {"converged", "nudgeFailed"} =>
    agreement = "agree" /\ checked = revision

-----------------------------------------------------------------------------
(* Said by the documentation, and not so: no run lists these properties  *)

\* What _maybe_evaluate_evidence_agreement promises: the verdict is about the
\* latest evidence, so that evidence is in the message history that is judged.
VerdictSawEvidence ==
  agreement = "agree" /\ checked = revision => latest # "lost"

\* What docs/DEEP_EFFICIENCY.md says: only a search with results, a page with a
\* body or the report of a sub-agent is new evidence, a failed scrape is not.
OnlyResultsAreEvidence ==
  [][revision' # revision => batch[next].state = "evidence"]_vars
=============================================================================
