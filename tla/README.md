# OpenClaw-MiroSearch in TLA+

A verification development for the research service of this repository: TLA+
modules translated from the source, TLC configurations that check them on small
instances, and TLAPS proofs of the properties that hold for every instance.

Short names of files: `worker` is `apps/api-server/workers/research_worker.py`,
`store` and `research` are `services/task_store.py` and `routers/research.py`
beside it; `pipeline`, `orchestrator`, `answer_generator`, `source_registry` and
`claim_verification` are modules of `apps/miroflow-agent/src/core`; `main` is
`apps/gradio-demo/main.py`; `search_and_scrape` is the server
`search_and_scrape_webpage.py` of `libs/miroflow-tools`, `manager` its
`manager.py`.

## 1. Inventory

| Part | State it keeps | Operations | Interacts with |
|---|---|---|---|
| Research API (`research`) | none of its own | create, serve from the cache, status, stream, cancel, cancel by caller | writes the task record, enqueues to arq |
| Task store (`store`) | per task in Valkey: metadata hash, event stream, cancel flag, result, quality, source registry; shared result cache; caller index | create, update status, append and read events, request and check cancel, store, look up and drop results | everything else; each method is one to three round trips that may raise |
| arq (external) | the queue, in-progress keys, a try counter | deliver at least once, at most `max_tries` times; job timeout; graceful shutdown | runs `run_research_job` |
| Worker (`worker`) | one coroutine per attempt, its cancel watcher, its sink | pre-check, build, run, clean up, store, commit, retry | store, pipeline |
| Pipeline (`pipeline`) | one coroutine, its tool managers | run the main agent, emit the tail events, close the managers | sink, orchestrator |
| SSE stream (`research:266-333`) | a cursor | page, poll the status, drain, close | store |
| Main agent (`orchestrator`) | turn counters, scrape budget, evidence revision and verdict, duplicate-query table | turn loop, parallel tools, early stop, rollback | LLM clients, tool manager, final stage |
| Sub-agents (`orchestrator:1244-1976`) | a conversation, counters and a query table of their own | turn loop, rollback, last call | LLM clients, tool manager |
| Final stage (`answer_generator`) | the history, the best try so far, a quality record | verify, summarise with retries, degrade, adjudicate claims, deliver | LLM clients, stream |
| LLM clients (`llm/providers`) and key pool | the SDK client, position of the pool, cooldowns | one message with retries, key rotation, timeouts | external services |
| Search server (`search_and_scrape`, `providers/`) | settings, per-provider pools, a provider check | search over a route, merge, confidence, second search | external services |
| Scrape and extraction servers | none beyond a call | redirects, reading under a limit, extraction by a model | external services |
| Sandbox server (`python_mcp_server.py`) | none; sandboxes live in a remote service | create, run, upload, fetch, download | E2B |
| Tool manager (`manager`) | server parameters, blocked pages | one call in one session under one timeout | all tool servers |
| Source registry (`source_registry`) | numbered entries, an index of addresses, stored bodies | register, fold redirects, retire, restore | main agent, report |
| Claim verification, citations (`claim_verification`, `io/report_structure.py`) | none | sanitise a verdict, count support, rewrite citations | registry, final stage |
| Gradio demo (`main`, `api_client.py`) | registry of active tasks, cancel flags and events, preload and result caches, queues, threads | run, wait, stop, reconnect, endpoints | API, or the pipeline directly |
| Benchmarks (`benchmarks/common_benchmark.py`) | logs on disk, a process pool | attempt, repeat, judge, resume | pipeline |
| Pipeline runtime, rate limiter, authentication, settings, formatting, metrics, templates, offline tools | | | not modelled, section 6 |

What is hard here: a task is written by four parties that never lock (API
handler, worker, pipeline, the pipeline an earlier attempt left behind); every
write is an await that may raise with or without its effect; the worker can be
cancelled at any await and handles that differently depending on the handler it
is nested in; arq delivers again what a dead worker left; a reader of the stream
must not close before it has the ending. Inside a run a turn may be taken back
after its calls have been counted, calls of a batch end in any order, a verdict
about the evidence is only as good as the evidence it was shown, and nested
retry loops share one pool of keys. Servers hang; redirects and merges give one
page several names; clicks of a page reach the registry of another moment; a
benchmark is cut off in the middle of writing what it will resume from.
`PROJECT.json` lists the hazards at their lines with the properties that are
about them.

## 2. Modules

A module models one component; composition is by `EXTENDS`.

```
TaskLifecycle <- ResearchTask <- CachedTask <- ResearchStream     one task
                 (its pipeline's inside:)
TurnLoop     SubAgent     LlmCall <- FinalAnswer                   one run
ProviderCall <- SearchRoute \
ScrapePage, ExtractInfo      > ToolSession                         one tool call
Sandbox                     /
SourceRegistry <- ClaimSupport                                     the sources of a run
StopRegistry <- DemoLocal, DemoApi <- Demo                         the web demo
Benchmark                                                          the benchmark
```

The task sees a run as a pipeline that ends in one of a few ways
(`PipelineWorks`); the run's modules see a tool call as one of a few answers;
`ToolSession` opens those up. Each boundary hands on every outcome the inner
module can have.

### One task: ResearchTask, CachedTask, ResearchStream, TaskLifecycle

| State | Code |
|---|---|
| `status`, `events`, `cancelRequested`, `result` | the task's keys in Valkey (`store:52-94`) |
| `cache` | whether this task wrote the shared cache entry |
| `client` | where `create_research` is; `canceller`: one cancel request |
| `job`, `tries` | the arq job |
| `pc`, `frame`, `goal`, `watcher`, `timedOut` | the coroutine `run_research_job`: the await it is suspended in, the innermost `try` that would catch an exception, the status it is heading for, its cancel watcher |
| `pipe`, `outcome`, `sinkOff` | per attempt: where its pipeline is, what it will return, its sink's flag |
| `entry`, `serving`, `written` | the shared cache entry a new request finds, where its look-up is, and how many writes of the served task are done |
| `reader`, `cursor`, `seen` | one `stream_research` generator |

Each action is the code from one await to the next. `frame` makes the error
paths faithful: the same `update_task_status` raises into the setup handler, the
run handler, the handler of a handler, or out of the function, depending on
where it was called (`Throw`, from `worker:458-537`). A cancellation is
delivered to the innermost handler too (`Interrupt`), and a worker that waits
for a cancelled pipeline hands it on (`worker:264-284`). A failing call is an
alternative of its action: no effect, or the effect without the reply. A crash
ends everything the process ran and requeues the job. `CommitEvent` and
`UpdateStatus`/`RefreshTTL` are `_commit_terminal_state`: the event first, whose
failure is swallowed; then the status in two round trips (`HSET`, `EXPIRE`).
`CancelPipeline` says what a `CancelledError` does at each await of the pipeline.

`CachedTask` puts the cache in front: `LookUp` and `DropEntry` are
`get_cached_result` with its validation and `delete_cached_result`, `Serve` the
eight writes of a task that is served from an entry, in their order. Any of
them may raise; the client then gets a 500 and no id, and the record stays as it
is. On a miss the request goes the way of `ResearchTask`.

`TaskLifecycle` is the abstract promise: queued, running, back to queued, and
one ending, or served from the cache; "completed" only with a result.
`disturbed` says that a call raised or a worker was struck; from then on a status
may be replaced, but "completed" still implies a result, a served task stays
served and no task vanishes. The detailed modules implement it under the mapping
`disturbed <- ~Calm` (`ImplementsLifecycle`).

### The main loop: TurnLoop

| State | Code |
|---|---|
| `pc` | where the loop awaits: `turn` (its head), `llm`, `calls`, `review` and `judge` (before and inside the evaluation of the agreement), `converge` |
| `turn`, `attempts`, `rollbacks`, `failures`, `fallback`, `exit` | `turn_count`, `total_attempts`, `consecutive_rollbacks`, `consecutive_llm_failures`, an unused fallback model, and why the loop ended |
| `batch`, `next`, `held` | the tool calls of the reply with their states, the next result to be processed, the results that carry `_scrape_slot_reserved` |
| `used`, `scrapeCount`, `reserved` | `used_queries`, `run_metrics.scrape_count`, `_scrape_slots_reserved` |
| `searchRounds`, `sources`, `revision`, `latest` | rounds, which source conditions hold, `evidence_revision`, and whether the latest evidence got into the message history |
| `agreement`, `checks`, `checked` | verdict, number of verdicts, `agreement_checked_revision` |
| `triggered`, `stopTurn`, `nudged` | the early-stop countdown and the nudge |
| `guidance`, `anchor`, `stagnant`, `followUps` | the verification gate and the lead follow-ups |

Calls run one after the other or, when no sub-agent is among them, all at once:
`StartCall` is the code up to the await of the tool, in the order `gather`
starts the coroutines, `ReturnCall` its end in any order, `RecordCall` the
processing of one result. In order, a result may take the turn back
(`RollsBack`, `Repeated`): its message is dropped, whatever was counted stays
counted. `Text`, `Note` and `Converge` keep the order of the code: the
verification gate, the leads, the nudge, then malformed replies. Numbers of
domains and confidences only matter through the two conditions they are compared
in (`sources`). The progress test of the verification gate compares rounds and
domains; domains only grow together with rounds, so rounds are enough.

### Sub-agents: SubAgent

`history` is `message_history` as kinds of messages with the number of calls a
reply makes and a result message answers; `at`, `turn`, `attempts`, `rollbacks`,
`failures`, `fallback` are the counters of `run_sub_agent`, `used` its
`used_queries`, and `finished`, `lost` and `trimmed` count what became of its
turns. `Answered` and `TurnBack` are the code after a tool call: the query is
recorded (`Recorded`) before the test whether the result takes the turn back
(`orchestrator:1455`), and the message with the calls is popped together with the
results.

### The final stage: FinalAnswer over LlmCall

`LlmCall` is one request loop: `index` and `cooling` are the key pool,
`clientKey` the key the SDK client was built with (at first `llm.api_key`, not
the pool's), `attempt`, `streak`, `degraded` and `thinking` the counters of
`_create_message`. A 429 rotates the key, and costs an attempt when the streak
reaches the pool (`RateLimited`, `RoundFailed`); a timeout gets one degraded
retry (`TimedOut`); a refused `enable_thinking` is dropped once. `FinalAnswer`
runs these calls through the end of `run_main_agent` and
`generate_and_finalize_answer`: `mode` is the configuration, `at` the place,
`history` the conversation as roles with what the stage tells apart (draft,
stub, ask, answer), `try`, `quality`, `report`, `boxed`, `available` and
`experience` the locals and the quality record, `delivered` that the report went
to the stream. `Usable`, `Degradable` and `Following` are its decisions about a
reply, the degraded report and what comes next.

### One tool call: ToolSession over its tools

`tool`, `stage`, `sessions` and `result` are `execute_tool_call`: it connects,
runs, closes, all under `asyncio.wait_for` (`Guarded`, `TimesOut`), and a scrape
that failed falls back to MarkItDown. A server may hang in every stage. So may
MarkItDown, a synchronous download on the event loop (`manager:357-362`), which
`wait_for` cannot cut short: `Guarded` leaves it out.

- `ProviderCall`: `request`, `attempt`, `index`, `cooling` per provider,
  `outcome` and `found` of its last request; SearXNG's check and repeats. A
  cooldown ends at any moment.
- `SearchRoute`: `config` is every setting an operator can make of modes,
  orders, strictness, downgrade, gate and limit; `route` and `pos` the order of
  this search and the place in it, `merged` the output as links with the providers
  that found them, `floor` and `passed` the tier and the confidence. Results of a
  parallel route arrive in any order; `Merge` is the merge with its demotions
  and its cut, and `mergeOrder` the list of providers it goes by: the route, and
  the trusted providers of a fallback that answered.
- `ScrapePage`: `hops`, `open`, `text`, `content`: redirects by hand with a
  check of every hop, a streamed read, extraction per kind, the cut at a
  sentence.
- `ExtractInfo`: `step`, `try`, `prompt`, `tier`: three retry loops with
  different exits and the shortening of a refused prompt.
- `Sandbox`: `boxStep`, `boxTry`, `boxes`: what a tool creates in the remote
  service, what it kills, and what a retry runs again. A sandbox whose creation
  raised is not counted: no code knows of it.

### Sources, claims and citations: SourceRegistry, ClaimSupport

`entries`, `index`, `next` are the registry (`_entries`, `_index`,
`next_source_id`), `steps` the stored bodies with the addresses they were found
under, `issued` a history of who was given which number. A redirected scrape
joins the entries of all its addresses (`FetchedNew`, `FetchedKnown`), a failed
one marks them, `Restore` rebuilds the index and the next number from what was stored.
`ClaimSupport` reads any such registry: `Verdicts` are all answers a model can
give about a claim, contradictory ones included, `Sanitized` and `Count` what
`sanitize_claim_map` and `independent_support` make of them, `CiteLink`,
`CiteNumber`, `CiteBoth` what `enforce_citations` does to a link, a number, and
both together.

### The web demo: StopRegistry, DemoLocal, DemoApi, Demo

`active`, `flag`, `signals` and `cancelled` are the registry in the Gradio
process under its lock; `stop`, `page`, `targets` the three steps of a click,
whose handler Gradio runs in a thread of its own, and `cuts` the runs Gradio is
to cancel for a click or a call, in no order with the handler: the run of the page
of the button, or what a session of the endpoint runs. The button works once the
first frame has brought a task to the page, so a click always names one.
`DemoLocal` has the pipeline threads (`thread`), the shared preload (`profile`),
the queue from thread to event loop (`box`, and `ready`, how much of it an
iteration of the loop has run) and the consumer (`run`; `got`, what the endpoint
has seen; `results`, what it stored). Of the events it keeps the sources, the
report (`Delivery`, put one after the other and dropped once the task is
cancelled, `Emit`) and the ending. `Closes` is the finally of the stream, after
which a run waits for its thread or not (`Waits`) and is dropped (`Finish`,
`Unwind`). `DemoApi` has the task on the server (`server`) and the viewers of its
stream (`view`, `holds`): the page that created it and one that was reloaded with
its id. A creation that is repeated after the server has carried it out makes a
second task; the first then goes on without anybody who knows of it, and is not
followed. `Demo` picks the backend once.

### The benchmark: Benchmark

`log` is the log file of every attempt and repetition: absent, torn, or its
status, answer and verdict. `at`, `attempt`, `retry`, `got`, `best`, `found`
are the locals of the worker process of a task; `Cut` and `PoolBreaks` end processes,
possibly in the middle of a save, and `StartAgain` goes on from the logs.

## 3. Runs

| Run | Instance | Shows |
|---|---|---|
| `storm` | a task, its cache and a reader; 2 attempts, pages of 2, 1 raising call of {enqueue, hget, status, expire, save, cache}, 1 timeout, shutdown or crash | `TypeOK`, `EventBeforeStatus`, `CompletedHasResult`, `CacheHoldsAnswer`, `DoneIsComplete`, `NoEventAfterTerminal`, `ImplementsLifecycle` |
| `quiet` | the same with fairness, 2 raising calls of {create, enqueue, hget, append, save, cache}, no strikes | `FinishedIsTerminal`, `AtMostOnePipeline`, `CancelTakesEffect`, `StreamCloses` |
| `loop` | 4 turns of batches of up to 2 searches, scrapes, sub-agents and other calls, a budget of 1 scrape, 2 verdicts, guidance, a lead, a fallback model | `TypeOK`, `BudgetHolds`, `SlotsReturned`, `NudgeIsFresh`, `ConvergedIsFresh`, `CountdownRestarts` |
| `final_answer` | both clients, 2 keys, 2 attempts a call, 2 tries for a summary, every configuration of the stage | `RequestsBounded`, `MarksUsedKey`, `AnswerHasReport`, `LastChanceDelivers`, `StageEnds` |
| `tools` | one call of any tool; 2 hops, 2 links, a keyed provider with 1 or 2 keys and SearXNG, every mode, order and gate; a server that may hang anywhere | `ResponsesClosed`, `NothingLost`, `PassedIsCovered`, `NoStraySandbox`, `LongPromptShrinks`, `ServerGivenUp` |
| `demo` | 2 runs on either backend, pages that reload, an endpoint, 1 click or call that stops | `NoOrphans`, `CachedIsWhole`, `StopReleases`, `RunEnds` |
| `claims` | 3 addresses, two of one site, 3 scrapes with a body, all verdicts | `OneEntryPerAddress`, `NumberKeepsItsPage`, `ExactIsGrounded`, `CitationsResolve` |
| `sub_agent` | 3 turns, batches of 2 calls, 2 queries, 2 failures, fewer than 3 rollbacks in a row | `ConversationHolds`, `WorkIsKept` |
| `benchmark` | 1 task, pass@2, 1 repetition, started 3 times | `CorrectIsKept`, `RepetitionsBounded` |
| `task_overwritten` | 1 attempt, 1 raising `EXPIRE` | violation of `TerminalIsFinal`, finding 1 |
| `loop_stale_exit` | 5 turns of searches and other calls in order, 1 rollback | violation of `EarlyExitIsFresh`, finding 2 |
| `demo_other_page` | 2 runs, 1 click | violation of `StopIsTargeted`, finding 3 |

What they show, in a sentence each:

- `EventBeforeStatus`: whoever sees a terminal status finds its event in the
  stream, unless appends fail. `DoneIsComplete`: a stream that closes has
  delivered the ending it names and everything before it, and a closed stream of
  a completed or served task has a result behind it. `NoEventAfterTerminal`: what
  an earlier attempt left behind does not write after the ending.
  `CacheHoldsAnswer`: degraded or unfinished research never serves another
  request.
- `FinishedIsTerminal`: nobody waits for ever for a job arq is done with.
  `AtMostOnePipeline`: retries do not repeat the research, unless a handler's own
  write of the status raises. `CancelTakesEffect`: a
  task that is asked to stop ends, also when its research never would.
- `BudgetHolds`, `SlotsReturned`: the scrape budget under parallel calls that
  fail, raise, or are cut short by a rollback. `NudgeIsFresh`, `ConvergedIsFresh`,
  `CountdownRestarts`: what ends research early rests on an agreement about the
  present evidence.
- `RequestsBounded`: rotations that cost no attempt cannot make a call endless.
  `MarksUsedKey`: only the key a request was sent with is put to rest, although
  the pool and the SDK client keep it twice. `AnswerHasReport`,
  `LastChanceDelivers`: an answer counts exactly when its report was delivered,
  and a last chance with anything to report delivers.
- `ResponsesClosed`, `NoStraySandbox`: no exit leaks a response or a sandbox.
  `NothingLost`: an empty answer means that nobody found anything; what the
  limit drops from a list that is not empty is not its subject.
  `PassedIsCovered`: a passed confidence is about the providers of the output.
  `LongPromptShrinks`: a retry makes progress. `ServerGivenUp`: wherever a server
  hangs, the timeout gives it up and closes the session; what is left of the call
  then is at most the download of MarkItDown.
- `NoOrphans`: marks in the registry do not outlive their tasks, whoever leaves
  first. `CachedIsWhole`: a report that is stored for others has its sources with
  it and is of a pipeline that succeeded, although the endpoint only looks for the
  report and the word "completed". `StopReleases`, `RunEnds`: a stopped page is released though its thread hangs, and every other
  run ends, also when the load it waits for fails.
- `OneEntryPerAddress`, `NumberKeepsItsPage`, `CitationsResolve`: no page has two
  numbers, no number two pages, and no citation leads to another source, whatever
  was redirected, retired and restored. `ExactIsGrounded`: a count of independent
  sources rests on that many different bodies.
- `ConversationHolds`: what is taken back leaves a conversation a provider
  accepts. `WorkIsKept`: taking back costs attempts and never finished work.
- `CorrectIsKept`, `RepetitionsBounded`: resuming from logs, torn ones included,
  neither forgets a correct answer nor repeats beyond the limit.

### Bounds

Every bound is a CONSTANT of the cfg; those that are not a parameter of the code
are marked "bound of the model" where they are declared.

- Two attempts show everything one attempt can do to its successor: a pipeline
  that was left behind, a replaced status. Two failures reach a failing handler
  of a failing step, the deepest nesting the code has. One strike at any await of
  either coroutine is combined with a failure. Pages of two events are smaller
  than the events of an attempt: the full, the short and the empty page occur.
- An early stop takes two search rounds and one verdict, a nudge and one more
  reply: four turns let newer evidence arrive at every place of that sequence.
  `MaxRollbacks` 2 means that one turn can be taken back and the next may not;
  two calls against a budget of one scrape are one too many. Batches with a
  sub-agent run in order, others at once, so that both occur in one run.
- Two keys and two attempts separate a rotation that is free from one that costs
  an attempt; two summary tries let a usable one come before or after a bad one.
- Two providers make every mode of merge and fallback differ, two links let one
  be cut from a list of one; three tries of the extraction let another failure
  come between two refused prompts. 5 and 3 tries of the sandbox are the code's.
- Two runs are what a click can confuse; three addresses allow a chain of
  redirects between two entries and a third to collide with.
- The tasks of a benchmark are independent processes over logs of their own; one
  task keeps the run small. Two tasks without a repetition and pass@2, and with
  one repetition and pass@1, were checked as well. Three starts let a resumed run
  be broken off and resumed again.

None of the bounds matters to what is proved (section 4).

`CHECK_DEADLOCK FALSE` is set where a system legitimately stops: the task and its
reader, the loop, a tool call, the demo. The final stage, the claims, the
sub-agent and the benchmark check deadlock, with a stuttering step at their end.

### Fairness

- `quiet`: event loops run what is ready (`WorkerStep`, the pipeline's own
  writes), arq polls its queue, the watcher polls on a timer, a connected reader
  is scheduled, and tool managers do close. There is none for `PipelineWorks`:
  research may take for ever, and cancelling it must work nevertheless. Closing
  managers is a real assumption; see "Said and not so".
- `final_answer`: the code between awaits runs (`StageStep`), the SDK ends every
  request after `LLM_HTTP_TIMEOUT_SECONDS`, and sleeps end (`Progress`).
- `tools`: the call is begun (`NoServer`, `Open`) and its timeout expires
  (`TimesOut`). None for servers, which may hang while they start, run or close,
  and none for MarkItDown.
- `demo`: event loop and threads run (`ConsumerStep`, `ThreadStep`), the handler
  of a click runs to its end. A pipeline may hang: `RunEnds` excepts it.

### Findings

1. `task_overwritten`. `docs/API_SPEC.md:154` calls the statuses terminal. An
   `EXPIRE` that raises after its `HSET` has published one sends the worker
   through its handlers, which write another.
2. `loop_stale_exit`. `orchestrator:327` says that only an agree verdict on the
   current evidence allows an early stop, `docs/DEEP_EFFICIENCY.md:82-84` that a
   stale one revokes the nudge. A turn that is taken back skips the place where
   that happens: evidence of such a turn leaves the nudge on an old verdict, and
   a model that fails next ends the research on it (`orchestrator:2168-2174`).
3. `demo_other_page`. `docs/ARCHITECTURE_zh.md:120` says that cancelling never
   falls back to everything. A click names the task of its page, and has Gradio
   cancel the run of that page as well (`ui_layout.py:621-628`). When that run
   leaves the registry before the handler of the click reads it, the handler takes
   every active task without a caller id (`main:4716-4721`), those of other pages.

### Said and not so

Further statements of the documentation that the models contradict. Where a
property states one, it stands in its module under a heading of this kind, with
the quoted place, and no run lists it.

| Statement | Place | What the model shows |
|---|---|---|
| an unresponsive pipeline is abandoned after ten seconds | `README.md:186`, `docs/CHANGELOG.md:245` | `asyncio.wait_for` waits for the task it cancels, whose shielded close of its managers (`pipeline:109-115`) may not end: under `LoopSpec` `CancelTakesEffect` fails |
| the latest evidence is judged | `orchestrator:891`, `VerdictSawEvidence` | the revision rises call by call, the history batch by batch; a turn that is taken back leaves evidence the judging model never saw |
| failed scrapes are no evidence | `docs/DEEP_EFFICIENCY.md:82`, `OnlyResultsAreEvidence` | "Error executing tool ..." is no JSON, and what is no JSON counts as a page (`orchestrator:530-532`) |
| stubs are not digested again by the final call | `docs/DEEP_EFFICIENCY.md:105-107`, `SummaryWithoutStubs` | the stage strips old stubs, and `summary_keep_tool_result` makes new ones of older results in the request itself (with two tool rounds) |
| a usable try survives a failure of a later one | `answer_generator:121-122`, `UsableReplySurvives` | a later empty or cut reply replaces it; without a long text of the research nothing is delivered |
| a degraded report is made of research text | `answer_generator:1498-1499`, `DegradedFromResearch` | the last long assistant text is taken, an unusable summary or the cross verification included |
| no tier demands what a route cannot meet | `providers/tiering.py:8-9`, `FloorAlwaysReachable` | fails in `parallel_conf_fallback` |
| `max_chars` is the maximum of the content | `search_and_scrape:2000-2001`, `ContentWithinCap` | a cut text gets a marker on top |
| a Stop reaches the server while the task lives | comment `main:4719-4720`, `StopIsHeard` | the page's own task may have left the registry though the server's runs on |
| a run nobody stopped is told how it ended | `tests/test_output_detail_level_routing.py`, `EndingHeard` | the consumer leaves when the future is done (`main:1762`) with the last puts still scheduled; stated of the endpoint |

Seen while modelling and outside the models: the fallback to MarkItDown blocks the
event loop for as long as its download takes, with no timeout around it
(`manager:357-362`); `safe_create_task` repeats every
`ApiClientError` although its docstring restricts it to network and 5xx errors
(`api_client.py:271`); the first SDK client is built with `llm.api_key` before
the pool exists (`openai_client.py:144` says otherwise); a failed attempt of a
benchmark never stores its failure experience, so a resumed run cannot tell it
(`pipeline:307-328`, `common_benchmark.py:342`); a command that exits non-zero in
a sandbox runs three times; the rollback limit `>= MAX` after a sub-agent's
repeated query is never reached; the reaper of stale logs (`main:4918-5044`)
reads, changes and replaces a log that its task may be saving.

## 4. Proofs

All proofs assume only the named `ASSUME`s of the modules, so they hold for any
number of attempts, turns, calls, keys, providers, tasks, addresses and
failures; sets that are counted (addresses, queries, providers) are finite. One
theorem has a hypothesis of its own, which stands with it below. The invariants
are layered: each is inductive relative to those before it. Every safety
property that a passing run checks has a theorem; the theorems that state one
are called like it, with `Always` at the end (types: `TypeCorrect`).

| Module | Properties proved |
|---|---|
| `ResearchStreamProofs` | `TypeOK`, `CompletedHasResult`, `CacheHoldsAnswer`, `EventBeforeStatus`, `FinishedIsTerminal`, `AtMostOnePipeline`, `NoEventAfterTerminal`, `DoneIsComplete`, `ImplementsLifecycle` (`TaskImplementsLifecycle`) |
| `TurnLoopProofs` | `TypeOK`, `BudgetHolds`, `SlotsReturned`, `NudgeIsFresh`, `ConvergedIsFresh`, `CountdownRestarts` |
| `FinalAnswerProofs` | `RequestsBounded`, `MarksUsedKey`, `AnswerHasReport`, `LastChanceDelivers` |
| `SubAgentProofs` | `ConversationHolds`, `WorkIsKept` |
| `ToolSessionProofs` | `ResponsesClosed`, `LongPromptShrinks`, `NoStraySandbox`, `NothingLost`, `PassedIsCovered` |
| `SourceRegistryProofs` | `OneEntryPerAddress`, `NumberKeepsItsPage`, `ExactIsGrounded`, `CitationsResolve` |
| `DemoProofs` | `NoOrphans`, `CachedIsWhole` |
| `BenchmarkProofs` | `RepetitionsBounded`, `CorrectIsKept` |

### One task, its cache and its reader

The first part of `ResearchStreamProofs` is about a task alone (`Spec`).
`TypeInv` adds to `TypeOK` that an event is only committed for a terminal goal.
`Control` says where the coroutine can be with which goal, that attempts not yet
run have touched nothing, and that the pipeline of an attempt has ended from the
registry step on. `ResultInv` carries "the result is stored" from the step that
stored it to the status write: the property alone is not inductive, because the
write of "completed" is two awaits later. `CacheInv` needs that nothing cancels a
pipeline that has ended (`EndedStays`). `EventInv` follows the announcement of an
ending from the event, or for "completed" from the pipeline's `final_output`, to
the status; it needs that the sink of a pipeline that is waited for is open
(`SinkOpen`). `EndingInv` says that an attempt arq has not finished with can
still write an ending; it rests on `Places`, which goals each handler can be
heading for. `RetryInv` says that nothing after the start of the pipeline leads
back to `Retry`. As in the runs, `FinishedIsTerminal` and `AtMostOnePipeline` name
the raising calls they exclude.

The second part adds the cache and a reader (`StreamSpec`). `ServeInv` separates
request and task: until the cache has been missed there is no job, and the writes
of a served task leave status, event and result one after the other; so the task's
invariants survive the steps of the request (`TaskInv`, whose consequences are
`TaskKeepsItsWord` and `TaskEndsOnce`). `CalmInv` is the exact protocol while
nothing goes wrong: every place of the coroutine goes with one status, and a
pipeline that runs is waited for. From it follow `NoEventAfterTerminal` and the
refinement: a calm step is one of the life cycle's own, any other one disturbs it,
and a status that changes does so without the result changing in the same step
(`OneOfBoth`). `ReaderInv` says what a reader that has seen an ending knows. It
needs that a stream only grows, that the ending a reader saw was announced in it,
and that the short page that closes it reaches the end of the stream.

### The main loop

`LoopInv` ties the counters to the place of the loop: rollbacks stay within
their limit, although a repeated query counts one without asking (`Repeated`),
because a turn is not begun at the limit. The budget is not inductive: a result
that is processed must give back a slot that exists. `HolderInv` says who holds
one: exactly the scrapes from `next` on that began within the budget and did not
raise; in a batch in order nothing after `next` has begun, so that a rollback
drops no holder. `SlotInv` counts them. `VerdictInv` says that countdown and
nudge stand on an agreement, fall before a new verdict is asked for, and that
only a turn that was taken back leaves a nudge behind newer evidence.

### The final stage and its calls

`CallInv` counts requests by rounds through the pool: an attempt has a round, the
streak of 429s is the part of it that is used up, and a degraded request may have
taken the attempt beyond the last. A bound on `sent` alone is not kept by a free
rotation. `KeyInv`: the pool and the SDK client agree about the key, unless the
client was never rotated. `MarksUsedKeyAlways` therefore assumes `OwnKey = 1`, as
its run does: the SDK client is built with `llm.api_key` before the pool exists, and
the property only holds when that is the first key of `OPENAI_API_KEYS` (or the
only one, which the code falls back to). `RotatedMarksUsedKeyAlways` is what holds
of every other configuration: the property from the first rotation on.
`StageInv` says at each place of the stage how report, quality and experience go
together, `LastChanceInv` that a long text has become a report before the claims
are adjudicated.

### Sub-agents

`Conversation` is stronger than what is checked: it says of every message with
results that it answers the message right before it, and `Pending` that a reply
whose calls are being made is the last message. Both ends of the conversation are
lemmas of their own (`ConversationGrows`, `ConversationShrinks`). `WorkIsKept`
counts: the messages with results are the finished turns, but the one that was
cut for want of space.

### One tool call

The tools share nothing but the call they run in (`OneToolMoves`), so each has an
invariant of its own: `PageInv` (one response is open exactly while it is decided
on or read), `ExtractInv` (a prompt has lost at most a unit for every attempt
behind it, so that the next cut is larger), `BoxInv` (every sandbox belongs to a
try, or to code that is about to be cleaned up).

`SearchInv` is the long one. `Requests` says that only providers that are asked
have requests, and that nobody has results but those and the ones a merge names.
`mergeOrder` is a variable for that reason: a fallback appends each trusted
provider that answered to the list of the merge, and whether a found link reaches
the output depends on that list, not on the route. `Places` keeps the floor within
the route, through each change of the tier (`FloorStaysReachable`), `MergedOk` says
that an empty merge means that nobody found anything (`MergeDelivers`: of the
results of a list, the one with the first turn survives demotion and cut), and
that a confidence that passed counts the providers of the very list it stands
beside.

### Sources, claims and citations

The invariant is `Shape` (the types, and that the numbers of entries are those
that were given), with `OneEntryPerAddress` and `NumberKeepsItsPage`. Joining
entries is the step that needs it: the entry that stays is the least of those
related to the scrape (`Canonical`, whose existence is the well-foundedness of the
naturals), every address of the others passes to it, and their numbers are retired
without being forgotten. `StepInv` has one case per operation. `BodyNamed` says that
every address a stored body was found under is one of the entry that cites it, so
that the bodies of two entries never share one, which is what `ExactIsGrounded`
counts. `CitationsResolve` is `OneEntryPerAddress` seen from the
report: among the citable sources an address leads to one.

### The demo and the benchmark

`DemoInv`: whatever is registered is held by a consumer or a viewer (`MarksHeld`),
so that leaving, in any order, can take the mark along. A stop may mark a task
between any two of these steps, and only while it is active.

`ReportInv` follows a report from the pipeline to the cache. That the endpoint has
seen "completed" and a report says nothing of the sources by itself: `Ordered`
says that sources are ahead of a report wherever it is, seen or in the queue
(`Ahead`), that they are on their way while the thread is between the two puts
and its task is not cancelled, and that "completed" is only heard of a thread that
has succeeded. `Phased` supplies that a stream that was left has its cancel event
set, so that nothing more is put, and that a stored report is never touched again.
A step of one task leaves the others as they are, but may wake their threads
(`Untouched`, `ElsewhereKept`); `PublishKeeps` and `TakeKeeps` are the two ends of
the queue.

The tasks of a benchmark share nothing but the process pool, so `BenchmarkInv` is
one statement about each task: `HistoryOk` (a log that was judged correct is the
newest of its attempt), `PlaceOk` (what the logs say at every place of the worker,
torn ones included), `CountsOk` (answers without a format against the number of
the repetition that follows the newest log) and `EndsOk` (a task that was brought to
its end without passing has no correct log). What a start finds is `FollowingIn`
of the logs alone: a process that is cut off takes nothing with it that the next
one needs.

### Only model-checked

Everything temporal that needs fairness: `CancelTakesEffect`, `StreamCloses`,
`StageEnds`, `ServerGivenUp`, `StopReleases`, `RunEnds`. Liveness is out of the prover's
reach. The three violations are counterexamples, not theorems.

## 5. Fault model

What may go wrong in the models: any call of the store, the queue or the cache
raises with or without effect; a job times out, a worker is shut down or crashes
and arq delivers again; a model answers nothing, nonsense, cut off, 429, times
out or fails; a tool raises, returns an error, hangs at any stage; a provider
fails, is empty, cools down; a page redirects anywhere; a thread hangs; a request
to the server is lost; a click is late; a benchmark is killed in the middle of a
save. What may not: Valkey loses or corrupts what it has acknowledged.

## 6. Not modelled

- `PipelineRuntime` but for its outcome: the shared `DictConfig`, the lock and
  the process environment would take two tasks in one process; the models follow
  one.
- Expiry of the record, trimming of long streams, heartbeats and disconnects of
  the SSE connection, the caller index behind `/v1/research/cancel` (its effect on
  one task is `CancelRequest`). A delete of a broken cache entry may race with
  another task's store; the code promises nothing about it.
- Rate limiting: each request is one step without an await; authentication and
  settings: stateless. Metrics, lifespan, input and output formatting, templates,
  trace tools: I/O and text.
- The task planner (parallel calls lose updates of a shared file that only the
  model reads), and the wrappers of vision, audio and Google search servers.
- The reaper of stale logs and the layout of the demo; `get_all_tool_definitions`,
  which lists tools one server after the other without a timeout.
- Wording of prompts, reports, logs and metrics; token counting; parsers of
  pages; finding leads in a text.

## 7. Plan

Left, in this order:

1. Proofs: the fairness-free halves of the liveness arguments (for each of them,
   what decreases and which action is enabled at every place), and the statements
   of "Said and not so" that hold under a condition on the configuration, with
   that condition (`FloorAlwaysReachable`, `TerminalIsFinalWhenCalm`).
2. `PipelineRuntime`: two tasks over one configuration and one environment.
3. The record's expiry beside its reader.
