----------------------------- MODULE SearchRoute -----------------------------
(***************************************************************************)
(* One google_search of the search tool: the providers of the route, the   *)
(* tier resolved from them, the four modes (serial fallback, serial merge, *)
(* parallel, parallel with a trusted fallback), the merge of the results,   *)
(* the confidence of the answer, and the second search without quotes.     *)
(*                                                                         *)
(* Delivered results are their links with the providers that discovered    *)
(* each; the order of delivered results is left out.                       *)
(* What confidence measures beyond providers and counts (domains, trusted  *)
(* domains, score) is one unknown bit.  The profile name and the wording of *)
(* the tier are left out: a tier is its coverage floor, and the floors 0,   *)
(* 1 and 2 are the tiers no-, single- and multi-provider.                   *)
(***************************************************************************)
EXTENDS ProviderCall, SequencesExt, FiniteSetsExt

CONSTANTS
  Modes,       \* values of SEARCH_PROVIDER_MODE
  Stricts,     \* values of SEARCH_PROVIDER_ORDER_STRICT
  Downgrades,  \* values of SEARCH_SEARXNG_ONLY_ALLOW_DOWNGRADE
  Gates,       \* values of SEARCH_CONFIDENCE_ENABLED
  Limits,      \* values of result_num
  MinSuccess,  \* SEARCH_PROVIDER_PARALLEL_MIN_SUCCESS
  MaxSteps,    \* SEARCH_PROVIDER_FALLBACK_MAX_STEPS
  MinResults   \* SEARCH_CONFIDENCE_MIN_RESULTS

ASSUME RouteAssumption ==
  /\ Modes \subseteq {"fallback", "merge", "parallel", "parallel_conf_fallback"}
  /\ Stricts \subseteq BOOLEAN /\ Downgrades \subseteq BOOLEAN
  /\ Gates \subseteq BOOLEAN /\ Limits \subseteq Nat \ {0}
  /\ MinSuccess \in Nat \ {0} /\ MaxSteps \in Nat \ {0} /\ MinResults \in Nat \ {0}

\* Orders an operator can configure: any of the providers, each once.
Orders == UNION {SetToAllKPermutations(S) : S \in SUBSET Providers}

\* A setting nobody reads is left at one value, and an order that the other
\* providers complete is given complete.
Configs ==
  {c \in [mode : Modes, order : Orders, trusted : Orders, strict : Stricts,
          downgrade : Downgrades, gate : Gates, limit : Limits] :
     /\ c.strict \/ ToSet(c.order) = Providers
     /\ IF c.mode = "parallel_conf_fallback"
        THEN ToSet(c.trusted) = Providers ELSE c.trusted = <<>>
     /\ c.mode = "fallback" => \A n \in Limits : c.limit <= n
     /\ ~(c.strict /\ c.order = <<"searxng">>) => c.downgrade = (TRUE \in Downgrades)}

VARIABLES
  config,    \* the settings of the server
  query,     \* quoted | plain | unquoted: what is being searched for
  phase,     \* idle | asking | merging | trusted | asked (a trusted
             \* provider) | serial | asked serially | done
  route,     \* providers: the order of this search
  mergeOrder,\* merge_order of the trusted fallback, the route before it
  downgraded,\* searxng_only_downgraded
  floor,     \* min_provider_coverage of tier_decision
  pos,       \* place in the order the loop walks
  steps,     \* fallback_steps
  merged,    \* merged_results, or organic_results of a serial fallback: from
             \* links to the providers in "discoveries"
  covered,   \* the providers confidence was evaluated with
  passed,    \* confidence.passed
  response   \* none | results | empty | refused | unconfigured

orderVars == <<route, mergeOrder, downgraded>>
searchVars == <<config, query, phase, orderVars, floor, pos, steps, merged,
                covered, passed, response>>
routeVars == <<searchVars, requestVars>>

RouteInit ==
  /\ RequestInit
  /\ config \in Configs
  /\ query \in {"quoted", "plain"} /\ phase = "idle"
  /\ route = <<>> /\ mergeOrder = <<>> /\ downgraded = FALSE
  /\ floor = 0 /\ pos = 1 /\ steps = 0
  /\ merged = <<>> /\ covered = {} /\ passed = FALSE /\ response = "none"

-----------------------------------------------------------------------------
(* Route and tier                                                          *)

\* ProviderRegistry.resolve_order: without strict, the available providers
\* the configuration does not name follow, in the order of registration.
ResolveOrder(order, strict) ==
  IF strict THEN order ELSE order \o SetToSeq(Providers \ ToSet(order))

\* _build_searxng_only_downgrade_providers.
Downgrade(order) ==
  IF config.downgrade /\ order = <<"searxng">>
  THEN order \o SetToSeq(Providers \ {"searxng"}) ELSE order

\* resolve_provider_tier: two providers are as good as more, a strict route
\* counts only those it names.
TierFloor(usable) ==
  LET S == IF config.strict THEN usable \cap ToSet(config.order) ELSE usable
  IN  Min({2, Cardinality(S)})

\* _recompute_tier_from_health.
Recompute(f, failed) ==
  IF failed = {} THEN f ELSE TierFloor(ToSet(route) \ failed)

\* _converge_tier_to_single_route.
Converge(f, contributors) ==
  IF Cardinality(contributors) = 1 /\ f > 1 THEN TierFloor(contributors) ELSE f

Failed == {p \in Providers : outcome[p] \in {"timeout", "error"}}
WithResults == {p \in Providers : outcome[p] = "ok"}

-----------------------------------------------------------------------------
(* Merging and confidence                                                  *)

\* When _merge_provider_results takes the k-th result of the i-th of n
\* providers: after the first of all of them come the second of all.
Turn(i, k, n) == (k - 1) * n + i

\* _merge_provider_results: turns are taken while there are fewer links than
\* the limit; a link taken before gains a discovery.
Merge(order, lists) ==
  LET n == Len(order)
      results(i) == DOMAIN lists[order[i]]
      before(t) == {l \in Links : \E i \in 1..n : \E k \in results(i) :
                      lists[order[i]][k] = l /\ Turn(i, k, n) < t}
      by(l) == {order[i] : i \in {j \in 1..n : \E k \in results(j) :
                  /\ lists[order[j]][k] = l
                  /\ Cardinality(before(Turn(j, k, n))) < config.limit}}
  IN  [l \in {m \in Links : by(m) # {}} |-> by(l)]

\* Variant: every provider that answered counts.
InOutput_Called(list, names) == names

\* _providers_in_output.  The second argument is who had results.
InOutput(list, names) == UNION {list[l] : l \in DOMAIN list}

\* The verdict of _evaluate_confidence on a list: enough results, enough of
\* the providers the route allows, and content that the model leaves open.
Verdict(list, names, allowed, f, content) ==
  LET needed == IF f > 0 THEN Max({1, Min({f, allowed})}) ELSE 0
  IN  content /\ Cardinality(DOMAIN list) >= MinResults /\ Cardinality(names) >= needed

-----------------------------------------------------------------------------
(* The search                                                              *)

Finish(how) == phase' = "done" /\ response' = how

\* An empty query.
Refuse ==
  /\ phase = "idle" /\ query = "plain"
  /\ Finish("refused")
  /\ UNCHANGED <<requestVars, config, query, orderVars, floor, pos,
                 steps, merged, covered, passed>>

\* perform_search starts: the providers, their tier and, in the parallel
\* modes, a task for each of them.
StartWith(order) ==
  /\ route' = order /\ mergeOrder' = order
  /\ downgraded' = (Len(order) > Len(ResolveOrder(config.order, config.strict)))
  /\ floor' = TierFloor(ToSet(order))
  /\ pos' = 1 /\ steps' = 0 /\ merged' = <<>> /\ covered' = {} /\ passed' = FALSE
  /\ IF config.mode \in {"parallel", "parallel_conf_fallback"}
     THEN /\ phase' = "asking"
          /\ Asked(ToSet(order), FALSE)
     ELSE /\ phase' = "serial"
          /\ request' = [p \in Providers |-> "idle"]
          /\ outcome' = [p \in Providers |-> "none"]
          /\ found' = [p \in Providers |-> <<>>]
          /\ UNCHANGED <<poolSize, attempt, index, cooling, checked>>

Start ==
  /\ phase = "idle"
  /\ LET order == Downgrade(ResolveOrder(config.order, config.strict))
     IN  IF order = <<>>
         THEN /\ Finish("unconfigured")
              /\ UNCHANGED <<requestVars, config, query, orderVars,
                             floor, pos, steps, merged, covered, passed>>
         ELSE StartWith(order) /\ UNCHANGED <<config, query, response>>

\* Something happens to a request.
RequestStep ==
  /\ \E p \in Providers : Progress(p)
  /\ UNCHANGED searchVars

RequestWaits ==
  /\ \E p \in Keyed : CooldownEnds(p)
  /\ UNCHANGED searchVars

\* The end of perform_search: without results a quoted query is searched
\* again without its quotes, once; one of nothing but quotes counts as plain.
ReturnList(list) ==
  IF DOMAIN list = {} /\ query = "quoted"
  THEN phase' = "idle" /\ query' = "unquoted" /\ UNCHANGED response
  ELSE /\ Finish(IF DOMAIN list = {} THEN "empty" ELSE "results")
       /\ UNCHANGED query

\* The parallel phase ends when every task has, or at the deadline; the rest
\* is cancelled.
Join ==
  /\ phase = "asking"
  /\ GivenUp(Running)
  /\ phase' = "merging"
  /\ UNCHANGED <<config, query, orderVars, floor, pos, steps, merged,
                 covered, passed, response>>

\* The results of the parallel phase become the answer, or the base of the
\* trusted fallback.
MergeParallel ==
  /\ phase = "merging"
  /\ \E content \in BOOLEAN, list \in {Merge(route, found)} :
       LET names == InOutput(list, WithResults)
           f == Converge(Recompute(floor, Failed), names)
           good == Verdict(list, names, Len(route), f, content)
           enough == Cardinality(WithResults) >= MinSuccess
       IN  /\ merged' = list /\ covered' = names /\ floor' = f /\ passed' = good
           /\ IF config.mode = "parallel" \/ ((good \/ ~config.gate) /\ enough)
              THEN ReturnList(list)
              ELSE phase' = "trusted" /\ UNCHANGED <<query, response>>
  /\ UNCHANGED <<requestVars, config, orderVars, pos, steps>>

TrustedOrder == ResolveOrder(config.trusted, FALSE)

\* Variant: only the route is merged.
MergeOrder_RouteOnly == route

\* The route, and the providers that only the fallback asked: the last one is
\* appended when it brought results.
MergeOrder ==
  LET p == TrustedOrder[pos - 1]
  IN  IF outcome[p] = "ok" /\ p \notin ToSet(mergeOrder)
      THEN Append(mergeOrder, p) ELSE mergeOrder

\* The next trusted provider that has not delivered yet is asked.
AskTrusted ==
  /\ phase = "trusted" /\ Running = {}
  /\ steps < MaxSteps /\ pos <= Len(TrustedOrder)
  /\ pos' = pos + 1
  /\ IF TrustedOrder[pos] \in WithResults
     THEN UNCHANGED <<requestVars, steps, phase>>
     ELSE /\ \E again \in {FALSE, checked} : Asked({TrustedOrder[pos]}, again)
          /\ steps' = steps + 1
          /\ phase' = "asked"
  /\ UNCHANGED <<config, query, orderVars, floor, merged, covered,
                 passed, response>>

\* Its answer is merged and judged by the floor of the parallel phase.
TrustedAnswered ==
  /\ phase = "asked" /\ Running = {}
  /\ mergeOrder' = MergeOrder
  /\ \E content \in BOOLEAN, list \in {Merge(MergeOrder, found)} :
       LET names == InOutput(list, WithResults)
           good == Verdict(list, names, Len(MergeOrder), floor, content)
       IN  /\ merged' = list /\ covered' = names /\ passed' = good
           /\ IF /\ good \/ ~config.gate
                 /\ Cardinality(WithResults) >= MinSuccess
              THEN ReturnList(list)
              ELSE phase' = "trusted" /\ UNCHANGED <<query, response>>
  /\ UNCHANGED <<requestVars, config, route, downgraded, floor, pos, steps>>

\* Nobody is left, or nobody more may be asked.
TrustedEnds ==
  /\ phase = "trusted" /\ Running = {}
  /\ steps >= MaxSteps \/ pos > Len(TrustedOrder)
  /\ ReturnList(merged)
  /\ UNCHANGED <<requestVars, config, orderVars, floor, pos, steps,
                 merged, covered, passed>>

\* The serial modes: the next provider is asked.
AskNext ==
  /\ phase = "serial" /\ Running = {} /\ pos <= Len(route)
  /\ \E again \in {FALSE, checked} : Asked({route[pos]}, again)
  /\ phase' = "asked serially"
  /\ UNCHANGED <<config, query, orderVars, floor, pos, steps, merged,
                 covered, passed, response>>

\* _ensure_confidence_evaluated for a serial search.
Judge(list, names, f) ==
  \E content \in BOOLEAN :
    /\ covered' = names
    /\ passed' = Verdict(list, names, Len(route), f, content)

\* Serial fallback: the first provider with results is the answer, whatever
\* their number.
FirstHit ==
  /\ phase = "asked serially" /\ Running = {} /\ config.mode = "fallback"
  /\ outcome[route[pos]] = "ok"
  /\ LET p == route[pos]
         list == [l \in ToSet(found[p]) |-> {p}]
         f == Converge(Recompute(floor, Failed), {p})
     IN  merged' = list /\ floor' = f /\ Judge(list, {p}, f)
  /\ Finish("results")
  /\ UNCHANGED <<requestVars, config, query, orderVars, pos, steps>>

\* Serial merge: another list to merge; it stops when there are enough
\* results of enough providers.
MergeNext ==
  /\ phase = "asked serially" /\ Running = {} /\ config.mode = "merge"
  /\ outcome[route[pos]] = "ok"
  /\ \E list \in {Merge(route, found)} :
         /\ merged' = list
         /\ pos' = IF /\ Cardinality(DOMAIN list) >= config.limit
                      /\ Cardinality(InOutput(list, WithResults)) >= floor
                   THEN Len(route) + 1 ELSE pos + 1
  /\ phase' = "serial"
  /\ UNCHANGED <<requestVars, config, query, orderVars, floor, steps,
                 covered, passed, response>>

\* A provider without results: the next one.
NoHit ==
  /\ phase = "asked serially" /\ Running = {} /\ outcome[route[pos]] # "ok"
  /\ pos' = pos + 1 /\ phase' = "serial"
  /\ UNCHANGED <<requestVars, config, query, orderVars, floor, steps,
                 merged, covered, passed, response>>

\* The loop is over: what a merge has gathered, or nothing.  Without a
\* contributor the name in "provider" counts as covered.
SerialEnds ==
  /\ phase = "serial" /\ Running = {} /\ pos > Len(route)
  /\ LET contributors == InOutput(merged, WithResults)
         f == Converge(Recompute(floor, Failed), contributors)
         named == IF config.mode = "merge" THEN "multi-route" ELSE route[Len(route)]
     IN  /\ floor' = f
         /\ Judge(merged, IF contributors = {} THEN {named} ELSE contributors, f)
  /\ ReturnList(merged)
  /\ UNCHANGED <<requestVars, config, orderVars, pos, steps, merged>>

RouteNext ==
  \/ Refuse \/ Start \/ RequestStep \/ RequestWaits \/ Join
  \/ MergeParallel \/ AskTrusted \/ TrustedAnswered \/ TrustedEnds
  \/ AskNext \/ FirstHit \/ MergeNext \/ NoHit \/ SerialEnds

\* The process of the server is gone, and with it all it knew.
RouteForgotten ==
  /\ query' = "plain" /\ phase' = "idle" /\ route' = <<>> /\ mergeOrder' = <<>>
  /\ downgraded' = FALSE /\ floor' = 0 /\ pos' = 1 /\ steps' = 0
  /\ merged' = <<>> /\ covered' = {} /\ passed' = FALSE
  /\ response' = "none"
  /\ RequestForgotten
  /\ UNCHANGED config

-----------------------------------------------------------------------------
(* Properties                                                              *)

Delivered == response = "results"

\* The demotion, the merge and the cut of the last search never leave an empty
\* answer to the caller where somebody found something.
NothingLost == response = "empty" => \A p \in Providers : found[p] = <<>>

\* The confidence says "passed" only of an answer whose own results come
\* from as many providers as the tier demands.
PassedIsCovered ==
  Delivered /\ passed =>
    Cardinality(UNION {merged[l] : l \in DOMAIN merged}) >= floor

-----------------------------------------------------------------------------
(* Said by the documentation, and not so: no run lists these properties  *)

\* The floor of a delivered answer is one its route could reach: tiering.py:8-9
\* rules out a demand that the route cannot meet structurally.  It holds of
\* every mode but parallel_conf_fallback.
FloorAlwaysReachable ==
  Delivered => floor <= Cardinality(InOutput(merged, {}))
=============================================================================
