-------------------------- MODULE ToolSessionProofs --------------------------
(***************************************************************************)
(* Theorems about a tool call, for every tool, every configuration of the  *)
(* search, and every bound on hops, tries, keys, results and providers.    *)
(*                                                                         *)
(* The tools share nothing but the call they run in, so each has an        *)
(* invariant of its own.                                                   *)
(***************************************************************************)
EXTENDS ToolSession, FiniteSetTheorems, WellFoundedInduction, TLAPS

\* A step of the call is one of at most one tool, or ends the search server.
LEMMA OneToolMoves ==
  ASSUME [Next]_vars
  PROVE  /\ PageNext \/ UNCHANGED pageVars
         /\ (step # "done" /\ ExtractNext) \/ UNCHANGED extractVars
         /\ BoxNext \/ UNCHANGED boxVars
         /\ (phase # "done" /\ RouteNext) \/ RouteForgotten \/ UNCHANGED routeVars
<1>1. CASE NoServer \/ Open \/ Connect \/ ToolAnswers \/ ToolFails \/ MarkItDown
  <2>1. Idle
    BY <1>1 DEF NoServer, Open, Connect, ToolAnswers, ToolFails, MarkItDown, Answer
  <2>. QED
    BY <2>1 DEF Idle
<1>2. CASE Breaks \/ Close \/ TimesOut
  <2>1. ServerExits
    BY <1>2 DEF Breaks, Close, TimesOut
  <2>. QED
    BY <2>1 DEF ServerExits
<1>3. CASE RunPage
  BY <1>3 DEF RunPage
<1>4. CASE RunExtract
  BY <1>4 DEF RunExtract
<1>5. CASE RunSearch
  BY <1>5 DEF RunSearch
<1>6. CASE RunSandbox
  BY <1>6 DEF RunSandbox
<1>7. CASE UNCHANGED vars
  BY <1>7 DEF vars
<1>. QED
  BY <1>1, <1>2, <1>3, <1>4, <1>5, <1>6, <1>7 DEF Next

-----------------------------------------------------------------------------
(* scrape_url                                                              *)

\* One response is open from the answer of a server to the end of its body or
\* the next hop, and none at any other place.
PageInv ==
  /\ pageStep \in {"idle", "sending", "deciding", "reading", "extracting", "done"}
  /\ open = IF pageStep \in {"deciding", "reading"} THEN 1 ELSE 0

LEMMA PageInitially == Init => PageInv
BY DEF Init, PageInit, PageInv

LEMMA PageKeeps == PageInv /\ [Next]_vars => PageInv'
<1>. SUFFICES ASSUME PageInv, [Next]_vars PROVE PageInv'
  OBVIOUS
<1>1. PageNext \/ UNCHANGED pageVars
  BY OneToolMoves
<1>2. CASE CheckAddress \/ SendFails \/ BodyFails \/ ExtractFails
  <2>1. CASE \E why : PageFails(why)
    <3>1. pageStep' = "done" /\ open' = IF pageStep = "reading" THEN open - 1 ELSE open
      BY <2>1 DEF PageFails
    <3>2. pageStep # "deciding"
      BY <1>2 DEF CheckAddress, SendFails, BodyFails, ExtractFails
    <3>. QED
      BY <3>1, <3>2 DEF PageInv
  <2>2. CASE pageStep = "idle" /\ pageStep' = "sending" /\ UNCHANGED open
    BY <2>2 DEF PageInv
  <2>. QED
    BY <1>2, <2>1, <2>2 DEF CheckAddress, SendFails, BodyFails, ExtractFails
<1>3. CASE Send
  BY <1>3 DEF Send, PageInv, Responses
<1>4. CASE Redirect
  BY <1>4 DEF Redirect, CloseHop, PageInv
<1>5. CASE ReadHeaders
  BY <1>5 DEF ReadHeaders, PageInv
<1>6. CASE ReadBody
  BY <1>6 DEF ReadBody, PageInv
<1>7. CASE Extract
  BY <1>7 DEF Extract, PageInv
<1>8. CASE UNCHANGED pageVars
  BY <1>8 DEF pageVars, PageInv
<1>. QED
  BY <1>1, <1>2, <1>3, <1>4, <1>5, <1>6, <1>7, <1>8 DEF PageNext

\* However a scrape ends, after whatever chain of redirects, no response of it
\* is left open (the closing of every hop and the finally of scrape_url).
THEOREM ResponsesClosedAlways == Spec => []ResponsesClosed
<1>1. PageInv => ResponsesClosed
  BY DEF PageInv, ResponsesClosed
<1>. QED
  BY <1>1, PageInitially, PageKeeps, PTL DEF Spec

-----------------------------------------------------------------------------
(* scrape_and_extract_info                                                 *)

\* Nobody has asked the LLM before the page is there, and the prompt has lost
\* at most a unit for every attempt behind it: the next cut is larger.
ExtractInv ==
  /\ step \in {"idle", "jina", "python", "summary", "done"}
  /\ try \in Nat /\ size \in Nat /\ prompt \in Nat
  /\ step \in {"idle", "jina", "python"} => last = "none"
  /\ step = "summary" => prompt >= size - try

LEMMA ExtractInitially == Init => ExtractInv
BY DEF Init, ExtractInit, ExtractInv

LEMMA ExtractStep ==
  ASSUME ExtractInv, ExtractNext
  PROVE  ExtractInv' /\ (last' = "context" => prompt' < prompt)
<1>1. CASE RefusePage \/ StartExtract
  BY <1>1 DEF RefusePage, StartExtract, Conclude, ExtractInv
<1>2. CASE ScrapeRetries \/ ScrapeRefused
  BY <1>2, ExtractAssumption
     DEF ScrapeRetries, ScrapeRefused, ScrapeGivesUp, Conclude, ExtractInv
<1>3. CASE Scraped
  BY <1>3, ExtractAssumption DEF Scraped, Conclude, ExtractInv
<1>4. CASE Repeats \/ SummaryRetries \/ TierRefused
  BY <1>4, ExtractAssumption
     DEF Repeats, SummaryRetries, TierRefused, AfterLoop, Conclude, ExtractInv
<1>5. CASE TooLong
  BY <1>5, ExtractAssumption DEF TooLong, Shortened, AfterLoop, Conclude, ExtractInv
<1>6. CASE SummaryFails \/ Summarized
  BY <1>6 DEF SummaryFails, Summarized, Conclude, ExtractInv
<1>. QED
  BY <1>1, <1>2, <1>3, <1>4, <1>5, <1>6 DEF ExtractNext

\* A prompt the model found too long is never sent again as long as before
\* (get_prompt_with_truncation), whatever failed in between.
THEOREM LongPromptShrinksAlways == Spec => LongPromptShrinks
<1>1. ExtractInv /\ [Next]_vars =>
        /\ ExtractInv'
        /\ [last' = "context" => prompt' < prompt]_extractVars
  <2>. SUFFICES ASSUME ExtractInv, [Next]_vars
                PROVE  /\ ExtractInv'
                       /\ [last' = "context" => prompt' < prompt]_extractVars
    OBVIOUS
  <2>1. ExtractNext \/ UNCHANGED extractVars
    BY OneToolMoves
  <2>2. CASE ExtractNext
    BY <2>2, ExtractStep
  <2>3. CASE UNCHANGED extractVars
    BY <2>3 DEF extractVars, ExtractInv
  <2>. QED
    BY <2>1, <2>2, <2>3
<1>. QED
  BY <1>1, ExtractInitially, PTL DEF Spec, LongPromptShrinks

-----------------------------------------------------------------------------
(* The tools of the Python server                                          *)

\* Every sandbox that runs on is one a try of create_sandbox has left, or the
\* one of stateless code that is about to be killed or could not be.
BoxInv ==
  /\ boxes \in Nat /\ boxTry \in Nat
  /\ boxStep \in {"idle", "creating", "connecting", "preparing", "running", "code",
                  "killing", "done"}
  /\ boxTool = "create" => /\ boxStep \in {"idle", "creating", "done"}
                           /\ boxes <= CreateTries
                           /\ boxAnswer = "id" => boxes > 0
  /\ boxStep = "idle" => boxTry = 1 /\ boxes = 0
  /\ boxStep = "creating" =>
       boxTool = "create" /\ boxTry <= CreateTries /\ boxes < boxTry
  /\ boxTool # "create" =>
       /\ boxes = IF boxStep = "killing" \/ (boxStep = "done" /\ killFailed)
                  THEN 1 ELSE 0
       /\ boxAnswer # "id"
  /\ killFailed => boxStep = "done"

LEMMA BoxInitially == Init => BoxInv
BY BoxAssumption DEF Init, BoxInit, BoxInv

LEMMA BoxStep ==
  ASSUME BoxInv, BoxNext
  PROVE  BoxInv'
<1>1. CASE StartBox
  BY <1>1, BoxAssumption DEF StartBox, BoxReturns, BoxInv
<1>2. CASE CreateBox
  BY <1>2, BoxAssumption DEF CreateBox, BoxReturns, Retry, BoxInv
<1>3. CASE ConnectBox
  BY <1>3 DEF ConnectBox, BoxReturns, BoxInv
<1>4. CASE UploadFile \/ DownloadFile \/ PrepareFetch
  BY <1>4 DEF UploadFile, DownloadFile, PrepareFetch, FileTool, BoxReturns, BoxInv
<1>5. CASE RunCommand \/ RunCode \/ Wget
  BY <1>5 DEF RunCommand, RunCode, Wget, Try, Retry, BoxReturns, BoxInv
<1>6. CASE RunStateless
  BY <1>6 DEF RunStateless, BoxReturns, BoxInv
<1>7. CASE KillBox
  BY <1>7 DEF KillBox, BoxReturns, BoxInv
<1>. QED
  BY <1>1, <1>2, <1>3, <1>4, <1>5, <1>6, <1>7 DEF BoxNext

LEMMA BoxKeeps == BoxInv /\ [Next]_vars => BoxInv'
<1>. SUFFICES ASSUME BoxInv, [Next]_vars PROVE BoxInv'
  OBVIOUS
<1>1. BoxNext \/ UNCHANGED boxVars
  BY OneToolMoves
<1>2. CASE UNCHANGED boxVars
  BY <1>2 DEF boxVars, BoxInv
<1>. QED
  BY <1>1, <1>2, BoxStep

\* A tool of the Python server leaves no sandbox behind that nobody can name,
\* however its code and its retries end (the finally of run_python_code, the
\* loop of create_sandbox).
THEOREM NoStraySandboxAlways == Spec => []NoStraySandbox
<1>1. BoxInv => NoStraySandbox
  BY BoxAssumption DEF BoxInv, NoStraySandbox
<1>. QED
  BY <1>1, BoxInitially, BoxKeeps, PTL DEF Spec

-----------------------------------------------------------------------------
(* google_search: orders of providers                                      *)

\* A sequence names no more providers than it is long.
LEMMA NamesBounded ==
  ASSUME NEW T, NEW s \in Seq(T)
  PROVE  /\ ToSet(s) \subseteq T /\ IsFiniteSet(ToSet(s))
         /\ Cardinality(ToSet(s)) \in Nat /\ Cardinality(ToSet(s)) <= Len(s)
<1>1. Len(s) \in Nat /\ DOMAIN s = 1..Len(s)
  OBVIOUS
<1>2. IsFiniteSet(1..Len(s)) /\ Cardinality(1..Len(s)) = Len(s)
  BY <1>1, FS_Interval
<1>3. s \in Surjection(1..Len(s), ToSet(s))
  BY <1>1 DEF Surjection, ToSet
<1>4. IsFiniteSet(ToSet(s)) /\ Cardinality(ToSet(s)) <= Len(s)
  BY <1>2, <1>3, FS_Surjection
<1>. QED
  BY <1>1, <1>4, FS_CardinalityType DEF ToSet

\* Providers can be counted.
LEMMA ProvidersFinite ==
  ASSUME NEW S, S \subseteq Providers
  PROVE  IsFiniteSet(S) /\ Cardinality(S) \in Nat
<1>1. IsFiniteSet(Providers)
  BY CallAssumption, FS_Union DEF Providers
<1>2. IsFiniteSet(S)
  BY <1>1, FS_Subset
<1>. QED
  BY <1>2, FS_CardinalityType

\* A set of providers put in some order is a sequence of them.
LEMMA SetToSeqType ==
  ASSUME NEW S, S \subseteq Providers
  PROVE  SetToSeq(S) \in Seq(Providers)
<1>1. Cardinality(S) \in Nat /\ ExistsBijection(1..Cardinality(S), S)
  BY ProvidersFinite, FS_CardinalityType
<1>2. \E f \in [1..Cardinality(S) -> S] : IsInjective(f)
  BY <1>1 DEF ExistsBijection, Bijection, Injection
<1>3. SetToSeq(S) \in [1..Cardinality(S) -> S]
  BY <1>2 DEF SetToSeq
<1>4. SetToSeq(S) \in Seq(S)
  BY <1>1, <1>3
<1>. QED
  BY <1>4

\* What an operator can configure is a sequence of providers.
LEMMA OrdersAreSequences == Orders \subseteq Seq(Providers)
<1>. SUFFICES ASSUME NEW s \in Orders PROVE s \in Seq(Providers)
  OBVIOUS
<1>1. PICK S \in SUBSET Providers : s \in SetToAllKPermutations(S)
  BY DEF Orders
<1>2. PICK T \in SUBSET S : s \in SetToSeqs(T)
  BY <1>1 DEF SetToAllKPermutations
<1>3. Cardinality(T) \in Nat
  BY ProvidersFinite
<1>4. s \in [1..Cardinality(T) -> T]
  BY <1>2 DEF SetToSeqs
<1>5. s \in Seq(T)
  BY <1>3, <1>4
<1>. QED
  BY <1>5

\* What the settings say, and the orders made from them.
Settings ==
  /\ config.mode \in {"fallback", "merge", "parallel", "parallel_conf_fallback"}
  /\ config.order \in Seq(Providers) /\ config.trusted \in Seq(Providers)
  /\ config.limit \in Nat \ {0}

LEMMA ConfigsAreSettings == config \in Configs => Settings
<1>. SUFFICES ASSUME config \in Configs PROVE Settings
  OBVIOUS
<1>1. /\ config.mode \in Modes /\ config.order \in Orders /\ config.trusted \in Orders
      /\ config.limit \in Limits
  BY DEF Configs
<1>. QED
  BY <1>1, OrdersAreSequences, RouteAssumption DEF Settings

\* resolve_order gives a sequence of providers, and so does the downgrade.
LEMMA ResolvedAreSequences ==
  ASSUME NEW s \in Seq(Providers), NEW strict
  PROVE  ResolveOrder(s, strict) \in Seq(Providers)
<1>1. SetToSeq(Providers \ ToSet(s)) \in Seq(Providers)
  BY SetToSeqType
<1>. QED
  BY <1>1 DEF ResolveOrder

LEMMA RoutesAreSequences ==
  ASSUME Settings
  PROVE  /\ Downgrade(ResolveOrder(config.order, config.strict)) \in Seq(Providers)
         /\ TrustedOrder \in Seq(Providers)
<1>1. ResolveOrder(config.order, config.strict) \in Seq(Providers)
  BY ResolvedAreSequences DEF Settings
<1>2. SetToSeq(Providers \ {"searxng"}) \in Seq(Providers)
  BY SetToSeqType
<1>3. TrustedOrder \in Seq(Providers)
  BY ResolvedAreSequences DEF Settings, TrustedOrder
<1>. QED
  BY <1>1, <1>2, <1>3 DEF Downgrade

-----------------------------------------------------------------------------
(* google_search: tiers                                                    *)

\* Min and Max of two numbers.
LEMMA SmallerOfTwo ==
  ASSUME NEW a \in Int, NEW b \in Int
  PROVE  /\ Min({a, b}) \in {a, b} /\ Min({a, b}) <= a /\ Min({a, b}) <= b
         /\ Max({a, b}) \in {a, b} /\ Max({a, b}) >= a /\ Max({a, b}) >= b
<1>1. \E x \in {a, b} : \A y \in {a, b} : x <= y
  BY a <= b \/ b <= a
<1>2. \E x \in {a, b} : \A y \in {a, b} : x >= y
  BY a <= b \/ b <= a
<1>3. Min({a, b}) \in {a, b} /\ \A y \in {a, b} : Min({a, b}) <= y
  BY <1>1 DEF Min
<1>4. Max({a, b}) \in {a, b} /\ \A y \in {a, b} : Max({a, b}) >= y
  BY <1>2 DEF Max
<1>. QED
  BY <1>3, <1>4

\* The floor of a tier is one that the usable providers can reach.
LEMMA TierReachable ==
  ASSUME NEW S, S \subseteq Providers
  PROVE  /\ TierFloor(S) \in 0..2 /\ TierFloor(S) <= Cardinality(S)
<1>. DEFINE U == IF config.strict THEN S \cap ToSet(config.order) ELSE S
<1>1. U \subseteq S /\ IsFiniteSet(S) /\ Cardinality(S) \in Nat /\ Cardinality(U) \in Nat
  BY ProvidersFinite
<1>2. Cardinality(U) <= Cardinality(S)
  BY <1>1, FS_Subset
<1>3. TierFloor(S) = Min({2, Cardinality(U)})
  BY DEF TierFloor
<1>. HIDE DEF U
<1>4. 2 \in Int /\ Cardinality(U) \in Int
  BY <1>1
<1>5. /\ Min({2, Cardinality(U)}) \in {2, Cardinality(U)}
      /\ Min({2, Cardinality(U)}) <= 2 /\ Min({2, Cardinality(U)}) <= Cardinality(U)
  BY <1>4, SmallerOfTwo
<1>. QED
  BY <1>1, <1>2, <1>3, <1>5

\* Neither the health of the providers nor a single contributor raises the
\* floor above what the route can reach.
LEMMA FloorStaysReachable ==
  ASSUME route \in Seq(Providers), NEW f \in 0..2, f <= Len(route), NEW failed,
         NEW names, names \subseteq Providers
  PROVE  LET g == Converge(Recompute(f, failed), names)
         IN  g \in 0..2 /\ g <= Len(route)
<1>1. /\ ToSet(route) \subseteq Providers /\ IsFiniteSet(ToSet(route))
      /\ Cardinality(ToSet(route)) \in Nat /\ Cardinality(ToSet(route)) <= Len(route)
  BY NamesBounded
<1>2. Recompute(f, failed) \in 0..2 /\ Recompute(f, failed) <= Len(route)
  <2>1. CASE failed = {}
    BY <2>1 DEF Recompute
  <2>2. CASE failed # {}
    <3>. DEFINE S == ToSet(route) \ failed
    <3>1. S \subseteq Providers /\ Cardinality(S) \in Nat
      BY <1>1, ProvidersFinite
    <3>2. Cardinality(S) <= Cardinality(ToSet(route))
      BY <1>1, FS_Subset
    <3>3. TierFloor(S) \in 0..2 /\ TierFloor(S) <= Cardinality(S)
      BY <3>1, TierReachable
    <3>4. Recompute(f, failed) = TierFloor(S)
      BY <2>2 DEF Recompute
    <3>. HIDE DEF S
    <3>. QED
      BY <1>1, <3>1, <3>2, <3>3, <3>4
  <2>. QED
    BY <2>1, <2>2
<1>3. TierFloor(names) \in 0..2 /\ TierFloor(names) <= Cardinality(names)
  BY TierReachable
<1>. QED
  BY <1>2, <1>3 DEF Converge

\* A verdict that is good has enough providers behind it, if the route allows
\* them, and results.
LEMMA GoodIsCovered ==
  ASSUME NEW list, NEW names, NEW allowed \in Nat, NEW f \in 0..2, f <= allowed,
         NEW known \in BOOLEAN, Cardinality(names) \in Nat,
         Verdict(list, names, allowed, f, known)
  PROVE  Cardinality(names) >= f /\ DOMAIN list # {}
<1>. DEFINE needed == IF f > 0 THEN Max({1, Min({f, allowed})}) ELSE 0
<1>1. Cardinality(names) >= needed /\ Cardinality(DOMAIN list) >= MinResults
  BY DEF Verdict
<1>2. needed >= f /\ needed \in Int
  <2>. DEFINE m == Min({f, allowed})
  <2>1. f \in Int /\ allowed \in Int
    OBVIOUS
  <2>2. m \in {f, allowed} /\ m <= f /\ m <= allowed
    BY <2>1, SmallerOfTwo
  <2>3. m = f
    BY <2>1, <2>2
  <2>4. 1 \in Int /\ m \in Int
    BY <2>1, <2>3
  <2>. HIDE DEF m
  <2>5. Max({1, m}) \in {1, m} /\ Max({1, m}) >= m
    BY <2>4, SmallerOfTwo
  <2>6. needed = IF f > 0 THEN Max({1, m}) ELSE 0
    BY DEF m
  <2>. QED
    BY <2>1, <2>3, <2>4, <2>5, <2>6
<1>3. Cardinality({}) = 0
  BY FS_EmptySet
<1>. HIDE DEF needed
<1>. QED
  BY <1>1, <1>2, <1>3, RouteAssumption

-----------------------------------------------------------------------------
(* google_search: merging                                                  *)

Less == {p \in Nat \X Nat : p[1] < p[2]}

LEMMA LessIsWellFounded == IsWellFoundedOn(Less, Nat)
BY NatLessThanWellFounded DEF OpToRel, Less

\* The first of the places in a set.
LEMMA FirstExists ==
  ASSUME NEW S, S \subseteq Nat, S # {}
  PROVE  \E i \in S : \A j \in S : i <= j
<1>1. PICK i \in S : \A j \in S : ~(<<j, i>> \in Less)
  BY LessIsWellFounded, WFMin
<1>2. ASSUME NEW j \in S PROVE i <= j
  <2>1. ~(<<j, i>> \in Less) /\ <<j, i>> \in Nat \X Nat
    BY <1>1
  <2>2. ~(j < i)
    BY <2>1 DEF Less
  <2>. QED
    BY <2>2
<1>. QED
  BY <1>2

\* A merge delivers something if a provider it names has found anything: the
\* first result of the first such provider is taken before all others.
LEMMA MergeDelivers ==
  ASSUME Settings, NEW order \in Seq(Providers), NEW lists \in [Providers -> ResultLists],
         NEW p \in ToSet(order), lists[p] # <<>>
  PROVE  DOMAIN Merge(order, lists) # {}
<1>. DEFINE n == Len(order)
            results(i) == DOMAIN lists[order[i]]
            before(t) == {l \in Links : \E i \in 1..n : \E k \in results(i) :
                            lists[order[i]][k] = l /\ Turn(i, k, n) < t}
            by(l) == {order[i] : i \in {j \in 1..n : \E k \in results(j) :
                        /\ lists[order[j]][k] = l
                        /\ Cardinality(before(Turn(j, k, n))) < config.limit}}
<1>1. /\ n \in Nat /\ DOMAIN order = 1..n
      /\ \A i \in 1..n : order[i] \in Providers
  OBVIOUS
<1>2. \A i \in 1..n : lists[order[i]] \in ResultLists
  BY <1>1
<1>3. \A i \in 1..n : \E m \in Nat : results(i) = 1..m /\ lists[order[i]] \in [1..m -> Links]
  BY <1>2, CallAssumption DEF ResultLists
<1>. DEFINE found1 == {i \in 1..n : lists[order[i]] # <<>>}
<1>4. found1 # {} /\ found1 \subseteq Nat
  BY <1>1 DEF ToSet
<1>5. PICK i \in found1 : \A j \in found1 : i <= j
  BY <1>4, FirstExists
<1>6. 1 \in results(i) /\ lists[order[i]][1] \in Links /\ i \in 1..n
  <2>1. PICK m \in Nat : results(i) = 1..m /\ lists[order[i]] \in [1..m -> Links]
    BY <1>3
  <2>2. m # 0
    <3>1. ASSUME m = 0 PROVE FALSE
      <4>1. lists[order[i]] \in [{} -> Links]
        BY <2>1, <3>1
      <4>2. lists[order[i]] = <<>>
        BY <4>1
      <4>. QED
        BY <4>2
    <3>. QED
      BY <3>1
  <2>. QED
    BY <2>1, <2>2
<1>7. before(Turn(i, 1, n)) = {}
  <2>. SUFFICES ASSUME NEW j \in 1..n, NEW k \in results(j), Turn(j, k, n) < Turn(i, 1, n)
                PROVE  FALSE
    OBVIOUS
  <2>1. lists[order[j]] # <<>>
    OBVIOUS
  <2>2. i <= j
    BY <2>1, <1>5
  <2>3. k \in Nat /\ k >= 1
    BY <1>3
  <2>4. (k - 1) * n >= 0
    <3>1. k - 1 \in Nat
      BY <2>3
    <3>2. \A a \in Nat : \A b \in Nat : a * b >= 0
      OBVIOUS
    <3>. QED
      BY <3>1, <3>2, <1>1
  <2>5. Turn(i, 1, n) = i
    BY <1>1, <1>6 DEF Turn
  <2>6. Turn(j, k, n) >= j
    <3>. DEFINE c == (k - 1) * n
    <3>1. c \in Int
      BY <2>3, <1>1
    <3>2. Turn(j, k, n) = c + j /\ c >= 0
      BY <2>4 DEF Turn
    <3>. HIDE DEF c
    <3>. QED
      BY <3>1, <3>2
  <2>7. Turn(j, k, n) \in Int
    BY <2>3, <1>1 DEF Turn
  <2>. HIDE DEF results
  <2>. QED
    BY <2>2, <2>5, <2>6, <2>7, <1>6
<1>8. Cardinality(before(Turn(i, 1, n))) < config.limit
  <2>1. Cardinality({}) = 0 /\ config.limit > 0
    BY FS_EmptySet DEF Settings
  <2>. HIDE DEF before
  <2>. QED
    BY <2>1, <1>7
<1>. DEFINE l == lists[order[i]][1]
<1>9. order[i] \in by(l)
  BY <1>6, <1>8
<1>10. DOMAIN Merge(order, lists) = {m \in Links : by(m) # {}}
  BY DEF Merge
<1>. HIDE DEF by
<1>. QED
  BY <1>6, <1>9, <1>10

\* What is delivered was discovered by somebody the merge names.
LEMMA MergeDiscovers ==
  ASSUME NEW order \in Seq(Providers), NEW lists
  PROVE  \A l \in DOMAIN Merge(order, lists) :
           Merge(order, lists)[l] # {} /\ Merge(order, lists)[l] \subseteq Providers
<1>. DEFINE n == Len(order)
            results(i) == DOMAIN lists[order[i]]
            before(t) == {l \in Links : \E i \in 1..n : \E k \in results(i) :
                            lists[order[i]][k] = l /\ Turn(i, k, n) < t}
            by(l) == {order[i] : i \in {j \in 1..n : \E k \in results(j) :
                        /\ lists[order[j]][k] = l
                        /\ Cardinality(before(Turn(j, k, n))) < config.limit}}
<1>1. Merge(order, lists) = [l \in {m \in Links : by(m) # {}} |-> by(l)]
  BY DEF Merge
<1>2. \A l : by(l) \subseteq Providers
  OBVIOUS
<1>. HIDE DEF by
<1>. QED
  BY <1>1, <1>2

\* The providers of an output are those its links name.
LEMMA OutputNames ==
  ASSUME NEW list, \A l \in DOMAIN list : list[l] # {} /\ list[l] \subseteq Providers
  PROVE  \A names : /\ InOutput(list, names) \subseteq Providers
                    /\ InOutput(list, names) = UNION {list[l] : l \in DOMAIN list}
                    /\ InOutput(list, names) = {} => DOMAIN list = {}
BY DEF InOutput

-----------------------------------------------------------------------------
(* google_search: the invariant                                            *)

SearchType ==
  /\ config \in Configs
  /\ phase \in {"idle", "asking", "merging", "trusted", "asked", "serial",
                "asked serially", "done"}
  /\ route \in Seq(Providers) /\ mergeOrder \in Seq(Providers)
  /\ floor \in 0..2 /\ pos \in Nat \ {0} /\ passed \in BOOLEAN
  /\ request \in [Providers -> {"idle", "precheck", "sending"}]
  /\ outcome \in [Providers -> {"none", "ok", "empty", "error", "timeout"}]
  /\ found \in [Providers -> ResultLists]

\* The providers whose requests may be on their way.
Asking ==
  CASE phase = "asking" -> ToSet(route)
    [] phase = "asked" -> {TrustedOrder[pos - 1]}
    [] phase = "asked serially" -> {route[pos]}
    [] OTHER -> {}

\* Only those have requests, and only those and the ones a merge names have
\* found anything.
Requests ==
  \A p \in Providers :
    /\ request[p] # "idle" => p \in Asking
    /\ found[p] # <<>> => p \in Asking \/ p \in ToSet(mergeOrder)
    /\ found[p] # <<>> => outcome[p] = "ok"
    /\ outcome[p] = "ok" => found[p] # <<>>

Places ==
  /\ phase = "asked" => pos > 1 /\ pos - 1 <= Len(TrustedOrder)
  /\ phase = "asked serially" => pos <= Len(route)
  /\ phase \in {"asking", "merging", "serial", "asked serially"} =>
       mergeOrder = route /\ passed = FALSE
  /\ phase \notin {"idle", "done"} => floor <= Len(route) /\ Len(route) <= Len(mergeOrder)
  /\ phase # "done" => response = "none"

\* What was merged: it names who discovered it, and is empty only when nobody
\* that has answered has found anything.
MergedOk ==
  /\ \A l \in DOMAIN merged : merged[l] # {} /\ merged[l] \subseteq Providers
  /\ phase \in {"trusted", "serial", "asked serially"} /\ DOMAIN merged = {} =>
       \A p \in Providers : found[p] # <<>> => p \in Asking
  /\ phase = "idle" \/ response = "empty" => \A p \in Providers : found[p] = <<>>
  /\ passed => Cardinality(UNION {merged[l] : l \in DOMAIN merged}) >= floor

SearchInv == SearchType /\ Requests /\ Places /\ MergedOk

LEMMA NothingIsAList == <<>> \in ResultLists
<1>1. 0 \in 0..MaxResults /\ 1..0 = {}
  BY CallAssumption
<1>2. <<>> \in [1..0 -> Links]
  BY <1>1
<1>3. \A i, j \in DOMAIN <<>> : <<>>[i] = <<>>[j] => i = j
  OBVIOUS
<1>. QED
  BY <1>1, <1>2, <1>3 DEF ResultLists

LEMMA SearchInitially == Init => SearchInv
<1>. SUFFICES ASSUME Init PROVE SearchInv
  OBVIOUS
<1>1. RouteInit
  BY DEF Init
<1>2. <<>> \in Seq(Providers) /\ DOMAIN <<>> = {}
  OBVIOUS
<1>3. SearchType
  <2>1. found \in [Providers -> ResultLists]
    BY <1>1, NothingIsAList DEF RouteInit, RequestInit
  <2>2. /\ request \in [Providers -> {"idle", "precheck", "sending"}]
        /\ outcome \in [Providers -> {"none", "ok", "empty", "error", "timeout"}]
    BY <1>1 DEF RouteInit, RequestInit
  <2>3. /\ config \in Configs /\ phase = "idle" /\ floor \in 0..2 /\ pos \in Nat \ {0}
        /\ passed = FALSE /\ route = <<>> /\ mergeOrder = <<>>
    BY <1>1 DEF RouteInit
  <2>. QED
    BY <1>2, <2>1, <2>2, <2>3 DEF SearchType
<1>4. Requests
  BY <1>1 DEF RouteInit, RequestInit, Requests
<1>5. Places
  BY <1>1 DEF RouteInit, Places
<1>6. MergedOk
  BY <1>1, <1>2 DEF RouteInit, RequestInit, MergedOk
<1>. QED
  BY <1>3, <1>4, <1>5, <1>6 DEF SearchInv

\* The orders of the settings stay.
LEMMA TrustedStays ==
  ASSUME config' = config
  PROVE  TrustedOrder' = TrustedOrder
BY DEF TrustedOrder, ResolveOrder

-----------------------------------------------------------------------------
(* google_search: requests                                                 *)

\* A step of a request is one of a provider that was asked, and changes nothing
\* of the others.
LEMMA ProgressStays ==
  ASSUME SearchType, Requests, NEW p \in Providers, Progress(p) \/ (p \in Keyed /\ CooldownEnds(p))
  PROVE  /\ request[p] # "idle"
         /\ request' \in [Providers -> {"idle", "precheck", "sending"}]
         /\ outcome' \in [Providers -> {"none", "ok", "empty", "error", "timeout"}]
         /\ found' \in [Providers -> ResultLists]
         /\ found'[p] # <<>> => outcome'[p] = "ok"
         /\ outcome'[p] = "ok" => found'[p] # <<>>
         /\ \A q \in Providers : q # p =>
              request'[q] = request[q] /\ outcome'[q] = outcome[q] /\ found'[q] = found[q]
<1>1. request[p] # "idle"
  BY DEF Progress, PrecheckPasses, PrecheckFails, Answers, FailsForNow, RateLimited,
         SingleKeyLimited, Refused, CooldownEnds
<1>2. CASE UNCHANGED <<outcome, found>> /\ request' \in
             {request, [request EXCEPT ![p] = "sending"]}
  BY <1>1, <1>2 DEF SearchType, Requests
<1>3. CASE \E how \in {"ok", "empty", "error"}, list \in ResultLists :
             Ends(p, how, list) /\ (how = "ok" <=> list # <<>>)
  BY <1>1, <1>3 DEF Ends, SearchType
<1>4. CASE PrecheckPasses(p) \/ (p \in Keyed /\ CooldownEnds(p))
  BY <1>2, <1>4 DEF PrecheckPasses, CooldownEnds
<1>5. CASE PrecheckFails(p) \/ Refused(p)
  <2>1. Ends(p, "error", <<>>)
    BY <1>5 DEF PrecheckFails, Refused
  <2>. QED
    BY <2>1, <1>3, NothingIsAList
<1>6. CASE Answers(p)
  BY <1>3, <1>6 DEF Answers
<1>7. CASE FailsForNow(p) \/ RateLimited(p) \/ SingleKeyLimited(p)
  <2>1. UNCHANGED <<request, outcome, found>> \/ Ends(p, "error", <<>>)
    BY <1>7 DEF FailsForNow, RateLimited, SingleKeyLimited, Again
  <2>. QED
    BY <2>1, <1>2, <1>3, NothingIsAList
<1>. QED
  BY <1>4, <1>5, <1>6, <1>7 DEF Progress

LEMMA RequestStepKeeps ==
  ASSUME SearchInv, RequestStep \/ RequestWaits, phase # "done"
  PROVE  SearchInv'
<1>1. PICK p \in Providers : Progress(p) \/ (p \in Keyed /\ CooldownEnds(p))
  BY DEF RequestStep, RequestWaits, Providers
<1>2. UNCHANGED searchVars
  BY DEF RequestStep, RequestWaits
<1>3. UNCHANGED <<config, phase, route, mergeOrder, floor, pos, merged, passed, response>>
  BY <1>2 DEF searchVars, orderVars
<1>4. SearchType /\ Requests /\ Places /\ MergedOk
  BY DEF SearchInv
<1>5. /\ request[p] # "idle"
      /\ request' \in [Providers -> {"idle", "precheck", "sending"}]
      /\ outcome' \in [Providers -> {"none", "ok", "empty", "error", "timeout"}]
      /\ found' \in [Providers -> ResultLists]
      /\ found'[p] # <<>> => outcome'[p] = "ok"
      /\ outcome'[p] = "ok" => found'[p] # <<>>
      /\ \A q \in Providers : q # p =>
           request'[q] = request[q] /\ outcome'[q] = outcome[q] /\ found'[q] = found[q]
  BY <1>1, <1>4, ProgressStays
<1>6. Asking' = Asking /\ p \in Asking /\ TrustedOrder' = TrustedOrder
  <2>1. TrustedOrder' = TrustedOrder
    BY <1>3, TrustedStays
  <2>. QED
    BY <2>1, <1>3, <1>4, <1>5 DEF Asking, Requests
<1>7. SearchType'
  BY <1>3, <1>4, <1>5 DEF SearchType
<1>8. Requests'
  <2>. SUFFICES ASSUME NEW q \in Providers
                PROVE  /\ request'[q] # "idle" => q \in Asking
                       /\ found'[q] # <<>> => q \in Asking \/ q \in ToSet(mergeOrder)
                       /\ found'[q] # <<>> => outcome'[q] = "ok"
                       /\ outcome'[q] = "ok" => found'[q] # <<>>
    BY <1>3, <1>6 DEF Requests
  <2>1. CASE q = p
    BY <2>1, <1>5, <1>6
  <2>2. CASE q # p
    BY <2>2, <1>4, <1>5 DEF Requests
  <2>. QED
    BY <2>1, <2>2
<1>9. Places'
  BY <1>3, <1>4, <1>6 DEF Places
<1>10. phase \in {"asking", "asked", "asked serially"}
  BY <1>4, <1>6 DEF Asking, SearchType
<1>11. MergedOk'
  <2>1. phase' # "idle" /\ response' = "none"
    BY <1>3, <1>4, <1>10 DEF Places
  <2>2. ASSUME phase' \in {"trusted", "serial", "asked serially"}, DOMAIN merged' = {},
               NEW q \in Providers, found'[q] # <<>>
        PROVE  q \in Asking'
    <3>1. CASE q = p
      BY <3>1, <1>6
    <3>2. CASE q # p
      BY <3>2, <2>2, <1>3, <1>4, <1>5, <1>6 DEF MergedOk
    <3>. QED
      BY <3>1, <3>2
  <2>. QED
    BY <2>1, <2>2, <1>3, <1>4 DEF MergedOk
<1>. QED
  BY <1>7, <1>8, <1>9, <1>11 DEF SearchInv

-----------------------------------------------------------------------------
(* google_search: the steps of the search                                  *)

\* The end of perform_search on a list that has what was found.
LEMMA ReturnStays ==
  ASSUME SearchInv, NEW list, phase # "done", ReturnList(list),
         DOMAIN list = {} => \A p \in Providers : found[p] = <<>>,
         \A p \in Providers : request[p] = "idle",
         UNCHANGED <<requestVars, config>>,
         route' \in Seq(Providers), mergeOrder' \in Seq(Providers),
         ToSet(mergeOrder) \subseteq ToSet(mergeOrder'),
         \A p \in Providers : found[p] # <<>> => p \in ToSet(mergeOrder'),
         floor' \in 0..2, pos' \in Nat \ {0}, passed' \in BOOLEAN,
         \A l \in DOMAIN merged' : merged'[l] # {} /\ merged'[l] \subseteq Providers,
         passed' => Cardinality(UNION {merged'[l] : l \in DOMAIN merged'}) >= floor'
  PROVE  SearchInv'
<1>1. SearchType /\ Requests /\ Places /\ MergedOk
  BY DEF SearchInv
<1>2. UNCHANGED <<request, outcome, found>>
  BY DEF requestVars
<1>3. /\ phase' \in {"idle", "done"} /\ response = "none"
      /\ phase' = "idle" => DOMAIN list = {} /\ response' = "none"
      /\ response' = "empty" => DOMAIN list = {}
  BY <1>1 DEF ReturnList, Finish, Places
<1>4. SearchType'
  BY <1>1, <1>2, <1>3 DEF SearchType
<1>5. Requests'
  BY <1>1, <1>2 DEF Requests
<1>6. Places'
  BY <1>3 DEF Places
<1>7. MergedOk'
  BY <1>2, <1>3 DEF MergedOk
<1>. QED
  BY <1>4, <1>5, <1>6, <1>7 DEF SearchInv

\* Once nobody is asked any more nobody has a request on its way.
LEMMA NobodyRuns ==
  ASSUME SearchInv, Running = {} \/ phase \in {"idle", "merging", "trusted", "serial", "done"}
  PROVE  \A p \in Providers : request[p] = "idle"
BY DEF SearchInv, SearchType, Requests, Asking, Running

LEMMA RefuseKeeps ==
  ASSUME SearchInv, Refuse
  PROVE  SearchInv'
<1>1. SearchType /\ Requests /\ Places /\ MergedOk
  BY DEF SearchInv
<1>2. /\ UNCHANGED <<config, route, mergeOrder, floor, pos, merged, passed>>
      /\ UNCHANGED <<request, outcome, found>>
      /\ phase = "idle" /\ phase' = "done" /\ response' = "refused"
  BY DEF Refuse, Finish, requestVars, orderVars
<1>3. \A p \in Providers : request[p] = "idle" /\ found[p] = <<>>
  BY <1>1, <1>2, NobodyRuns DEF MergedOk
<1>4. SearchType' /\ Requests'
  BY <1>1, <1>2, <1>3 DEF SearchType, Requests
<1>5. Places' /\ MergedOk'
  BY <1>1, <1>2 DEF Places, MergedOk
<1>. QED
  BY <1>4, <1>5 DEF SearchInv

LEMMA StartKeeps ==
  ASSUME SearchInv, Start
  PROVE  SearchInv'
<1>. DEFINE order == Downgrade(ResolveOrder(config.order, config.strict))
<1>1. SearchType /\ Requests /\ Places /\ MergedOk /\ phase = "idle"
  BY DEF SearchInv, Start
<1>2. Settings /\ order \in Seq(Providers)
  BY <1>1, ConfigsAreSettings, RoutesAreSequences DEF SearchType
<1>3. \A p \in Providers : request[p] = "idle" /\ found[p] = <<>>
  BY <1>1, NobodyRuns DEF MergedOk
<1>. HIDE DEF order
<1>4. CASE order = <<>>
  <2>1. /\ UNCHANGED <<config, route, mergeOrder, floor, pos, merged, passed>>
        /\ UNCHANGED <<request, outcome, found>>
        /\ phase' = "done" /\ response' = "unconfigured"
    BY <1>4 DEF Start, Finish, requestVars, orderVars, order
  <2>2. SearchType' /\ Requests'
    BY <1>1, <1>3, <2>1 DEF SearchType, Requests
  <2>3. Places' /\ MergedOk'
    BY <1>1, <2>1 DEF Places, MergedOk
  <2>. QED
    BY <2>2, <2>3 DEF SearchInv
<1>5. CASE order # <<>>
  <2>1. StartWith(order) /\ UNCHANGED <<config, response>>
    BY <1>5 DEF Start, order
  <2>2. /\ route' = order /\ mergeOrder' = order /\ floor' = TierFloor(ToSet(order))
        /\ pos' = 1 /\ merged' = <<>> /\ passed' = FALSE
        /\ phase' \in {"asking", "serial"}
    BY <2>1 DEF StartWith
  <2>3. /\ ToSet(order) \subseteq Providers /\ floor' \in 0..2 /\ floor' <= Len(order)
    <3>1. /\ ToSet(order) \subseteq Providers /\ Cardinality(ToSet(order)) \in Nat
          /\ Cardinality(ToSet(order)) <= Len(order) /\ Len(order) \in Nat
      BY <1>2, NamesBounded
    <3>2. TierFloor(ToSet(order)) \in 0..2 /\ TierFloor(ToSet(order)) <= Cardinality(ToSet(order))
      BY <3>1, TierReachable
    <3>. QED
      BY <2>2, <3>1, <3>2
  <2>4. /\ request' \in [Providers -> {"idle", "precheck", "sending"}]
        /\ outcome' \in [Providers -> {"none", "ok", "empty", "error", "timeout"}]
        /\ found' \in [Providers -> ResultLists]
        /\ \A p \in Providers :
             /\ request'[p] # "idle" => phase' = "asking" /\ p \in ToSet(order)
             /\ found'[p] = <<>> /\ outcome'[p] # "ok"
    <3>1. CASE config.mode \in {"parallel", "parallel_conf_fallback"}
      <4>1. phase' = "asking" /\ Asked(ToSet(order), FALSE)
        BY <2>1, <3>1 DEF StartWith
      <4>2. \A p \in Providers :
              /\ request'[p] = IF p \notin ToSet(order) THEN request[p]
                               ELSE IF p \in Keyless THEN "precheck" ELSE "sending"
              /\ outcome'[p] = IF p \in ToSet(order) THEN "none" ELSE outcome[p]
              /\ found'[p] = IF p \in ToSet(order) THEN <<>> ELSE found[p]
        BY <4>1 DEF Asked
      <4>3. /\ request' = [p \in Providers |-> request'[p]]
            /\ outcome' = [p \in Providers |-> outcome'[p]]
            /\ found' = [p \in Providers |-> found'[p]]
        BY <4>1 DEF Asked
      <4>4. \A p \in Providers :
              /\ request'[p] \in {"idle", "precheck", "sending"}
              /\ outcome'[p] \in {"none", "ok", "empty", "error", "timeout"}
              /\ found'[p] = <<>> /\ outcome'[p] # "ok"
        BY <1>1, <1>3, <4>2 DEF SearchType, Requests
      <4>. QED
        BY <1>3, <4>1, <4>2, <4>3, <4>4, NothingIsAList
    <3>2. CASE config.mode \notin {"parallel", "parallel_conf_fallback"}
      BY <2>1, <3>2, NothingIsAList DEF StartWith
    <3>. QED
      BY <3>1, <3>2
  <2>5. response' = "none"
    BY <1>1, <2>1 DEF Places
  <2>6. SearchType'
    <3>1. route' \in Seq(Providers) /\ mergeOrder' \in Seq(Providers)
      BY <1>2, <2>2
    <3>2. config' \in Configs /\ pos' \in Nat \ {0} /\ passed' \in BOOLEAN
      <4>1. config' \in Configs
        BY <1>1, <2>1 DEF SearchType
      <4>2. pos' \in Nat \ {0}
        BY <2>2
      <4>3. passed' \in BOOLEAN
        BY <2>2
      <4>. QED
        BY <4>1, <4>2, <4>3
    <3>3. phase' \in {"idle", "asking", "merging", "trusted", "asked", "serial",
                      "asked serially", "done"}
      BY <2>2
    <3>. QED
      BY <2>3, <2>4, <3>1, <3>2, <3>3 DEF SearchType
  <2>7. Requests'
    BY <2>2, <2>4 DEF Requests, Asking
  <2>8. Places'
    <3>1. Len(order) \in Nat
      BY <1>2
    <3>2. floor' <= Len(route') /\ Len(route') <= Len(mergeOrder')
      BY <2>2, <2>3, <3>1
    <3>3. mergeOrder' = route' /\ passed' = FALSE
      BY <2>2
    <3>4. phase' # "asked" /\ phase' # "asked serially"
      BY <2>2
    <3>. QED
      BY <2>5, <3>2, <3>3, <3>4 DEF Places
  <2>9. MergedOk'
    <3>1. DOMAIN merged' = {}
      BY <2>2
    <3>. QED
      BY <2>2, <2>4, <2>5, <3>1 DEF MergedOk
  <2>. QED
    BY <2>6, <2>7, <2>8, <2>9 DEF SearchInv
<1>. QED
  BY <1>4, <1>5

LEMMA JoinKeeps ==
  ASSUME SearchInv, Join
  PROVE  SearchInv'
<1>1. SearchType /\ Requests /\ Places /\ MergedOk /\ phase = "asking"
  BY DEF SearchInv, Join
<1>2. /\ UNCHANGED <<config, route, mergeOrder, floor, pos, merged, passed, response>>
      /\ phase' = "merging"
  BY DEF Join, orderVars
<1>3. /\ request' = [p \in Providers |-> request'[p]]
      /\ outcome' = [p \in Providers |-> outcome'[p]]
      /\ found' = [p \in Providers |-> found'[p]]
      /\ \A p \in Providers :
           IF request[p] # "idle"
           THEN request'[p] = "idle" /\ outcome'[p] = "timeout" /\ found'[p] = <<>>
           ELSE request'[p] = "idle" /\ outcome'[p] = outcome[p] /\ found'[p] = found[p]
  BY DEF Join, GivenUp, Running
<1>4. SearchType'
  <2>1. \A p \in Providers :
          /\ request'[p] \in {"idle", "precheck", "sending"}
          /\ outcome'[p] \in {"none", "ok", "empty", "error", "timeout"}
          /\ found'[p] \in ResultLists
    BY <1>1, <1>3, NothingIsAList DEF SearchType
  <2>2. /\ request' \in [Providers -> {"idle", "precheck", "sending"}]
        /\ outcome' \in [Providers -> {"none", "ok", "empty", "error", "timeout"}]
        /\ found' \in [Providers -> ResultLists]
    BY <1>3, <2>1
  <2>. QED
    BY <1>1, <1>2, <2>2 DEF SearchType
<1>5. Requests'
  <2>1. ToSet(mergeOrder) = ToSet(route) /\ Asking = ToSet(route)
    BY <1>1 DEF Places, Asking
  <2>. QED
    BY <1>1, <1>2, <1>3, <2>1 DEF Requests
<1>6. Places' /\ MergedOk'
  BY <1>1, <1>2 DEF Places, MergedOk
<1>. QED
  BY <1>4, <1>5, <1>6 DEF SearchInv

\* The results of a merge that names everybody who has found anything.
LEMMA MergedHasAll ==
  ASSUME SearchType, NEW order \in Seq(Providers),
         \A p \in Providers : found[p] # <<>> => p \in ToSet(order)
  PROVE  LET list == Merge(order, found)
         IN  /\ DOMAIN list = {} => \A p \in Providers : found[p] = <<>>
             /\ \A l \in DOMAIN list : list[l] # {} /\ list[l] \subseteq Providers
             /\ \A names :
                  /\ InOutput(list, names) = UNION {list[l] : l \in DOMAIN list}
                  /\ InOutput(list, names) \subseteq Providers
                  /\ Cardinality(InOutput(list, names)) \in Nat
                  /\ InOutput(list, names) = {} => DOMAIN list = {}
<1>1. Settings /\ found \in [Providers -> ResultLists]
  BY ConfigsAreSettings DEF SearchType
<1>. DEFINE list == Merge(order, found)
<1>2. DOMAIN list = {} => \A p \in Providers : found[p] = <<>>
  BY <1>1, MergeDelivers
<1>3. \A l \in DOMAIN list : list[l] # {} /\ list[l] \subseteq Providers
  BY MergeDiscovers
<1>. HIDE DEF list
<1>4. \A names : /\ InOutput(list, names) \subseteq Providers
                 /\ InOutput(list, names) = UNION {list[l] : l \in DOMAIN list}
                 /\ InOutput(list, names) = {} => DOMAIN list = {}
  BY <1>3, OutputNames
<1>5. \A names : Cardinality(InOutput(list, names)) \in Nat
  BY <1>4, ProvidersFinite
<1>. QED
  BY <1>2, <1>3, <1>4, <1>5 DEF list

LEMMA MergeParallelKeeps ==
  ASSUME SearchInv, MergeParallel
  PROVE  SearchInv'
<1>1. SearchType /\ Requests /\ Places /\ MergedOk /\ phase = "merging"
  BY DEF SearchInv, MergeParallel
<1>2. mergeOrder = route /\ floor <= Len(route) /\ Len(route) <= Len(mergeOrder)
      /\ response = "none" /\ route \in Seq(Providers) /\ floor \in 0..2
  BY <1>1 DEF Places, SearchType
<1>3. \A p \in Providers : found[p] # <<>> => p \in ToSet(route)
  BY <1>1, <1>2 DEF Requests, Asking
<1>4. PICK known \in BOOLEAN, list \in {Merge(route, found)} :
       LET names == InOutput(list, WithResults)
           f == Converge(Recompute(floor, Failed), names)
           good == Verdict(list, names, Len(route), f, known)
           enough == Cardinality(WithResults) >= MinSuccess
       IN  /\ merged' = list /\ covered' = names /\ floor' = f /\ passed' = good
           /\ IF config.mode = "parallel" \/ ((good \/ ~config.gate) /\ enough)
              THEN ReturnList(list)
              ELSE phase' = "trusted" /\ UNCHANGED <<query, response>>
  BY DEF MergeParallel
<1>. DEFINE names == InOutput(list, WithResults)
            f == Converge(Recompute(floor, Failed), names)
            good == Verdict(list, names, Len(route), f, known)
<1>5. /\ merged' = list /\ floor' = f /\ passed' = good
      /\ ReturnList(list) \/ (phase' = "trusted" /\ UNCHANGED <<query, response>>)
  BY <1>4
<1>6. UNCHANGED <<requestVars, config, route, mergeOrder, pos>>
  BY DEF MergeParallel, orderVars
<1>7. /\ DOMAIN list = {} => \A p \in Providers : found[p] = <<>>
      /\ \A l \in DOMAIN list : list[l] # {} /\ list[l] \subseteq Providers
      /\ names = UNION {list[l] : l \in DOMAIN list}
      /\ names \subseteq Providers /\ Cardinality(names) \in Nat
  BY <1>1, <1>2, <1>3, MergedHasAll
<1>. HIDE DEF names
<1>8. f \in 0..2 /\ f <= Len(route)
  BY <1>2, <1>7, FloorStaysReachable
<1>. HIDE DEF f
<1>9. good \in BOOLEAN /\ (good => Cardinality(names) >= f)
  <2>1. good \in BOOLEAN
    BY DEF Verdict
  <2>2. Len(route) \in Nat
    BY <1>2
  <2>. QED
    BY <2>1, <2>2, <1>7, <1>8, GoodIsCovered
<1>. HIDE DEF good
<1>10. passed' => Cardinality(UNION {merged'[l] : l \in DOMAIN merged'}) >= floor'
  BY <1>5, <1>7, <1>9
<1>11. \A p \in Providers : request[p] = "idle"
  BY <1>1, NobodyRuns
<1>12. \A l \in DOMAIN merged' : merged'[l] # {} /\ merged'[l] \subseteq Providers
  BY <1>5, <1>7
<1>13. /\ route' \in Seq(Providers) /\ mergeOrder' \in Seq(Providers)
       /\ ToSet(mergeOrder) \subseteq ToSet(mergeOrder')
       /\ floor' \in 0..2 /\ pos' \in Nat \ {0} /\ passed' \in BOOLEAN
  BY <1>1, <1>2, <1>5, <1>6, <1>8, <1>9 DEF SearchType
<1>14. CASE ReturnList(list)
  <2>1. \A p \in Providers : found[p] # <<>> => p \in ToSet(mergeOrder')
    BY <1>2, <1>3, <1>6
  <2>. QED
    BY <1>1, <1>6, <1>7, <1>10, <1>11, <1>12, <1>13, <1>14, <2>1, ReturnStays
<1>15. CASE phase' = "trusted" /\ UNCHANGED <<query, response>>
  <2>1. UNCHANGED <<request, outcome, found>>
    BY <1>6 DEF requestVars
  <2>2. SearchType'
    BY <1>1, <1>6, <1>13, <1>15, <2>1 DEF SearchType
  <2>3. Requests'
    BY <1>1, <1>2, <1>3, <1>6, <1>11, <1>15, <2>1 DEF Requests
  <2>4. Places'
    <3>1. Len(route) \in Nat /\ floor' <= Len(route') /\ Len(route') <= Len(mergeOrder')
      BY <1>2, <1>5, <1>6, <1>8
    <3>. QED
      BY <1>2, <1>15, <3>1 DEF Places
  <2>5. MergedOk'
    <3>1. response' = "none" /\ phase' = "trusted"
      BY <1>2, <1>15
    <3>2. DOMAIN merged' = {} => \A p \in Providers : found'[p] = <<>>
      BY <1>5, <1>7, <2>1
    <3>. QED
      BY <1>10, <1>12, <3>1, <3>2 DEF MergedOk
  <2>. QED
    BY <2>2, <2>3, <2>4, <2>5 DEF SearchInv
<1>. QED
  BY <1>5, <1>14, <1>15

LEMMA AskTrustedKeeps ==
  ASSUME SearchInv, AskTrusted
  PROVE  SearchInv'
<1>1. SearchType /\ Requests /\ Places /\ MergedOk /\ phase = "trusted"
  BY DEF SearchInv, AskTrusted
<1>2. /\ pos <= Len(TrustedOrder) /\ pos' = pos + 1
      /\ UNCHANGED <<config, route, mergeOrder, floor, merged, passed, response>>
  BY DEF AskTrusted, orderVars
<1>3. TrustedOrder \in Seq(Providers) /\ TrustedOrder' = TrustedOrder
  BY <1>1, <1>2, ConfigsAreSettings, RoutesAreSequences, TrustedStays DEF SearchType
<1>4. /\ pos \in Nat /\ pos >= 1 /\ pos' \in Nat \ {0} /\ pos' - 1 = pos
      /\ response = "none" /\ floor <= Len(route) /\ Len(route) <= Len(mergeOrder)
  BY <1>1, <1>2 DEF SearchType, Places
<1>5. TrustedOrder[pos] \in Providers
  BY <1>2, <1>3, <1>4
<1>6. \A p \in Providers : request[p] = "idle"
  BY <1>1, NobodyRuns
<1>7. CASE UNCHANGED <<requestVars, phase>>
  <2>1. UNCHANGED <<request, outcome, found, phase>>
    BY <1>7 DEF requestVars
  <2>2. SearchType'
    BY <1>1, <1>2, <1>4, <2>1 DEF SearchType
  <2>3. Requests' /\ Places' /\ MergedOk'
    BY <1>1, <1>2, <2>1 DEF Requests, Places, MergedOk, Asking
  <2>. QED
    BY <2>2, <2>3 DEF SearchInv
<1>8. CASE /\ phase' = "asked"
           /\ \E again \in {FALSE, checked} : Asked({TrustedOrder[pos]}, again)
  <2>. DEFINE q == TrustedOrder[pos]
  <2>1. PICK again \in {FALSE, checked} : Asked({q}, again)
    BY <1>8
  <2>2. /\ request' = [p \in Providers |-> request'[p]]
        /\ outcome' = [p \in Providers |-> outcome'[p]]
        /\ found' = [p \in Providers |-> found'[p]]
        /\ \A p \in Providers : p # q =>
             request'[p] = request[p] /\ outcome'[p] = outcome[p] /\ found'[p] = found[p]
        /\ request'[q] \in {"precheck", "sending"} /\ outcome'[q] = "none" /\ found'[q] = <<>>
    BY <2>1, <1>5 DEF Asked
  <2>3. Asking' = {q}
    BY <1>3, <1>4, <1>8 DEF Asking
  <2>. HIDE DEF q
  <2>4. SearchType'
    <3>1. \A p \in Providers :
            /\ request'[p] \in {"idle", "precheck", "sending"}
            /\ outcome'[p] \in {"none", "ok", "empty", "error", "timeout"}
            /\ found'[p] \in ResultLists
      BY <1>1, <2>2, NothingIsAList DEF SearchType
    <3>2. /\ request' \in [Providers -> {"idle", "precheck", "sending"}]
          /\ outcome' \in [Providers -> {"none", "ok", "empty", "error", "timeout"}]
          /\ found' \in [Providers -> ResultLists]
      BY <2>2, <3>1
    <3>. QED
      BY <1>1, <1>2, <1>4, <1>8, <3>2 DEF SearchType
  <2>5. Requests'
    <3>. SUFFICES ASSUME NEW p \in Providers
                  PROVE  /\ request'[p] # "idle" => p = q
                         /\ found'[p] # <<>> => p = q \/ p \in ToSet(mergeOrder)
                         /\ found'[p] # <<>> => outcome'[p] = "ok"
                         /\ outcome'[p] = "ok" => found'[p] # <<>>
      BY <1>2, <2>3 DEF Requests
    <3>1. Asking = {}
      BY <1>1 DEF Asking
    <3>. QED
      BY <1>1, <1>6, <2>2, <3>1 DEF Requests
  <2>6. Places'
    BY <1>1, <1>2, <1>3, <1>4, <1>8 DEF Places
  <2>7. MergedOk'
    BY <1>1, <1>2, <1>4, <1>8 DEF MergedOk
  <2>. QED
    BY <2>4, <2>5, <2>6, <2>7 DEF SearchInv
<1>. QED
  BY <1>7, <1>8 DEF AskTrusted

LEMMA TrustedAnsweredKeeps ==
  ASSUME SearchInv, TrustedAnswered
  PROVE  SearchInv'
<1>1. SearchType /\ Requests /\ Places /\ MergedOk /\ phase = "asked"
  BY DEF SearchInv, TrustedAnswered
<1>. DEFINE q == TrustedOrder[pos - 1]
            order == MergeOrder
<1>2. /\ pos > 1 /\ pos - 1 <= Len(TrustedOrder) /\ pos \in Nat
      /\ floor <= Len(route) /\ Len(route) <= Len(mergeOrder) /\ response = "none"
      /\ route \in Seq(Providers) /\ mergeOrder \in Seq(Providers) /\ floor \in 0..2
  BY <1>1 DEF Places, SearchType
<1>3. TrustedOrder \in Seq(Providers)
  BY <1>1, ConfigsAreSettings, RoutesAreSequences DEF SearchType
<1>4. q \in Providers
  BY <1>2, <1>3
<1>5. \A p \in Providers : found[p] # <<>> => p = q \/ p \in ToSet(mergeOrder)
  BY <1>1 DEF Requests, Asking
<1>6. /\ order \in Seq(Providers) /\ Len(order) \in Nat /\ Len(mergeOrder) <= Len(order)
      /\ ToSet(mergeOrder) \subseteq ToSet(order)
      /\ \A p \in Providers : found[p] # <<>> => p \in ToSet(order)
  <2>. HIDE DEF q
  <2>1. CASE outcome[q] = "ok" /\ q \notin ToSet(mergeOrder)
    <3>1. order = Append(mergeOrder, q)
      BY <2>1 DEF MergeOrder, q
    <3>2. /\ order \in Seq(Providers) /\ Len(order) = Len(mergeOrder) + 1
          /\ order[Len(mergeOrder) + 1] = q
          /\ \A i \in 1..Len(mergeOrder) : order[i] = mergeOrder[i]
      BY <1>2, <1>4, <3>1
    <3>3. ToSet(mergeOrder) \subseteq ToSet(order) /\ q \in ToSet(order)
      BY <1>2, <3>2 DEF ToSet
    <3>. HIDE DEF order
    <3>. QED
      BY <1>2, <1>5, <3>2, <3>3
  <2>2. CASE ~(outcome[q] = "ok" /\ q \notin ToSet(mergeOrder))
    <3>1. order = mergeOrder
      BY <2>2 DEF MergeOrder, q
    <3>2. found[q] # <<>> => q \in ToSet(mergeOrder)
      BY <1>1, <1>4, <2>2 DEF Requests
    <3>. HIDE DEF order
    <3>. QED
      BY <1>2, <1>5, <3>1, <3>2
  <2>. QED
    BY <2>1, <2>2
<1>7. PICK known \in BOOLEAN, list \in {Merge(order, found)} :
       LET names == InOutput(list, WithResults)
           good == Verdict(list, names, Len(order), floor, known)
       IN  /\ merged' = list /\ covered' = names /\ passed' = good
           /\ IF /\ good \/ ~config.gate
                 /\ Cardinality(WithResults) >= MinSuccess
              THEN ReturnList(list)
              ELSE phase' = "trusted" /\ UNCHANGED <<query, response>>
  BY DEF TrustedAnswered
<1>. DEFINE names == InOutput(list, WithResults)
            good == Verdict(list, names, Len(order), floor, known)
<1>8. /\ merged' = list /\ passed' = good
      /\ ReturnList(list) \/ (phase' = "trusted" /\ UNCHANGED <<query, response>>)
  BY <1>7
<1>9. mergeOrder' = order /\ UNCHANGED <<requestVars, config, route, floor, pos>>
  BY DEF TrustedAnswered
<1>. HIDE DEF order
<1>10. /\ DOMAIN list = {} => \A p \in Providers : found[p] = <<>>
       /\ \A l \in DOMAIN list : list[l] # {} /\ list[l] \subseteq Providers
       /\ names = UNION {list[l] : l \in DOMAIN list}
       /\ names \subseteq Providers /\ Cardinality(names) \in Nat
  BY <1>1, <1>6, <1>7, MergedHasAll
<1>. HIDE DEF names
<1>11. good \in BOOLEAN /\ (good => Cardinality(names) >= floor)
  <2>1. good \in BOOLEAN
    BY DEF Verdict
  <2>2. Len(route) \in Nat /\ Len(mergeOrder) \in Nat
    BY <1>2
  <2>3. floor <= Len(order)
    BY <1>2, <1>6, <2>2
  <2>. QED
    BY <2>1, <2>3, <1>2, <1>6, <1>10, GoodIsCovered
<1>. HIDE DEF good
<1>12. passed' => Cardinality(UNION {merged'[l] : l \in DOMAIN merged'}) >= floor'
  BY <1>8, <1>9, <1>10, <1>11
<1>13. \A p \in Providers : request[p] = "idle"
  BY NobodyRuns DEF TrustedAnswered
<1>14. \A l \in DOMAIN merged' : merged'[l] # {} /\ merged'[l] \subseteq Providers
  BY <1>8, <1>10
<1>15. /\ route' \in Seq(Providers) /\ mergeOrder' \in Seq(Providers)
       /\ ToSet(mergeOrder) \subseteq ToSet(mergeOrder')
       /\ \A p \in Providers : found[p] # <<>> => p \in ToSet(mergeOrder')
       /\ floor' \in 0..2 /\ pos' \in Nat \ {0}
  BY <1>1, <1>2, <1>6, <1>9 DEF SearchType
<1>16. passed' \in BOOLEAN
  BY <1>8, <1>11
<1>17. CASE ReturnList(list)
  BY <1>1, <1>9, <1>10, <1>12, <1>13, <1>14, <1>15, <1>16, <1>17, ReturnStays
<1>18. CASE phase' = "trusted" /\ UNCHANGED <<query, response>>
  <2>1. UNCHANGED <<request, outcome, found>>
    BY <1>9 DEF requestVars
  <2>2. SearchType'
    BY <1>1, <1>9, <1>15, <1>16, <1>18, <2>1 DEF SearchType
  <2>3. Requests'
    BY <1>1, <1>13, <1>15, <1>18, <2>1 DEF Requests
  <2>4. Places'
    <3>1. /\ Len(route) \in Nat /\ Len(mergeOrder) \in Nat
          /\ floor' <= Len(route') /\ Len(route') <= Len(mergeOrder')
      BY <1>2, <1>6, <1>9
    <3>. QED
      BY <1>2, <1>18, <3>1 DEF Places
  <2>5. MergedOk'
    <3>1. response' = "none" /\ phase' = "trusted"
      BY <1>2, <1>18
    <3>2. DOMAIN merged' = {} => \A p \in Providers : found'[p] = <<>>
      BY <1>8, <1>10, <2>1
    <3>. QED
      BY <1>12, <1>14, <3>1, <3>2 DEF MergedOk
  <2>. QED
    BY <2>2, <2>3, <2>4, <2>5 DEF SearchInv
<1>. QED
  BY <1>8, <1>17, <1>18

LEMMA TrustedEndsKeeps ==
  ASSUME SearchInv, TrustedEnds
  PROVE  SearchInv'
<1>1. SearchType /\ Requests /\ Places /\ MergedOk /\ phase = "trusted"
  BY DEF SearchInv, TrustedEnds
<1>2. /\ ReturnList(merged) /\ UNCHANGED <<requestVars, config>>
      /\ UNCHANGED <<route, mergeOrder, floor, pos, merged, passed>>
  BY DEF TrustedEnds, orderVars
<1>3. Asking = {}
  BY <1>1 DEF Asking
<1>4. DOMAIN merged = {} => \A p \in Providers : found[p] = <<>>
  BY <1>1, <1>3 DEF MergedOk
<1>5. \A p \in Providers : request[p] = "idle"
  BY <1>1, NobodyRuns
<1>6. /\ route' \in Seq(Providers) /\ mergeOrder' \in Seq(Providers)
      /\ ToSet(mergeOrder) \subseteq ToSet(mergeOrder')
      /\ \A p \in Providers : found[p] # <<>> => p \in ToSet(mergeOrder')
      /\ floor' \in 0..2 /\ pos' \in Nat \ {0} /\ passed' \in BOOLEAN
  BY <1>1, <1>2, <1>3 DEF SearchType, Requests
<1>7. /\ \A l \in DOMAIN merged' : merged'[l] # {} /\ merged'[l] \subseteq Providers
      /\ passed' => Cardinality(UNION {merged'[l] : l \in DOMAIN merged'}) >= floor'
  BY <1>1, <1>2 DEF MergedOk
<1>. QED
  BY <1>1, <1>2, <1>4, <1>5, <1>6, <1>7, ReturnStays

\* A place of a sequence holds one of its members.
LEMMA PlaceInRoute ==
  ASSUME NEW T, NEW s \in Seq(T), NEW n \in Nat \ {0}, n <= Len(s)
  PROVE  Len(s) \in Nat /\ n \in DOMAIN s /\ s[n] \in T /\ s[n] \in ToSet(s)
<1>1. Len(s) \in Nat /\ n \in DOMAIN s /\ s[n] \in T
  OBVIOUS
<1>. QED
  BY <1>1 DEF ToSet

LEMMA AskNextKeeps ==
  ASSUME SearchInv, AskNext
  PROVE  SearchInv'
<1>1. SearchType /\ Requests /\ Places /\ MergedOk /\ phase = "serial"
  BY DEF SearchInv, AskNext
<1>2. /\ pos <= Len(route) /\ phase' = "asked serially"
      /\ UNCHANGED <<config, route, mergeOrder, floor, pos, merged, passed, response>>
  BY DEF AskNext, orderVars
<1>. DEFINE q == route[pos]
<1>3. /\ q \in Providers /\ response = "none" /\ passed = FALSE /\ mergeOrder = route
      /\ floor <= Len(route) /\ Len(route) <= Len(mergeOrder)
  <2>1. q \in Providers
    <3>1. route \in Seq(Providers) /\ pos \in Nat \ {0}
      BY <1>1 DEF SearchType
    <3>. QED
      BY <1>2, <3>1, PlaceInRoute
  <2>2. passed = FALSE /\ mergeOrder = route /\ response = "none"
    BY <1>1 DEF Places
  <2>3. floor <= Len(route) /\ Len(route) <= Len(mergeOrder)
    BY <1>1 DEF Places
  <2>. QED
    BY <2>1, <2>2, <2>3
<1>4. PICK again \in {FALSE, checked} : Asked({q}, again)
  BY DEF AskNext
<1>5. /\ request' = [p \in Providers |-> request'[p]]
      /\ outcome' = [p \in Providers |-> outcome'[p]]
      /\ found' = [p \in Providers |-> found'[p]]
      /\ \A p \in Providers : p # q =>
           request'[p] = request[p] /\ outcome'[p] = outcome[p] /\ found'[p] = found[p]
      /\ request'[q] \in {"precheck", "sending"} /\ outcome'[q] = "none" /\ found'[q] = <<>>
  BY <1>3, <1>4 DEF Asked
<1>6. Asking' = {q} /\ Asking = {}
  BY <1>1, <1>2 DEF Asking
<1>7. \A p \in Providers : request[p] = "idle"
  BY <1>1, NobodyRuns
<1>. HIDE DEF q
<1>8. SearchType'
  <2>1. \A p \in Providers :
          /\ request'[p] \in {"idle", "precheck", "sending"}
          /\ outcome'[p] \in {"none", "ok", "empty", "error", "timeout"}
          /\ found'[p] \in ResultLists
    BY <1>1, <1>5, NothingIsAList DEF SearchType
  <2>2. /\ request' \in [Providers -> {"idle", "precheck", "sending"}]
        /\ outcome' \in [Providers -> {"none", "ok", "empty", "error", "timeout"}]
        /\ found' \in [Providers -> ResultLists]
    BY <1>5, <2>1
  <2>. QED
    BY <1>1, <1>2, <2>2 DEF SearchType
<1>9. Requests'
  <2>. SUFFICES ASSUME NEW p \in Providers
                PROVE  /\ request'[p] # "idle" => p = q
                       /\ found'[p] # <<>> => p = q \/ p \in ToSet(mergeOrder)
                       /\ found'[p] # <<>> => outcome'[p] = "ok"
                       /\ outcome'[p] = "ok" => found'[p] # <<>>
    BY <1>2, <1>6 DEF Requests
  <2>. QED
    BY <1>1, <1>5, <1>6, <1>7 DEF Requests
<1>10. Places'
  BY <1>2, <1>3 DEF Places
<1>11. MergedOk'
  <2>1. ASSUME DOMAIN merged' = {}, NEW p \in Providers, found'[p] # <<>>
        PROVE  p \in Asking'
    BY <2>1, <1>1, <1>2, <1>5, <1>6 DEF MergedOk
  <2>. QED
    BY <2>1, <1>1, <1>2, <1>3 DEF MergedOk
<1>. QED
  BY <1>8, <1>9, <1>10, <1>11 DEF SearchInv

\* What holds while the provider of a serial search has answered.
LEMMA SeriallyAnswered ==
  ASSUME SearchInv, phase = "asked serially", Running = {}
  PROVE  /\ SearchType /\ Requests /\ Places /\ MergedOk
         /\ route[pos] \in Providers /\ route[pos] \in ToSet(route) /\ mergeOrder = route
         /\ Asking = {route[pos]} /\ response = "none" /\ passed = FALSE
         /\ route \in Seq(Providers) /\ Len(route) \in Nat
         /\ floor \in 0..2 /\ floor <= Len(route) /\ pos \in Nat \ {0}
         /\ \A p \in Providers : request[p] = "idle" /\ (found[p] # <<>> => p \in ToSet(route))
<1>1. SearchType /\ Requests /\ Places /\ MergedOk
  BY DEF SearchInv
<1>2. /\ route \in Seq(Providers) /\ Len(route) \in Nat /\ pos \in Nat \ {0}
      /\ mergeOrder = route /\ floor \in 0..2
      /\ response = "none" /\ passed = FALSE /\ floor <= Len(route) /\ pos <= Len(route)
  <2>0. route \in Seq(Providers) /\ pos \in Nat \ {0} /\ floor \in 0..2
    BY <1>1 DEF SearchType
  <2>2. mergeOrder = route /\ passed = FALSE /\ response = "none"
    BY <1>1 DEF Places
  <2>3. floor <= Len(route) /\ pos <= Len(route)
    BY <1>1 DEF Places
  <2>4. Len(route) \in Nat
    BY <2>0, <2>3, PlaceInRoute
  <2>. QED
    BY <2>0, <2>2, <2>3, <2>4
<1>3. route[pos] \in Providers /\ route[pos] \in ToSet(route)
  BY <1>2, PlaceInRoute
<1>4. Asking = {route[pos]}
  BY DEF Asking
<1>5. \A p \in Providers : request[p] = "idle"
  BY NobodyRuns
<1>. QED
  BY <1>1, <1>2, <1>3, <1>4, <1>5 DEF Requests

LEMMA FirstHitKeeps ==
  ASSUME SearchInv, FirstHit
  PROVE  SearchInv'
<1>. DEFINE p == route[pos]
            list == [l \in ToSet(found[p]) |-> {p}]
            f == Converge(Recompute(floor, Failed), {p})
<1>1. /\ SearchType /\ Requests /\ Places /\ MergedOk
      /\ p \in Providers /\ p \in ToSet(route) /\ mergeOrder = route
      /\ Asking = {p} /\ response = "none" /\ route \in Seq(Providers)
      /\ Len(route) \in Nat /\ floor \in 0..2 /\ floor <= Len(route)
      /\ \A q \in Providers : request[q] = "idle" /\ (found[q] # <<>> => q \in ToSet(route))
  BY SeriallyAnswered DEF FirstHit
<1>2. /\ merged' = list /\ floor' = f /\ Judge(list, {p}, f)
      /\ phase' = "done" /\ response' = "results"
      /\ UNCHANGED <<config, route, mergeOrder, pos>> /\ UNCHANGED <<request, outcome, found>>
  BY DEF FirstHit, Finish, requestVars, orderVars
<1>3. PICK known \in BOOLEAN : passed' = Verdict(list, {p}, Len(route), f, known)
  BY <1>2 DEF Judge
<1>4. f \in 0..2 /\ f <= Len(route)
  BY <1>1, FloorStaysReachable
<1>5. Cardinality({p}) = 1
  BY FS_Singleton
<1>6. passed' \in BOOLEAN
  BY <1>3 DEF Verdict
<1>7. DOMAIN list = ToSet(found[p]) /\ \A l \in DOMAIN list : list[l] = {p}
  OBVIOUS
<1>. HIDE DEF list, f, p
<1>8. passed' => Cardinality(UNION {merged'[l] : l \in DOMAIN merged'}) >= floor'
  <2>. SUFFICES ASSUME passed' PROVE Cardinality(UNION {list[l] : l \in DOMAIN list}) >= f
    BY <1>2
  <2>0. Verdict(list, {p}, Len(route), f, known)
    BY <1>3
  <2>1. Cardinality({p}) \in Nat /\ Len(route) \in Nat
    BY <1>1, <1>5
  <2>2. Cardinality({p}) >= f /\ DOMAIN list # {}
    BY <1>4, <2>0, <2>1, GoodIsCovered
  <2>3. UNION {list[l] : l \in DOMAIN list} = {p}
    BY <1>7, <2>2
  <2>. QED
    BY <2>2, <2>3
<1>9. SearchType'
  BY <1>1, <1>2, <1>4, <1>6 DEF SearchType
<1>10. Requests'
  BY <1>1, <1>2 DEF Requests
<1>11. Places'
  BY <1>2 DEF Places
<1>12. MergedOk'
  BY <1>1, <1>2, <1>7, <1>8 DEF MergedOk
<1>. QED
  BY <1>9, <1>10, <1>11, <1>12 DEF SearchInv

LEMMA MergeNextKeeps ==
  ASSUME SearchInv, MergeNext
  PROVE  SearchInv'
<1>1. /\ SearchType /\ Requests /\ mergeOrder = route /\ route \in Seq(Providers)
      /\ response = "none" /\ passed = FALSE /\ Len(route) \in Nat /\ floor <= Len(route)
      /\ pos \in Nat \ {0}
      /\ \A q \in Providers : request[q] = "idle" /\ (found[q] # <<>> => q \in ToSet(route))
  BY SeriallyAnswered DEF MergeNext
<1>2. PICK list \in {Merge(route, found)} :
        /\ merged' = list
        /\ pos' = IF /\ Cardinality(DOMAIN list) >= config.limit
                     /\ Cardinality(InOutput(list, WithResults)) >= floor
                  THEN Len(route) + 1 ELSE pos + 1
  BY DEF MergeNext
<1>3. /\ UNCHANGED <<request, outcome, found>> /\ phase' = "serial"
      /\ UNCHANGED <<config, route, mergeOrder, floor, passed, response>>
  BY DEF MergeNext, requestVars, orderVars
<1>4. /\ DOMAIN list = {} => \A p \in Providers : found[p] = <<>>
      /\ \A l \in DOMAIN list : list[l] # {} /\ list[l] \subseteq Providers
  BY <1>1, MergedHasAll
<1>5. pos' \in Nat \ {0}
  BY <1>1, <1>2
<1>6. SearchType'
  BY <1>1, <1>3, <1>5 DEF SearchType
<1>7. Requests'
  BY <1>1, <1>3 DEF Requests
<1>8. Places'
  <2>1. mergeOrder' = route' /\ passed' = FALSE /\ response' = "none"
    BY <1>1, <1>3
  <2>2. floor' <= Len(route') /\ Len(route') <= Len(mergeOrder')
    BY <1>1, <1>3
  <2>. QED
    BY <2>1, <2>2, <1>3 DEF Places
<1>9. MergedOk'
  BY <1>1, <1>2, <1>3, <1>4 DEF MergedOk
<1>. QED
  BY <1>6, <1>7, <1>8, <1>9 DEF SearchInv

LEMMA NoHitKeeps ==
  ASSUME SearchInv, NoHit
  PROVE  SearchInv'
<1>1. /\ SearchType /\ Requests /\ MergedOk /\ mergeOrder = route /\ route \in Seq(Providers)
      /\ response = "none" /\ passed = FALSE /\ Len(route) \in Nat /\ floor <= Len(route)
      /\ pos \in Nat \ {0} /\ Asking = {route[pos]} /\ phase = "asked serially"
      /\ route[pos] \in Providers
      /\ \A q \in Providers : request[q] = "idle" /\ (found[q] # <<>> => q \in ToSet(route))
  BY SeriallyAnswered DEF NoHit
<1>2. /\ UNCHANGED <<request, outcome, found>> /\ phase' = "serial" /\ pos' = pos + 1
      /\ UNCHANGED <<config, route, mergeOrder, floor, merged, passed, response>>
  BY DEF NoHit, requestVars, orderVars
<1>3. \A p \in Asking : found[p] = <<>>
  <2>. SUFFICES ASSUME NEW p \in Asking PROVE found[p] = <<>>
    OBVIOUS
  <2>1. p = route[pos] /\ p \in Providers
    BY <1>1
  <2>2. outcome[p] # "ok"
    BY <2>1 DEF NoHit
  <2>. QED
    BY <1>1, <2>1, <2>2 DEF Requests
<1>0. pos' \in Nat \ {0}
  <2>1. pos \in Nat \ {0} /\ pos' = pos + 1
    BY <1>1, <1>2
  <2>. QED
    BY <2>1
<1>4. SearchType'
  BY <1>1, <1>2, <1>0 DEF SearchType
<1>5. Requests'
  BY <1>1, <1>2 DEF Requests
<1>6. Places'
  <2>1. mergeOrder' = route' /\ passed' = FALSE /\ response' = "none"
    BY <1>1, <1>2
  <2>2. floor' <= Len(route') /\ Len(route') <= Len(mergeOrder')
    <3>1. floor' = floor /\ route' = route /\ mergeOrder' = route
      BY <1>1, <1>2
    <3>2. floor <= Len(route) /\ Len(route) \in Nat
      BY <1>1
    <3>. QED
      BY <3>1, <3>2
  <2>. QED
    BY <2>1, <2>2, <1>2 DEF Places
<1>7. MergedOk'
  <2>1. DOMAIN merged = {} => \A p \in Providers : found[p] = <<>>
    BY <1>1, <1>3 DEF MergedOk
  <2>. QED
    BY <2>1, <1>1, <1>2 DEF MergedOk
<1>. QED
  BY <1>4, <1>5, <1>6, <1>7 DEF SearchInv

LEMMA SerialEndsKeeps ==
  ASSUME SearchInv, SerialEnds
  PROVE  SearchInv'
<1>. DEFINE contributors == InOutput(merged, WithResults)
            f == Converge(Recompute(floor, Failed), contributors)
            named == IF config.mode = "merge" THEN "multi-route" ELSE route[Len(route)]
            names == IF contributors = {} THEN {named} ELSE contributors
<1>1. SearchType /\ Requests /\ Places /\ MergedOk /\ phase = "serial"
  BY DEF SearchInv, SerialEnds
<1>2. /\ floor' = f /\ Judge(merged, names, f) /\ ReturnList(merged)
      /\ UNCHANGED <<requestVars, config>> /\ UNCHANGED <<route, mergeOrder, pos, merged>>
  BY DEF SerialEnds, orderVars
<1>3. /\ route \in Seq(Providers) /\ Len(route) \in Nat /\ floor \in 0..2
      /\ mergeOrder = route /\ floor <= Len(route)
  BY <1>1 DEF SearchType, Places
<1>4. Asking = {}
  BY <1>1 DEF Asking
<1>5. DOMAIN merged = {} => \A p \in Providers : found[p] = <<>>
  BY <1>1, <1>4 DEF MergedOk
<1>6. \A p \in Providers : request[p] = "idle"
  BY <1>1, NobodyRuns
<1>7. \A l \in DOMAIN merged : merged[l] # {} /\ merged[l] \subseteq Providers
  BY <1>1 DEF MergedOk
<1>8. /\ contributors \subseteq Providers
      /\ contributors = UNION {merged[l] : l \in DOMAIN merged}
      /\ contributors = {} => DOMAIN merged = {}
  BY <1>7, OutputNames
<1>. HIDE DEF contributors
<1>9. f \in 0..2 /\ f <= Len(route)
  BY <1>3, <1>8, FloorStaysReachable
<1>. HIDE DEF f
<1>10. Cardinality(names) \in Nat
  <2>1. Cardinality(contributors) \in Nat
    BY <1>8, ProvidersFinite
  <2>2. Cardinality({named}) = 1
    BY FS_Singleton
  <2>. QED
    BY <2>1, <2>2
<1>. HIDE DEF named
<1>11. PICK known \in BOOLEAN : passed' = Verdict(merged, names, Len(route), f, known)
  BY <1>2 DEF Judge
<1>12. passed' \in BOOLEAN
  BY <1>11 DEF Verdict
<1>13. passed' => Cardinality(UNION {merged'[l] : l \in DOMAIN merged'}) >= floor'
  <2>. SUFFICES ASSUME passed' PROVE Cardinality(contributors) >= f
    BY <1>2, <1>8
  <2>. HIDE DEF names
  <2>1. Cardinality(names) >= f /\ DOMAIN merged # {}
    BY <1>3, <1>9, <1>10, <1>11, GoodIsCovered
  <2>2. names = contributors
    BY <2>1, <1>8 DEF names
  <2>. QED
    BY <2>1, <2>2
<1>14. /\ route' \in Seq(Providers) /\ mergeOrder' \in Seq(Providers)
       /\ ToSet(mergeOrder) \subseteq ToSet(mergeOrder')
       /\ \A p \in Providers : found[p] # <<>> => p \in ToSet(mergeOrder')
       /\ floor' \in 0..2 /\ pos' \in Nat \ {0}
  BY <1>1, <1>2, <1>3, <1>4, <1>9 DEF SearchType, Requests
<1>15. \A l \in DOMAIN merged' : merged'[l] # {} /\ merged'[l] \subseteq Providers
  BY <1>2, <1>7
<1>. QED
  BY <1>1, <1>2, <1>5, <1>6, <1>12, <1>13, <1>14, <1>15, ReturnStays

-----------------------------------------------------------------------------
(* google_search: the theorems                                             *)

LEMMA SearchKeeps == SearchInv /\ [Next]_vars => SearchInv'
<1>. SUFFICES ASSUME SearchInv, [Next]_vars PROVE SearchInv'
  OBVIOUS
<1>1. CASE phase # "done" /\ RouteNext
  <2>1. CASE Refuse \/ Start
    BY <2>1, RefuseKeeps, StartKeeps
  <2>2. CASE RequestStep \/ RequestWaits
    BY <2>2, <1>1, RequestStepKeeps
  <2>3. CASE Join \/ MergeParallel
    BY <2>3, JoinKeeps, MergeParallelKeeps
  <2>4. CASE AskTrusted \/ TrustedAnswered \/ TrustedEnds
    BY <2>4, AskTrustedKeeps, TrustedAnsweredKeeps, TrustedEndsKeeps
  <2>5. CASE AskNext \/ FirstHit \/ MergeNext
    BY <2>5, AskNextKeeps, FirstHitKeeps, MergeNextKeeps
  <2>6. CASE NoHit \/ SerialEnds
    BY <2>6, NoHitKeeps, SerialEndsKeeps
  <2>. QED
    BY <1>1, <2>1, <2>2, <2>3, <2>4, <2>5, <2>6 DEF RouteNext
<1>2. CASE RouteForgotten
  <2>1. /\ phase' = "idle" /\ route' = <<>> /\ mergeOrder' = <<>> /\ floor' = 0 /\ pos' = 1
        /\ merged' = <<>> /\ passed' = FALSE /\ response' = "none" /\ config' = config
        /\ request' = [p \in Providers |-> "idle"]
        /\ outcome' = [p \in Providers |-> "none"]
        /\ found' = [p \in Providers |-> <<>>]
    BY <1>2 DEF RouteForgotten, RequestForgotten
  <2>2. SearchType'
    <3>1. found' \in [Providers -> ResultLists]
      BY <2>1, NothingIsAList
    <3>2. /\ request' \in [Providers -> {"idle", "precheck", "sending"}]
          /\ outcome' \in [Providers -> {"none", "ok", "empty", "error", "timeout"}]
      BY <2>1
    <3>3. config' \in Configs
      BY <2>1 DEF SearchInv, SearchType
    <3>4. route' \in Seq(Providers) /\ mergeOrder' \in Seq(Providers)
      BY <2>1
    <3>5. floor' \in 0..2 /\ pos' \in Nat \ {0}
      BY <2>1
    <3>6. phase' = "idle" /\ passed' \in BOOLEAN
      BY <2>1
    <3>. QED
      BY <3>1, <3>2, <3>3, <3>4, <3>5, <3>6 DEF SearchType
  <2>3. Requests' /\ Places'
    BY <2>1 DEF Requests, Places
  <2>4. MergedOk'
    <3>1. DOMAIN merged' = {}
      BY <2>1
    <3>. QED
      BY <2>1, <3>1 DEF MergedOk
  <2>. QED
    BY <2>2, <2>3, <2>4 DEF SearchInv
<1>3. CASE UNCHANGED routeVars
  <2>1. UNCHANGED <<config, phase, route, mergeOrder, floor, pos, merged, passed, response,
                    request, outcome, found>>
    BY <1>3 DEF routeVars, searchVars, orderVars, requestVars
  <2>2. TrustedOrder' = TrustedOrder
    BY <2>1, TrustedStays
  <2>3. Asking' = Asking
    BY <2>1, <2>2 DEF Asking
  <2>4. SearchType' /\ Requests' /\ MergedOk'
    BY <2>1, <2>3 DEF SearchInv, SearchType, Requests, MergedOk
  <2>5. Places'
    BY <2>1, <2>2 DEF SearchInv, Places
  <2>. QED
    BY <2>4, <2>5 DEF SearchInv
<1>. QED
  BY <1>1, <1>2, <1>3, OneToolMoves

\* SearchInv, the four facts about a search together, is inductive: what is
\* requested and running, where the places of the route are, and what the merged
\* list holds at each point of the route (route_search and its merge helpers).
THEOREM SearchInvariant == Spec => []SearchInv
BY SearchInitially, SearchKeeps, PTL DEF Spec

\* Whatever a provider of the last search returned reaches the caller in every
\* mode (_merge_provider_results, merge_order of the trusted fallback): an
\* answer is empty only when nobody found anything.
THEOREM NothingLostAlways == Spec => []NothingLost
<1>1. SearchInv => NothingLost
  BY DEF SearchInv, MergedOk, NothingLost
<1>. QED
  BY <1>1, SearchInvariant, PTL

\* "passed" of the confidence is only said of an answer whose own results come
\* from as many providers as the tier demands (_evaluate_confidence over
\* _providers_in_output), in every mode and after every change of the tier.
THEOREM PassedIsCoveredAlways == Spec => []PassedIsCovered
<1>1. SearchInv => PassedIsCovered
  BY DEF SearchInv, MergedOk, PassedIsCovered
<1>. QED
  BY <1>1, SearchInvariant, PTL
=============================================================================
