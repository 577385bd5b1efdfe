---------------------------- MODULE ProviderCall ----------------------------
(***************************************************************************)
(* The requests one google_search makes of its providers:                  *)
(* execute_provider_search around the search() of a provider.  The keyed   *)
(* providers (Serper, SerpAPI, Tavily) send through request_with_rotation  *)
(* over a pool of keys of their own; SearXNG has no key, checks once that   *)
(* its instance answers JSON and repeats a failed request.                 *)
(*                                                                         *)
(* The tool server is a process of its own for every tool call, so pools   *)
(* and the check start fresh with the search, and outlive a single request *)
(* only within it.  Sleeps are left out: a wait and the request after it    *)
(* are one step to everybody else.  A result is the link of it.            *)
(***************************************************************************)
EXTENDS Integers, Sequences, FiniteSets

CONSTANTS
  Keyed,       \* the available providers that have API keys
  Keyless,     \* the available ones that have none: {} or {"searxng"}
  PoolSizes,   \* how many keys a pool may have
  SearxTries,       \* stop_after_attempt of a SearXNG request
  Links,       \* what can be found
  MaxResults   \* results of one request

ASSUME CallAssumption ==
  /\ Keyed \cap Keyless = {} /\ IsFiniteSet(Keyed) /\ IsFiniteSet(Keyless)
  /\ PoolSizes \subseteq Nat \ {0} /\ SearxTries \in Nat \ {0} /\ MaxResults \in Nat

Providers == Keyed \cup Keyless

\* What a request can find; a provider lists a link once.
ResultLists ==
  {list \in UNION {[1..n -> Links] : n \in 0..MaxResults} :
     \A i, j \in DOMAIN list : list[i] = list[j] => i = j}
Endings == {"ok", "empty", "error", "timeout"}

VARIABLES
  poolSize,  \* keys in the pool of every keyed provider
  request,   \* per provider: idle | precheck | sending
  attempt,   \* per provider: attempts of the request that failed
  index,     \* per keyed provider: KeyPool._index, from 1
  cooling,   \* per keyed provider: its keys that cool down
  checked,   \* SearXNG: the check has passed and is still fresh
  outcome,   \* per provider: none, or how its last request ended
  found      \* per provider: the results of that request

requestVars == <<poolSize, request, attempt, index, cooling, checked, outcome, found>>

Keys == 1..poolSize

RequestInit ==
  /\ poolSize \in PoolSizes
  /\ request = [p \in Providers |-> "idle"]
  /\ attempt = [p \in Providers |-> 0]
  /\ index = [p \in Keyed |-> 1]
  /\ cooling = [p \in Keyed |-> {}]
  /\ checked = FALSE
  /\ outcome = [p \in Providers |-> "none"]
  /\ found = [p \in Providers |-> <<>>]

\* max_attempts of request_with_rotation: every key once and three more.
MaxAttempts(p) == IF p \in Keyed THEN poolSize + 3 ELSE SearxTries

\* next_available_key: the first key after the current one that does not
\* cool, 0 when there is none.
NextAvailable(p, cool) ==
  LET key(d) == ((index[p] - 1 + d) % poolSize) + 1
      free == {d \in Keys : key(d) \notin cool}
  IN  IF free = {} THEN 0 ELSE key(CHOOSE d \in free : \A e \in free : d <= e)

\* The providers of S are asked at once.  The result of an earlier request
\* of theirs is forgotten with it.  A passed check is used again while it is
\* fresh.
Asked(S, again) ==
  /\ request' = [p \in Providers |->
       IF p \notin S THEN request[p]
       ELSE IF p \in Keyless /\ ~again THEN "precheck" ELSE "sending"]
  /\ attempt' = [p \in Providers |-> IF p \in S THEN 0 ELSE attempt[p]]
  /\ outcome' = [p \in Providers |-> IF p \in S THEN "none" ELSE outcome[p]]
  /\ found' = [p \in Providers |-> IF p \in S THEN <<>> ELSE found[p]]
  /\ checked' = again
  /\ UNCHANGED <<poolSize, index, cooling>>

\* The request of p is over.
Ends(p, how, list) ==
  /\ request' = [request EXCEPT ![p] = "idle"]
  /\ outcome' = [outcome EXCEPT ![p] = how]
  /\ found' = [found EXCEPT ![p] = list]
  /\ attempt' = [attempt EXCEPT ![p] = 0]

\* _ensure_json_ready: the instance answers JSON.
PrecheckPasses(p) ==
  /\ request[p] = "precheck"
  /\ request' = [request EXCEPT ![p] = "sending"]
  /\ checked' = TRUE
  /\ UNCHANGED <<poolSize, attempt, index, cooling, outcome, found>>

\* It does not, or not in time: SearxngPrecheckError.
PrecheckFails(p) ==
  /\ request[p] = "precheck"
  /\ Ends(p, "error", <<>>)
  /\ checked' = FALSE
  /\ UNCHANGED <<poolSize, index, cooling>>

\* search() returns what is left after is_banned_url.
Answers(p) ==
  /\ request[p] = "sending"
  /\ \E list \in ResultLists :
       Ends(p, IF list = <<>> THEN "empty" ELSE "ok", list)
  /\ UNCHANGED <<poolSize, index, cooling, checked>>

\* The next attempt of the loop, or the last error of it.
Again(p, limited) ==
  IF attempt[p] + 1 < MaxAttempts(p)
  THEN /\ attempt' = [attempt EXCEPT ![p] = @ + 1]
       /\ UNCHANGED <<request, outcome, found>>
  ELSE Ends(p, "error", <<>>)

\* 5xx, a lost connection or a timeout, and for SearXNG every error status:
\* the same key once more, after a while.
FailsForNow(p) ==
  /\ request[p] = "sending"
  /\ Again(p, FALSE)
  /\ UNCHANGED <<poolSize, index, cooling, checked>>

\* 429 with several keys: the key that was used cools, the next free one
\* takes over at once; without one the search of this provider fails.
RateLimited(p) ==
  /\ p \in Keyed /\ request[p] = "sending" /\ poolSize > 1
  /\ LET cool == cooling[p] \cup {index[p]}
         key == NextAvailable(p, cool)
     IN  /\ cooling' = [cooling EXCEPT ![p] = cool]
         /\ IF key = 0
            THEN Ends(p, "error", <<>>) /\ UNCHANGED index
            ELSE Again(p, TRUE) /\ index' = [index EXCEPT ![p] = key]
  /\ UNCHANGED <<poolSize, checked>>

\* 429 with one key: it waits, and the pool does not hear of it.
SingleKeyLimited(p) ==
  /\ p \in Keyed /\ request[p] = "sending" /\ poolSize = 1
  /\ Again(p, TRUE)
  /\ UNCHANGED <<poolSize, index, cooling, checked>>

\* Another error status, or a body that is not what it should be.
Refused(p) ==
  /\ request[p] = "sending"
  /\ Ends(p, "error", <<>>)
  /\ UNCHANGED <<poolSize, index, cooling, checked>>

\* A cooldown is over.
CooldownEnds(p) ==
  /\ request[p] = "sending"
  /\ \E k \in cooling[p] : cooling' = [cooling EXCEPT ![p] = @ \ {k}]
  /\ UNCHANGED <<poolSize, request, attempt, index, checked, outcome,
                 found>>


\* asyncio.wait is over before the requests of S: they are cancelled.
GivenUp(S) ==
  /\ request' = [p \in Providers |-> IF p \in S THEN "idle" ELSE request[p]]
  /\ attempt' = [p \in Providers |-> IF p \in S THEN 0 ELSE attempt[p]]
  /\ outcome' = [p \in Providers |-> IF p \in S THEN "timeout" ELSE outcome[p]]
  /\ found' = [p \in Providers |-> IF p \in S THEN <<>> ELSE found[p]]
  /\ UNCHANGED <<poolSize, index, cooling, checked>>

\* The process of the requests has ended.
RequestForgotten ==
  /\ request' = [p \in Providers |-> "idle"]
  /\ attempt' = [p \in Providers |-> 0]
  /\ index' = [p \in Keyed |-> 1] /\ cooling' = [p \in Keyed |-> {}]
  /\ checked' = FALSE
  /\ outcome' = [p \in Providers |-> "none"]
  /\ found' = [p \in Providers |-> <<>>]
  /\ UNCHANGED poolSize

Running == {p \in Providers : request[p] # "idle"}

\* What makes a request end.
Progress(p) ==
  \/ PrecheckPasses(p) \/ PrecheckFails(p)
  \/ Answers(p) \/ FailsForNow(p)
  \/ RateLimited(p) \/ SingleKeyLimited(p) \/ Refused(p)
=============================================================================
