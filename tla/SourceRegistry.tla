--------------------------- MODULE SourceRegistry ---------------------------
(***************************************************************************)
(* The sources of a task (SourceRegistry): what a search found and what a  *)
(* scrape brought, under numbers that reports cite.  A scrape that was     *)
(* redirected joins the entries of all addresses it went through.          *)
(*                                                                         *)
(* An address is its normalized form, so that two spellings of one are the *)
(* same.  Titles, snippets and the turns of an entry are left out, and of   *)
(* its discoveries only that there are some.  Of the step log only the     *)
(* bodies of scrapes are kept, each as the addresses it was found under.   *)
(* A payload of several hits registers them one at a time.                 *)
(***************************************************************************)
EXTENDS Integers, Sequences, FiniteSets

CONSTANTS
  Urls,       \* normalized addresses
  MaxScrapes  \* bound of the model: scrapes that bring a body

ASSUME UrlAssumption == IsFiniteSet(Urls) /\ MaxScrapes \in Nat

Statuses == {"snippet_only", "fetched", "fetch_failed", "fetch_empty"}

VARIABLES
  entries,  \* from source_id to the entry
  index,    \* _index: from address to source_id, 0 when it has none
  next,     \* next_source_id
  steps,    \* step_logs: the addresses of every stored body
  issued    \* the address every number was given to

registryVars == <<entries, index, next, steps, issued>>

Ids == DOMAIN entries

\* The addresses an entry stands for.
Names(i) == {entries[i].url} \cup entries[i].aliases

RegistryInit ==
  /\ entries = <<>> /\ index = [u \in Urls |-> 0] /\ next = 1
  /\ steps = <<>> /\ issued = <<>>

\* SourceEntry as _ensure_entry makes it.
New(u) == [url |-> u, aliases |-> {}, status |-> "snippet_only",
           hits |-> FALSE, ref |-> 0]

\* The entry u has or would get.
Owner(u) == IF index[u] = 0 THEN next ELSE index[u]

\* f with the value e for i.
With(f, i, e) == [j \in DOMAIN f \cup {i} |-> IF j = i THEN e ELSE f[j]]

\* _ensure_entry(u), whose entry then becomes e.
Ensure(u, e) ==
  /\ entries' = With(entries, Owner(u), e)
  /\ IF index[u] = 0
     THEN /\ index' = [index EXCEPT ![u] = next]
          /\ next' = next + 1
          /\ issued' = IF next \in DOMAIN issued THEN issued
                       ELSE With(issued, next, u)
     ELSE UNCHANGED <<index, next, issued>>

\* The entry of u before a call touches it.
EntryOf(u) == IF index[u] = 0 THEN New(u) ELSE entries[index[u]]

\* register_search_hits: a hit with an address.
Hit(u) ==
  /\ Ensure(u, [EntryOf(u) EXCEPT !.hits = TRUE])
  /\ UNCHANGED steps

\* mark_fetch_failed.
FetchFailed(u) ==
  /\ Ensure(u, [EntryOf(u) EXCEPT
                  !.status = IF @ = "fetched" THEN @ ELSE "fetch_failed"])
  /\ UNCHANGED steps

\* mark_fetch_empty: a source that a search had found stays what it was, as
\* long as it is but a snippet.
FetchEmpty(u) ==
  /\ LET e == EntryOf(u)
         stays == e.status = "fetched" \/ (e.status = "snippet_only" /\ e.hits)
     IN  Ensure(u, [e EXCEPT !.status = IF stays THEN @ ELSE "fetch_empty"])
  /\ UNCHANGED steps

-----------------------------------------------------------------------------
(* A scrape that brought a body                                            *)

\* Variant: aliases that an entry has got before do not count.
Related_ByUrl(seen) == {i \in Ids : entries[i].url \in seen}

\* The entries of the addresses a scrape went through.
Related(seen) == {i \in Ids : Names(i) \cap seen # {}}

\* The entry found first.
Canonical(S) == CHOOSE i \in S : \A j \in S : i <= j

\* Variant: what the joined entries were known under is forgotten.
Known_Seen(S, seen) == seen

\* normalized_urls: with the addresses of the entries that are joined.
Known(S, seen) == seen \cup UNION {Names(i) : i \in S}

\* content_ref: of the first entry that has one, or the new body.
Reference(S) ==
  LET read == {i \in S : entries[i].ref # 0}
  IN  IF read = {} THEN Len(steps) + 1 ELSE entries[Canonical(read)].ref

\* Variant: the joined entries stay beside the one they are joined to.
Kept_All(S, c) == Ids

\* The entries that are left when those of S are folded into c.
Kept(S, c) == (Ids \ S) \cup {c}

\* mark_fetched after a scrape of a new address: no entry is related.
FetchedNew(u, seen) ==
  /\ Related(seen) = {}
  /\ entries' = With(entries, next,
       [url |-> u, aliases |-> seen \ {u}, status |-> "fetched", hits |-> FALSE,
        ref |-> Len(steps) + 1])
  /\ index' = [v \in Urls |-> IF v \in seen THEN next ELSE index[v]]
  /\ next' = next + 1
  /\ issued' = IF next \in DOMAIN issued THEN issued ELSE With(issued, next, u)

\* mark_fetched with related entries: they are folded into the first.
FetchedKnown(seen) ==
  LET S == Related(seen)
      c == Canonical(S)
      known == Known(S, seen)
      folded(i) ==
        [url |-> entries[i].url, aliases |-> known \ {entries[i].url},
         status |-> "fetched", hits |-> \E j \in S : entries[j].hits,
         ref |-> Reference(S)]
  IN  /\ S # {}
      /\ entries' = [i \in Kept(S, c) |-> IF i = c THEN folded(c) ELSE entries[i]]
      /\ index' = [v \in Urls |-> IF v \in known \ {entries[c].url}
                                  THEN c ELSE index[v]]
      /\ UNCHANGED <<next, issued>>

\* _record_scrape_source_state of a scrape with a body: the body is logged and
\* then the registry hears of it.
Fetched(u, seen) ==
  /\ Len(steps) < MaxScrapes /\ u \in seen
  /\ steps' = Append(steps, seen)
  /\ FetchedNew(u, seen) \/ FetchedKnown(seen)

-----------------------------------------------------------------------------
(* A registry that is built again from its snapshot                        *)

\* Variant: from the entries alone.
NextId_FromEntries ==
  IF Ids = {} THEN 1 ELSE 1 + (CHOOSE i \in Ids : \A j \in Ids : j <= i)

\* __post_init__: the counter of the snapshot, or what the entries demand.
NextId ==
  IF \E i \in Ids : i >= next
  THEN 1 + (CHOOSE i \in Ids : \A j \in Ids : j <= i) ELSE next

\* __post_init__: addresses of entries first, then aliases that are still free.
Rebuilt(u) ==
  LET byUrl == {i \in Ids : entries[i].url = u}
      byAlias == {i \in Ids : u \in entries[i].aliases}
  IN  IF byUrl # {} THEN CHOOSE i \in byUrl : \A j \in byUrl : j <= i
      ELSE IF byAlias # {} THEN Canonical(byAlias) ELSE 0

\* TaskLog.from_dict.
Restore ==
  /\ index' = [u \in Urls |-> Rebuilt(u)]
  /\ next' = NextId
  /\ UNCHANGED <<entries, steps, issued>>

RegistryNext ==
  \/ \E u \in Urls : Hit(u) \/ FetchFailed(u) \/ FetchEmpty(u)
  \/ \E u \in Urls, seen \in SUBSET Urls : Fetched(u, seen)
  \/ Restore

RegistrySpec == RegistryInit /\ [][RegistryNext]_registryVars

-----------------------------------------------------------------------------
(* Properties                                                              *)

\* Every address leads to the one entry that carries it, also after entries
\* were joined or the registry was built again: no page has two numbers.
OneEntryPerAddress ==
  \A u \in Urls :
    /\ \A i \in Ids : u \in Names(i) <=> index[u] = i
    /\ index[u] # 0 => index[u] \in Ids

\* A number never comes to stand for another page, so that a citation written
\* early is right or dropped in the report: neither joining entries nor a
\* restart gives a retired number away again.
NumberKeepsItsPage ==
  /\ \A i \in Ids : i \in DOMAIN issued /\ entries[i].url = issued[i]
  /\ \A i \in DOMAIN issued : i < next
=============================================================================
