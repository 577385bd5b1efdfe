---------------------------- MODULE ClaimSupport ----------------------------
(***************************************************************************)
(* What a report says about its sources: the citations of its text         *)
(* (enforce_citations) and the support of its claims (claim_verification), *)
(* over every registry a task can have gathered and every answer the model *)
(* can give.                                                               *)
(*                                                                         *)
(* Nothing runs beside the report, so the prompt, the count and the        *)
(* citations see one registry.  A claim is judged on its own; what a       *)
(* source supports is for the model to say, and the quotes it gives are    *)
(* compared with what it was shown.  Words, layout and the graph are left  *)
(* out: of the graph's edges only the one to the gap node counts.          *)
(***************************************************************************)
EXTENDS SourceRegistry, FiniteSetsExt

CONSTANT SameSite  \* addresses of one domain; the others have their own

ASSUME SiteAssumption == SameSite \subseteq Urls

\* normalize_domain.
Domain(u) == IF u \in SameSite THEN SameSite ELSE {u}

\* _is_citable, citable_sources.
Citable ==
  {i \in Ids : \/ entries[i].status = "fetched"
               \/ entries[i].status \in {"snippet_only", "fetch_failed"} /\ entries[i].hits}

-----------------------------------------------------------------------------
(* Claims                                                                  *)

\* Ids the model may write: those of the registry, and one that is not in it.
Writable == Ids \cup {0}

\* Answers about one claim: any support, at most one source that is refuted
\* or unknown, and at most one pair of one origin.  "quoted" are the
\* sources whose evidence is found word for word in the excerpt the prompt
\* showed of them, all but at most one.
AtMostOne == {{i} : i \in Writable} \cup {{}}

Verdicts ==
  {v \in {[support |-> s, refute |-> r, unknown |-> k, quoted |-> q, group |-> g] :
          s \in SUBSET Writable, r \in AtMostOne, k \in AtMostOne,
          q \in {Ids \ one : one \in AtMostOne},
          g \in {p \in SUBSET Ids : Cardinality(p) \in {0, 2}}} :
     v.refute = {} \/ v.unknown = {}}

\* adjudication_source_view: the sources whose body the prompt quotes from.
Excerpts == {i \in Citable : entries[i].ref # 0}

\* Variant: contradictions are left to the reader.
Conflicts_None(v) == {}

Conflicts(v) ==
  (v.support \cap v.refute) \cup (v.support \cap v.unknown) \cup (v.refute \cap v.unknown)

\* sanitize_claim_map: only citable sources, and a source that is in two sets
\* is unknown.
Sanitized(v) ==
  LET both == Conflicts([v EXCEPT !.support = @ \cap Citable,
                                  !.refute = @ \cap Citable])
  IN  [support |-> (v.support \cap Citable) \ both,
       refute |-> (v.refute \cap Citable) \ both,
       unknown |-> (v.unknown \cap Citable) \cup both,
       quoted |-> v.quoted \cap Excerpts,
       group |-> v.group \cap Citable]

\* independent_support, count: sources of one group are one origin.
Count(v) ==
  LET same == v.support \cap v.group
  IN  Cardinality(v.support \ same) + Min({1, Cardinality(same)})

\* Variant: whoever was fetched counts as read.
Read_Fetched(v) == {i \in v.support : entries[i].status = "fetched"}

\* The supporting sources that were read: fetched, shown to the model and
\* quoted from what it was shown.
Read(v) ==
  {i \in v.support : /\ entries[i].status = "fetched"
                     /\ i \in Excerpts
                     /\ i \in v.quoted}

\* The domain of an entry is that of the address it was found under.
OneDomainEach(S) ==
  \A i, j \in S : i # j => Domain(entries[i].url) # Domain(entries[j].url)

\* independent_support, certain.
Certain(v) == v.support = {} \/ (Read(v) = v.support /\ OneDomainEach(v.support))

\* render_independent_support.
Rendered(v) ==
  IF Count(v) = 0 THEN "insufficient"
  ELSE IF ~Certain(v) THEN "undecided"
  ELSE IF Count(v) < 2 THEN "too few"
  ELSE "exact"

-----------------------------------------------------------------------------
(* Citations                                                               *)

\* Variant: a link is looked up under the address of its entry alone.
Targets_Url(i) == {entries[i].url}

\* targets_by_id.
Targets(i) == Names(i)

\* [n], where the text may define [n]: url elsewhere (0: it does not).
CiteNumber(n, defined) ==
  IF n \in Citable /\ (defined = {} \/ defined \subseteq Targets(n)) THEN n ELSE 0

\* [n](url).
CiteBoth(n, u) == IF n \in Citable /\ u \in Targets(n) THEN n ELSE 0

\* [text](url), and a bare url: by_url prefers the source that has the
\* address for its own.
CiteLink(u) ==
  LET own == {i \in Citable : entries[i].url = u}
      known == {i \in Citable : u \in Targets(i)}
  IN  IF own # {} THEN Max(own) ELSE IF known # {} THEN Canonical(known) ELSE 0

-----------------------------------------------------------------------------
(* Properties                                                              *)

\* A report that says "N independent sources support" a claim has N stored
\* bodies to show for it, no two of them found under a common address, each
\* of a source the model neither refuted nor left out and quoted from its
\* excerpt.
ExactIsGrounded ==
  \A v \in {Sanitized(w) : w \in Verdicts} :
    Rendered(v) = "exact" =>
      LET bodies == {entries[i].ref : i \in (v.support \cap v.quoted) \ v.refute}
      IN  /\ Cardinality(bodies) >= Count(v)
          /\ bodies \subseteq DOMAIN steps
          /\ \A b, c \in bodies : b # c => steps[b] \cap steps[c] = {}

\* A link to any address of a citable source is cited as that source, also one
\* written before a redirect made the address an alias; a number that the text
\* ties to an address survives only as the source of that address.
CitationsResolve ==
  \A u \in Urls :
    /\ index[u] \in Citable => CiteLink(u) = index[u]
    /\ \A n \in Writable :
         /\ CiteBoth(n, u) # 0 => index[u] = n
         /\ CiteNumber(n, {u}) # 0 => index[u] = n

Spec == RegistrySpec
=============================================================================
