------------------------ MODULE SourceRegistryProofs ------------------------
(***************************************************************************)
(* Proofs about SourceRegistry, and about the claims and citations of a    *)
(* report over it, for any set of addresses and any number of scrapes,     *)
(* redirects and restarts.                                                 *)
(*                                                                         *)
(* The two properties need one another: a new number is only new because   *)
(* every number ever given lies below next, and an entry that others are   *)
(* folded into is the right one only because an address has one entry.     *)
(* What a claim is counted on rests on a third: the body an entry shows was *)
(* found under addresses of this entry.                                    *)
(***************************************************************************)
EXTENDS ClaimSupport, WellFoundedInduction, FiniteSetTheorems, TLAPS

Entry == [url : Urls, aliases : SUBSET Urls, status : Statuses,
          hits : BOOLEAN, ref : Nat]

Shape ==
  /\ next \in Nat \ {0}
  /\ Ids \subseteq Nat \ {0}
  /\ \A i \in Ids : entries[i] \in Entry
  /\ index \in [Urls -> Nat]
  /\ steps \in Seq(SUBSET Urls)
  /\ DOMAIN issued \subseteq Nat

\* The body of an entry is in the step log, and every address it was found under
\* is one of the entry.
BodyNamed(i) ==
  entries[i].ref # 0 =>
    /\ entries[i].ref \in 1..Len(steps)
    /\ steps[entries[i].ref] # {} /\ steps[entries[i].ref] \subseteq Names(i)

BodiesNamed == \A i \in Ids : BodyNamed(i)

Inv == Shape /\ OneEntryPerAddress /\ NumberKeepsItsPage /\ BodiesNamed

-----------------------------------------------------------------------------
(* Helpers                                                                 *)

Less == {p \in Nat \X Nat : p[1] < p[2]}

LEMMA LessIsWellFounded == IsWellFoundedOn(Less, Nat)
BY NatLessThanWellFounded DEF OpToRel, Less

\* The smallest of some numbers (the entry found first).
LEMMA CanonicalIsLeast ==
  ASSUME NEW S, S \subseteq Nat, S # {}
  PROVE  Canonical(S) \in S /\ \A j \in S : Canonical(S) <= j
<1>1. PICK x \in S : \A y \in S : ~(<<y, x>> \in Less)
  BY LessIsWellFounded, WFMin
<1>2. ASSUME NEW y \in S, y < x  PROVE FALSE
  <2>1. <<y, x>> \in Nat \X Nat
    OBVIOUS
  <2>2. <<y, x>> \in Less
    BY <1>2, <2>1 DEF Less
  <2>. QED
    BY <1>1, <2>2
<1>3. \A y \in S : x <= y
  BY <1>2
<1>. QED
  BY <1>3 DEF Canonical

\* The address an entry or a new one is made for stays among its names.
LEMMA EntryOfType ==
  ASSUME Shape, OneEntryPerAddress, NEW u \in Urls
  PROVE  /\ EntryOf(u) \in Entry
         /\ index[u] # 0 => index[u] \in Ids /\ EntryOf(u) = entries[index[u]]
         /\ index[u] = 0 => EntryOf(u) = New(u)
<1>1. New(u) \in Entry
  BY DEF New, Entry, Statuses
<1>. QED
  BY <1>1 DEF EntryOf, Shape, OneEntryPerAddress

\* A number that is given out is new: no entry has it and none ever had.
LEMMA NextIsNew ==
  ASSUME Shape, NumberKeepsItsPage
  PROVE  next \notin Ids /\ next \notin DOMAIN issued
BY DEF Shape, NumberKeepsItsPage
-----------------------------------------------------------------------------
(* The registry begins empty                                               *)

LEMMA InitInv == RegistryInit => Inv
<1>. SUFFICES ASSUME RegistryInit PROVE Inv
  OBVIOUS
<1>1. Ids = {} /\ DOMAIN issued = {}
  BY DEF RegistryInit, Ids
<1>2. Shape
  BY <1>1 DEF RegistryInit, Shape
<1>3. OneEntryPerAddress /\ NumberKeepsItsPage /\ BodiesNamed
  BY <1>1 DEF RegistryInit, OneEntryPerAddress, NumberKeepsItsPage, BodiesNamed
<1>. QED
  BY <1>2, <1>3 DEF Inv

-----------------------------------------------------------------------------
(* Hits and scrapes without a body                                         *)

\* Whatever a call writes into the entry of an address, but for its names.
LEMMA EnsureKeeps ==
  ASSUME Inv, NEW u \in Urls, NEW e \in Entry, Ensure(u, e), UNCHANGED steps,
         e.url = EntryOf(u).url, e.aliases = EntryOf(u).aliases,
         e.ref = EntryOf(u).ref
  PROVE  Inv'
<1>a. Shape /\ OneEntryPerAddress /\ NumberKeepsItsPage /\ BodiesNamed
  BY DEF Inv
<1>b. next \notin Ids /\ next \notin DOMAIN issued
  BY <1>a, NextIsNew
<1>1. CASE index[u] = 0
  <2>. PICK n \in Nat \ {0} : n = next
    BY <1>a DEF Shape
  <2>1. /\ Ids' = Ids \cup {n}
        /\ entries'[n] = e
        /\ \A i \in Ids : entries'[i] = entries[i]
    BY <1>1, <1>b DEF Ensure, Owner, With, Ids
  <2>2. /\ index' = [index EXCEPT ![u] = n]
        /\ next' = n + 1
        /\ DOMAIN issued' = DOMAIN issued \cup {n}
        /\ issued'[n] = u
        /\ \A i \in DOMAIN issued : issued'[i] = issued[i]
    BY <1>1, <1>b DEF Ensure, With
  <2>3. e.url = u /\ e.aliases = {} /\ e.ref = 0
    BY <1>1, <1>a, EntryOfType DEF New
  <2>4. Shape'
    BY <2>1, <2>2, <1>a DEF Shape
  <2>5. OneEntryPerAddress'
    <3>1. \A i \in Ids : Names(i)' = Names(i)
      BY <2>1 DEF Names
    <3>2. Names(n)' = {u}
      BY <2>1, <2>3 DEF Names
    <3>. QED
      BY <3>1, <3>2, <2>1, <2>2, <1>1, <1>a, <1>b DEF OneEntryPerAddress, Shape
  <2>6. NumberKeepsItsPage'
    BY <2>1, <2>2, <2>3, <1>a, <1>b DEF NumberKeepsItsPage, Shape
  <2>7. BodiesNamed'
    <3>1. ASSUME NEW i \in Ids PROVE BodyNamed(i)'
      BY <3>1, <2>1, <1>a DEF BodiesNamed, BodyNamed, Names
    <3>2. \A i \in {n} : BodyNamed(i)'
      BY <2>1, <2>3 DEF BodyNamed
    <3>. QED
      BY <3>1, <3>2, <2>1 DEF BodiesNamed
  <2>. QED
    BY <2>4, <2>5, <2>6, <2>7 DEF Inv
<1>2. CASE index[u] # 0
  <2>1. index[u] \in Ids /\ EntryOf(u) = entries[index[u]]
    BY <1>2, <1>a, EntryOfType
  <2>2. /\ Ids' = Ids
        /\ entries'[index[u]] = e
        /\ \A i \in Ids \ {index[u]} : entries'[i] = entries[i]
    BY <1>2, <2>1 DEF Ensure, Owner, With, Ids
  <2>3. UNCHANGED <<index, next, issued>>
    BY <1>2 DEF Ensure
  <2>4. Shape'
    BY <2>2, <2>3, <1>a DEF Shape
  <2>5. \A i \in Ids : Names(i)' = Names(i) /\ entries'[i].url = entries[i].url
    BY <2>1, <2>2 DEF Names
  <2>6. OneEntryPerAddress'
    BY <2>2, <2>3, <2>5, <1>a DEF OneEntryPerAddress
  <2>7. NumberKeepsItsPage'
    BY <2>2, <2>3, <2>5, <1>a DEF NumberKeepsItsPage
  <2>8. \A i \in Ids : entries'[i].ref = entries[i].ref
    BY <2>1, <2>2
  <2>9. BodiesNamed'
    BY <2>2, <2>5, <2>8, <1>a DEF BodiesNamed, BodyNamed
  <2>. QED
    BY <2>4, <2>6, <2>7, <2>9 DEF Inv
<1>. QED
  BY <1>1, <1>2

LEMMA HitKeeps == ASSUME Inv, NEW u \in Urls, Hit(u)  PROVE Inv'
<1>. DEFINE e == [EntryOf(u) EXCEPT !.hits = TRUE]
<1>1. EntryOf(u) \in Entry
  BY EntryOfType DEF Inv
<1>2. /\ e \in Entry
      /\ e.url = EntryOf(u).url /\ e.aliases = EntryOf(u).aliases
      /\ e.ref = EntryOf(u).ref
  BY <1>1 DEF Entry
<1>3. Ensure(u, e) /\ UNCHANGED steps
  BY DEF Hit
<1>. HIDE DEF e
<1>. QED
  BY <1>2, <1>3, EnsureKeeps

LEMMA FetchFailedKeeps == ASSUME Inv, NEW u \in Urls, FetchFailed(u)  PROVE Inv'
<1>. DEFINE e == [EntryOf(u) EXCEPT
                    !.status = IF @ = "fetched" THEN @ ELSE "fetch_failed"]
<1>1. EntryOf(u) \in Entry
  BY EntryOfType DEF Inv
<1>2. /\ e \in Entry
      /\ e.url = EntryOf(u).url /\ e.aliases = EntryOf(u).aliases
      /\ e.ref = EntryOf(u).ref
  BY <1>1 DEF Entry, Statuses
<1>3. Ensure(u, e) /\ UNCHANGED steps
  BY DEF FetchFailed
<1>. HIDE DEF e
<1>. QED
  BY <1>2, <1>3, EnsureKeeps

LEMMA FetchEmptyKeeps == ASSUME Inv, NEW u \in Urls, FetchEmpty(u)  PROVE Inv'
<1>. DEFINE old == EntryOf(u)
            stays == old.status = "fetched"
                       \/ (old.status = "snippet_only" /\ old.hits)
            e == [old EXCEPT !.status = IF stays THEN @ ELSE "fetch_empty"]
<1>1. old \in Entry
  BY EntryOfType DEF Inv
<1>2. (IF stays THEN old.status ELSE "fetch_empty") \in Statuses
  BY <1>1 DEF Entry, Statuses
<1>3. e = [old EXCEPT !.status = IF stays THEN old.status ELSE "fetch_empty"]
  OBVIOUS
<1>4. Ensure(u, e) /\ UNCHANGED steps
  BY DEF FetchEmpty
<1>. HIDE DEF stays
<1>5. /\ e \in Entry
      /\ e.url = old.url /\ e.aliases = old.aliases /\ e.ref = old.ref
  BY <1>1, <1>2, <1>3 DEF Entry
<1>. HIDE DEF e, old
<1>. QED
  BY <1>4, <1>5, EnsureKeeps DEF old

-----------------------------------------------------------------------------
(* Scrapes with a body                                                     *)

\* Addresses no entry is known under have no number.
LEMMA UnknownHaveNone ==
  ASSUME OneEntryPerAddress, NEW seen \in SUBSET Urls, Related(seen) = {}
  PROVE  \A v \in seen : index[v] = 0 /\ \A i \in Ids : v \notin Names(i)
BY DEF OneEntryPerAddress, Related

LEMMA FetchedNewKeeps ==
  ASSUME Inv, NEW u \in Urls, NEW seen \in SUBSET Urls, u \in seen,
         steps' = Append(steps, seen), FetchedNew(u, seen)
  PROVE  Inv'
<1>a. Shape /\ OneEntryPerAddress /\ NumberKeepsItsPage /\ BodiesNamed
  BY DEF Inv
<1>b. next \notin Ids /\ next \notin DOMAIN issued
  BY <1>a, NextIsNew
<1>. PICK n \in Nat \ {0} : n = next
  BY <1>a DEF Shape
<1>. DEFINE e == [url |-> u, aliases |-> seen \ {u}, status |-> "fetched",
                  hits |-> FALSE, ref |-> Len(steps) + 1]
<1>1. Len(steps) \in Nat /\ steps' \in Seq(SUBSET Urls)
  BY <1>a DEF Shape
<1>2. e \in Entry /\ e.url = u /\ e.aliases = seen \ {u} /\ e.ref = Len(steps) + 1
  <2>1. seen \ {u} \in SUBSET Urls /\ Len(steps) + 1 \in Nat
    BY <1>1
  <2>. QED
    BY <2>1 DEF Entry, Statuses
<1>3. entries' = With(entries, n, e)
  BY DEF FetchedNew
<1>. HIDE DEF e
<1>4. /\ Ids' = Ids \cup {n}
      /\ entries'[n] = e
      /\ \A i \in Ids : entries'[i] = entries[i]
  BY <1>3, <1>b DEF With, Ids
<1>5. /\ index' = [v \in Urls |-> IF v \in seen THEN n ELSE index[v]]
      /\ next' = n + 1
      /\ DOMAIN issued' = DOMAIN issued \cup {n}
      /\ issued'[n] = u
      /\ \A i \in DOMAIN issued : issued'[i] = issued[i]
  BY <1>b DEF FetchedNew, With
<1>6. Shape'
  BY <1>1, <1>2, <1>4, <1>5, <1>a DEF Shape
<1>7. OneEntryPerAddress'
  <2>1. \A i \in Ids : Names(i)' = Names(i)
    BY <1>4 DEF Names
  <2>2. Names(n)' = seen
    BY <1>2, <1>4 DEF Names
  <2>3. \A v \in seen : index[v] = 0 /\ \A i \in Ids : v \notin Names(i)
    BY <1>a, UnknownHaveNone DEF FetchedNew
  <2>. QED
    BY <2>1, <2>2, <2>3, <1>4, <1>5, <1>a, <1>b DEF OneEntryPerAddress, Shape
<1>8. NumberKeepsItsPage'
  <2>1. \A i \in Ids : i \in DOMAIN issued' /\ entries'[i].url = issued'[i]
    BY <1>4, <1>5, <1>a DEF NumberKeepsItsPage
  <2>2. n \in DOMAIN issued' /\ entries'[n].url = issued'[n]
    BY <1>2, <1>4, <1>5
  <2>3. \A i \in DOMAIN issued : i < n + 1
    BY <1>a DEF NumberKeepsItsPage, Shape
  <2>. QED
    BY <2>1, <2>2, <2>3, <1>4, <1>5 DEF NumberKeepsItsPage
<1>9. BodiesNamed'
  <2>1. /\ Len(steps') = Len(steps) + 1 /\ steps'[Len(steps) + 1] = seen
        /\ \A b \in 1..Len(steps) : b \in 1..Len(steps') /\ steps'[b] = steps[b]
    BY <1>1, <1>a DEF Shape
  <2>2. ASSUME NEW i \in Ids PROVE BodyNamed(i)'
    BY <2>1, <2>2, <1>4, <1>a DEF BodiesNamed, BodyNamed, Names
  <2>3. \A i \in {n} : BodyNamed(i)'
    BY <2>1, <1>1, <1>2, <1>4 DEF BodyNamed, Names
  <2>. QED
    BY <2>2, <2>3, <1>4 DEF BodiesNamed
<1>. QED
  BY <1>6, <1>7, <1>8, <1>9 DEF Inv

LEMMA FetchedKnownKeeps ==
  ASSUME Inv, NEW seen \in SUBSET Urls,
         steps' = Append(steps, seen), FetchedKnown(seen)
  PROVE  Inv'
<1>a. Shape /\ OneEntryPerAddress /\ NumberKeepsItsPage /\ BodiesNamed
  BY DEF Inv
<1>. DEFINE S == Related(seen)
            c == Canonical(S)
            known == Known(S, seen)
            hits == \E j \in S : entries[j].hits
            e == [url |-> entries[c].url, aliases |-> known \ {entries[c].url},
                  status |-> "fetched", hits |-> hits, ref |-> Reference(S)]
<1>1. S \subseteq Ids /\ S # {} /\ S \subseteq Nat
  BY <1>a DEF Shape, Related, FetchedKnown
<1>2. c \in S /\ c \in Ids
  BY <1>1, CanonicalIsLeast
<1>3. entries' = [i \in Kept(S, c) |-> IF i = c THEN e ELSE entries[i]]
  BY DEF FetchedKnown
<1>4. index' = [v \in Urls |-> IF v \in known \ {entries[c].url}
                               THEN c ELSE index[v]]
  BY DEF FetchedKnown
<1>5. UNCHANGED <<next, issued>>
  BY DEF FetchedKnown
<1>6. known \subseteq Urls /\ entries[c].url \in known /\ entries[c].url \in Urls
  BY <1>1, <1>2, <1>a DEF Known, Names, Shape, Entry
<1>7. Reference(S) \in Nat
  <2>. DEFINE read == {i \in S : entries[i].ref # 0}
  <2>1. CASE read = {}
    BY <2>1, <1>a DEF Reference, Shape
  <2>2. CASE read # {}
    <3>1. Canonical(read) \in read
      BY <2>2, <1>1, CanonicalIsLeast
    <3>2. entries[Canonical(read)].ref \in Nat
      BY <3>1, <1>1, <1>a DEF Shape, Entry
    <3>. QED
      BY <2>2, <3>2 DEF Reference
  <2>. QED
    BY <2>1, <2>2
<1>8. hits \in BOOLEAN
  OBVIOUS
<1>. HIDE DEF hits
<1>9. e \in Entry /\ e.url = entries[c].url /\ e.aliases = known \ {entries[c].url}
  BY <1>6, <1>7, <1>8 DEF Entry, Statuses
<1>r. e.ref = Reference(S)
  OBVIOUS
<1>. HIDE DEF e, known, c
<1>10. /\ Ids' = (Ids \ S) \cup {c}
       /\ entries'[c] = e
       /\ \A i \in Ids \ S : entries'[i] = entries[i]
  BY <1>2, <1>3 DEF Kept, Ids
<1>11. Shape'
  <2>1. steps' \in Seq(SUBSET Urls)
    BY <1>a DEF Shape
  <2>2. index' \in [Urls -> Nat]
    BY <1>1, <1>2, <1>4, <1>a DEF Shape
  <2>. QED
    BY <2>1, <2>2, <1>2, <1>5, <1>9, <1>10, <1>a DEF Shape
<1>12. OneEntryPerAddress'
  <2>1. \A i \in Ids \ S : Names(i)' = Names(i)
    BY <1>10 DEF Names
  <2>2. PICK d : d = c
    OBVIOUS
  <2>3. Names(d)' = known
    BY <2>2, <1>9, <1>10, <1>6 DEF Names
  <2>4. \A v \in known : v \in seen \/ \E i \in S : v \in Names(i)
    BY DEF known, Known
  <2>5. \A i \in S : \A v \in Names(i) : v \in known
    BY DEF known, Known
  <2>6. \A v \in Urls : v \in known => \A i \in Ids \ S : v \notin Names(i)
    BY <2>4, <1>1, <1>a DEF Related, OneEntryPerAddress
  <2>7. \A v \in Urls : index'[v] = IF v \in known THEN c ELSE index[v]
    <3>1. index[entries[c].url] = c
      BY <1>2, <1>6, <1>a DEF OneEntryPerAddress, Names
    <3>. QED
      BY <3>1, <1>4
  <2>8. \A v \in Urls : v \notin known => index[v] \notin S
    BY <2>5, <1>1, <1>a DEF OneEntryPerAddress
  <2>. QED
    BY <2>1, <2>2, <2>3, <2>6, <2>7, <2>8, <1>1, <1>2, <1>10, <1>a
    DEF OneEntryPerAddress, Shape
<1>13. NumberKeepsItsPage'
  BY <1>1, <1>2, <1>5, <1>9, <1>10, <1>a DEF NumberKeepsItsPage
<1>14. BodiesNamed'
  <2>1. /\ Len(steps) \in Nat
        /\ Len(steps') = Len(steps) + 1 /\ steps'[Len(steps) + 1] = seen
        /\ \A b \in 1..Len(steps) : b \in 1..Len(steps') /\ steps'[b] = steps[b]
    BY <1>a DEF Shape
  <2>2. ASSUME NEW i \in Ids \ S PROVE BodyNamed(i)'
    BY <2>1, <2>2, <1>10, <1>a DEF BodiesNamed, BodyNamed, Names
  <2>3. /\ Reference(S) \in 1..Len(steps') /\ steps'[Reference(S)] # {}
        /\ steps'[Reference(S)] \subseteq known
    <3>. DEFINE read == {i \in S : entries[i].ref # 0}
    <3>1. CASE read = {}
      <4>1. Reference(S) = Len(steps) + 1
        BY <3>1 DEF Reference
      <4>2. seen # {} /\ seen \subseteq known
        BY <1>1 DEF Related, known, Known
      <4>. QED
        BY <4>1, <4>2, <2>1
    <3>2. CASE read # {}
      <4>1. PICK i \in read : i = Canonical(read)
        BY <3>2, <1>1, CanonicalIsLeast
      <4>2. Reference(S) = entries[i].ref
        BY <3>2, <4>1 DEF Reference
      <4>3. BodyNamed(i) /\ i \in S /\ entries[i].ref # 0
        BY <4>1, <1>1, <1>a DEF BodiesNamed
      <4>4. Names(i) \subseteq known
        BY <4>3 DEF known, Known
      <4>. QED
        BY <4>2, <4>3, <4>4, <2>1 DEF BodyNamed
    <3>. QED
      BY <3>1, <3>2
  <2>4. \A i \in {c} : Names(i)' = known /\ entries'[i].ref = Reference(S)
    BY <1>6, <1>9, <1>r, <1>10 DEF Names
  <2>5. \A i \in {c} : BodyNamed(i)'
    BY <2>3, <2>4 DEF BodyNamed
  <2>. QED
    BY <2>2, <2>5, <1>10 DEF BodiesNamed
<1>. QED
  BY <1>11, <1>12, <1>13, <1>14 DEF Inv

-----------------------------------------------------------------------------
(* A registry that is built again                                          *)

LEMMA RestoreKeeps == ASSUME Inv, Restore  PROVE Inv'
<1>a. Shape /\ OneEntryPerAddress /\ NumberKeepsItsPage /\ BodiesNamed
  BY DEF Inv
<1>1. next' = next
  BY <1>a DEF Restore, NextId, NumberKeepsItsPage, Shape
<1>2. ASSUME NEW u \in Urls  PROVE Rebuilt(u) = index[u]
  <2>. DEFINE byUrl == {i \in Ids : entries[i].url = u}
              byAlias == {i \in Ids : u \in entries[i].aliases}
  <2>1. \A i \in byUrl \cup byAlias : index[u] = i
    BY <1>a DEF OneEntryPerAddress, Names
  <2>2. byUrl \cup byAlias = {} => index[u] = 0
    BY <1>a DEF OneEntryPerAddress, Names
  <2>3. CASE byUrl # {}
    <3>1. byUrl = {index[u]} /\ index[u] \in Nat
      BY <2>1, <2>3, <1>a DEF Shape
    <3>2. (CHOOSE i \in byUrl : \A j \in byUrl : j <= i) = index[u]
      BY <3>1
    <3>. QED
      BY <2>3, <3>2 DEF Rebuilt
  <2>4. CASE byUrl = {} /\ byAlias # {}
    <3>1. byAlias = {index[u]} /\ index[u] \in Nat
      BY <2>1, <2>4, <1>a DEF Shape
    <3>2. Canonical(byAlias) = index[u]
      BY <3>1, CanonicalIsLeast
    <3>. QED
      BY <2>4, <3>2 DEF Rebuilt
  <2>5. CASE byUrl = {} /\ byAlias = {}
    BY <2>2, <2>5 DEF Rebuilt
  <2>. QED
    BY <2>3, <2>4, <2>5
<1>3. index' = index
  BY <1>2, <1>a DEF Restore, Shape
<1>4. UNCHANGED registryVars
  BY <1>1, <1>3 DEF Restore, registryVars
<1>. QED
  BY <1>4 DEF registryVars, Inv, Shape, OneEntryPerAddress, NumberKeepsItsPage,
              BodiesNamed, BodyNamed, Ids, Names

-----------------------------------------------------------------------------
(* The theorems                                                            *)

LEMMA StepInv == Inv /\ [RegistryNext]_registryVars => Inv'
<1>. SUFFICES ASSUME Inv, [RegistryNext]_registryVars  PROVE Inv'
  OBVIOUS
<1>1. ASSUME NEW u \in Urls, Hit(u) \/ FetchFailed(u) \/ FetchEmpty(u)  PROVE Inv'
  BY <1>1, HitKeeps, FetchFailedKeeps, FetchEmptyKeeps
<1>2. ASSUME NEW u \in Urls, NEW seen \in SUBSET Urls, Fetched(u, seen)  PROVE Inv'
  BY <1>2, FetchedNewKeeps, FetchedKnownKeeps DEF Fetched
<1>3. CASE Restore
  BY <1>3, RestoreKeeps
<1>4. CASE UNCHANGED registryVars
  BY <1>4 DEF registryVars, Inv, Shape, OneEntryPerAddress, NumberKeepsItsPage,
              BodiesNamed, BodyNamed, Ids, Names
<1>. QED
  BY <1>1, <1>2, <1>3, <1>4 DEF RegistryNext

LEMMA InvAlways == RegistrySpec => []Inv
BY InitInv, StepInv, PTL DEF RegistrySpec

\* Whatever is found, scraped, redirected and restored, in any order: an
\* address leads to the one entry that carries it
\* (SourceRegistry.mark_fetched, _fold_into and __post_init__).
THEOREM OneEntryPerAddressAlways == RegistrySpec => []OneEntryPerAddress
<1>1. Inv => OneEntryPerAddress
  BY DEF Inv
<1>. QED
  BY <1>1, InvAlways, PTL

\* A number that was given to a page never stands for another
\* (SourceRegistry._ensure_entry and next_source_id).
THEOREM NumberKeepsItsPageAlways == RegistrySpec => []NumberKeepsItsPage
<1>1. Inv => NumberKeepsItsPage
  BY DEF Inv
<1>. QED
  BY <1>1, InvAlways, PTL

-----------------------------------------------------------------------------
(* Citations                                                               *)

\* The greatest of one number (the link prefers the source found last).
LEMMA MaxOfOne == \A n \in Nat : Max({n}) = n
BY DEF Max

\* In any registry that keeps the invariant a link is resolved to the one entry
\* of its address (enforce_citations with targets_by_id and by_url).
LEMMA LinksResolve == Inv => CitationsResolve
<1>. SUFFICES ASSUME Inv, NEW u \in Urls
              PROVE  /\ index[u] \in Citable => CiteLink(u) = index[u]
                     /\ \A n \in Writable :
                          /\ CiteBoth(n, u) # 0 => index[u] = n
                          /\ CiteNumber(n, {u}) # 0 => index[u] = n
  BY DEF CitationsResolve
<1>1. \A i \in Ids : u \in Names(i) <=> index[u] = i
  BY DEF Inv, OneEntryPerAddress
<1>2. Citable \subseteq Ids /\ Ids \subseteq Nat
  BY DEF Citable, Inv, Shape
<1>3. ASSUME index[u] \in Citable
      PROVE  CiteLink(u) = index[u]
  <2>. DEFINE own == {i \in Citable : entries[i].url = u}
              known == {i \in Citable : u \in Targets(i)}
  <2>1. known = {index[u]} /\ index[u] \in Nat
    BY <1>1, <1>2, <1>3 DEF Targets
  <2>2. own \subseteq known
    BY DEF Targets, Names
  <2>3. own # {} => Max(own) = index[u]
    <3>1. own # {} => own = {index[u]}
      BY <2>1, <2>2
    <3>. HIDE DEF own, known
    <3>. QED
      BY <3>1, <2>1, MaxOfOne
  <2>4. Canonical(known) = index[u]
    <3>. HIDE DEF known
    <3>. QED
      BY <2>1, CanonicalIsLeast
  <2>. QED
    BY <2>1, <2>3, <2>4 DEF CiteLink
<1>4. ASSUME NEW n \in Writable, CiteBoth(n, u) # 0 \/ CiteNumber(n, {u}) # 0
      PROVE  index[u] = n
  <2>1. n \in Citable /\ u \in Targets(n)
    BY <1>4 DEF CiteBoth, CiteNumber
  <2>. QED
    BY <2>1, <1>1, <1>2 DEF Targets
<1>. QED
  BY <1>3, <1>4

-----------------------------------------------------------------------------
(* Support of claims                                                       *)

\* What is left of an answer about a claim: citable sources, none of them both
\* supporting and refuting (sanitize_claim_map).
LEMMA SanitizedIsClean ==
  ASSUME NEW w \in Verdicts
  PROVE  /\ Sanitized(w).support \subseteq Citable
         /\ Sanitized(w).support \cap Sanitized(w).refute = {}
<1>. DEFINE cut == [w EXCEPT !.support = @ \cap Citable, !.refute = @ \cap Citable]
            both == Conflicts(cut)
<1>1. /\ "support" \in DOMAIN w /\ "refute" \in DOMAIN w
  BY DEF Verdicts
<1>2. cut.support = w.support \cap Citable /\ cut.refute = w.refute \cap Citable
  BY <1>1
<1>3. cut.support \cap cut.refute \subseteq both
  BY DEF Conflicts
<1>4. /\ Sanitized(w).support = (w.support \cap Citable) \ both
      /\ Sanitized(w).refute = (w.refute \cap Citable) \ both
  BY DEF Sanitized
<1>. HIDE DEF cut, both
<1>. QED
  BY <1>2, <1>3, <1>4

\* The smaller of 1 and a number.
LEMMA MinWithOne == \A n \in Nat : Min({1, n}) \in Nat /\ Min({1, n}) <= n
<1>. SUFFICES ASSUME NEW n \in Nat PROVE Min({1, n}) \in Nat /\ Min({1, n}) <= n
  OBVIOUS
<1>1. CASE n = 0
  <2>1. Min({1, n}) = 0
    BY <1>1 DEF Min
  <2>. QED
    BY <2>1, <1>1
<1>2. CASE n # 0
  <2>1. Min({1, n}) = 1
    BY <1>2 DEF Min
  <2>. QED
    BY <2>1, <1>2
<1>. QED
  BY <1>1, <1>2

\* The size of a set in two parts.
LEMMA PartsAddUp ==
  ASSUME NEW A, NEW B, IsFiniteSet(A), IsFiniteSet(B), A \cap B = {}
  PROVE  Cardinality(A \cup B) = Cardinality(A) + Cardinality(B)
<1>1. Cardinality(A \cap B) = 0
  BY FS_EmptySet
<1>2. Cardinality(A) \in Nat /\ Cardinality(B) \in Nat
  BY FS_CardinalityType
<1>3. Cardinality(A \cup B) = Cardinality(A) + Cardinality(B) - Cardinality(A \cap B)
  BY FS_Union
<1>. QED
  BY <1>1, <1>2, <1>3

\* No more origins are counted than there are sources.
LEMMA CountBounded ==
  ASSUME NEW v, IsFiniteSet(v.support)
  PROVE  Count(v) \in Nat /\ Count(v) <= Cardinality(v.support)
<1>. DEFINE same == v.support \cap v.group
<1>1. IsFiniteSet(same) /\ same \subseteq v.support
  BY FS_Subset
<1>2. IsFiniteSet(v.support \ same)
  BY FS_Difference
<1>3. (v.support \ same) \cap same = {} /\ (v.support \ same) \cup same = v.support
  OBVIOUS
<1>. HIDE DEF same
<1>4. Cardinality(v.support) = Cardinality(v.support \ same) + Cardinality(same)
  <2>1. Cardinality((v.support \ same) \cup same) =
          Cardinality(v.support \ same) + Cardinality(same)
    BY <1>1, <1>2, <1>3, PartsAddUp
  <2>2. (v.support \ same) \cup same = v.support
    BY <1>3
  <2>3. Cardinality((v.support \ same) \cup same) = Cardinality(v.support)
    BY <2>2
  <2>. QED
    BY <2>1, <2>3
<1>5. Cardinality(same) \in Nat /\ Cardinality(v.support \ same) \in Nat
  BY <1>1, <1>2, FS_CardinalityType
<1>6. Min({1, Cardinality(same)}) \in Nat /\ Min({1, Cardinality(same)}) <= Cardinality(same)
  BY <1>5, MinWithOne
<1>7. Count(v) = Cardinality(v.support \ same) + Min({1, Cardinality(same)})
  BY DEF Count, same
<1>. QED
  BY <1>4, <1>5, <1>6, <1>7

\* The bodies two entries show are different, and no address is common to them:
\* each was found under addresses of its own entry only (SourceRegistry.mark_fetched).
LEMMA BodiesApart ==
  ASSUME Inv, NEW i \in Ids, NEW j \in Ids, entries[i].ref # 0, entries[j].ref # 0,
         i # j
  PROVE  steps[entries[i].ref] \cap steps[entries[j].ref] = {}
<1>1. BodyNamed(i) /\ BodyNamed(j)
  BY DEF Inv, BodiesNamed
<1>2. /\ steps[entries[i].ref] \subseteq Names(i)
      /\ steps[entries[j].ref] \subseteq Names(j)
  BY <1>1 DEF BodyNamed
<1>3. Names(i) \subseteq Urls
  BY DEF Inv, Shape, Entry, Names
<1>4. \A u \in Urls : u \in Names(i) /\ u \in Names(j) => i = j
  BY DEF Inv, OneEntryPerAddress
<1>. QED
  BY <1>2, <1>3, <1>4

\* What is counted exactly was read, every source of it in an entry with a body
\* (independent_support and render_independent_support).
LEMMA ExactWasRead ==
  ASSUME Inv, NEW v, v.support \subseteq Citable, v.support \cap v.refute = {},
         Rendered(v) = "exact"
  PROVE  /\ (v.support \cap v.quoted) \ v.refute = v.support
         /\ \A i \in v.support : i \in Ids /\ entries[i].ref # 0
<1>1. Certain(v)
  BY DEF Rendered
<1>2. v.support # {} => Read(v) = v.support
  BY <1>1 DEF Certain
<1>3. \A i \in v.support : i \in Excerpts /\ i \in v.quoted
  BY <1>2 DEF Read
<1>. QED
  BY <1>3 DEF Excerpts, Citable

\* A count the report gives without reserve is covered by as many stored bodies.
LEMMA CountsAreGrounded == Inv => ExactIsGrounded
<1>. SUFFICES ASSUME Inv, NEW w \in Verdicts, Rendered(Sanitized(w)) = "exact"
              PROVE  LET v == Sanitized(w)
                         bodies == {entries[i].ref : i \in (v.support \cap v.quoted) \ v.refute}
                     IN  /\ Cardinality(bodies) >= Count(v)
                         /\ bodies \subseteq DOMAIN steps
                         /\ \A b, c \in bodies : b # c => steps[b] \cap steps[c] = {}
  BY DEF ExactIsGrounded
<1>. PICK v : v = Sanitized(w)
  OBVIOUS
<1>. DEFINE bodies == {entries[i].ref : i \in v.support}
            ref == [i \in v.support |-> entries[i].ref]
<1>1. v.support \subseteq Citable /\ v.support \cap v.refute = {}
  BY SanitizedIsClean
<1>2. /\ (v.support \cap v.quoted) \ v.refute = v.support
      /\ \A i \in v.support : i \in Ids /\ entries[i].ref # 0
  BY <1>1, ExactWasRead
<1>3. /\ \A i \in v.support : entries[i].ref \in 1..Len(steps) /\ steps[entries[i].ref] # {}
      /\ DOMAIN steps = 1..Len(steps) /\ Len(steps) \in Nat
  <2>1. DOMAIN steps = 1..Len(steps) /\ Len(steps) \in Nat
    BY DEF Inv, Shape
  <2>2. \A i \in v.support : BodyNamed(i) /\ entries[i].ref # 0
    BY <1>2 DEF Inv, BodiesNamed
  <2>. QED
    BY <2>1, <2>2 DEF BodyNamed
<1>4. bodies \subseteq 1..Len(steps)
  BY <1>3
<1>5. IsFiniteSet(v.support)
  <2>1. next \in Nat
    BY DEF Inv, Shape
  <2>2. ASSUME NEW i \in v.support PROVE i \in Nat /\ i <= next
    <3>1. i \in Ids /\ i \in Nat
      BY <1>2 DEF Inv, Shape
    <3>2. i < next
      BY <3>1 DEF Inv, NumberKeepsItsPage
    <3>. QED
      BY <2>1, <3>1, <3>2
  <2>3. \A S : S \in SUBSET Nat /\ (\A i \in S : i <= next) => IsFiniteSet(S)
    BY <2>1, FS_BoundedSetOfNaturals
  <2>4. v.support \in SUBSET Nat
    BY <2>2
  <2>5. \A i \in v.support : i <= next
    BY <2>2
  <2>. QED
    BY <2>3, <2>4, <2>5, Zenon
<1>6. IsFiniteSet(bodies)
  <2>1. IsFiniteSet(1..Len(steps))
    BY FS_Interval DEF Inv, Shape
  <2>. HIDE DEF bodies
  <2>2. bodies \in SUBSET (1..Len(steps))
    BY <1>4
  <2>. QED
    BY <2>1, <2>2, FS_Subset
<1>7. \A i, j \in v.support :
        i # j => steps[entries[i].ref] \cap steps[entries[j].ref] = {}
  BY <1>2, BodiesApart
<1>8. ref \in Injection(v.support, bodies)
  <2>1. ref \in [v.support -> bodies]
    OBVIOUS
  <2>2. \A i, j \in v.support : ref[i] = ref[j] => i = j
    BY <1>3, <1>7
  <2>. QED
    BY <2>1, <2>2 DEF Injection, IsInjective
<1>9. Cardinality(v.support) <= Cardinality(bodies)
  <2>. HIDE DEF bodies, ref
  <2>. QED
    BY <1>6, <1>8, FS_Injection
<1>10. Cardinality(bodies) >= Count(v)
  <2>. HIDE DEF bodies, ref
  <2>. QED
    BY <1>5, <1>6, <1>9, CountBounded, FS_CardinalityType
<1>11. \A b, c \in bodies : b # c => steps[b] \cap steps[c] = {}
  BY <1>7
<1>12. bodies = {entries[i].ref : i \in (v.support \cap v.quoted) \ v.refute}
  BY <1>2
<1>. HIDE DEF bodies
<1>. QED
  BY <1>3, <1>4, <1>10, <1>11, <1>12

\* "N independent sources support" stands for N stored bodies, no two of them
\* found under a common address, whatever the model answers and whatever was
\* found, redirected and restored before.
THEOREM ExactIsGroundedAlways == Spec => []ExactIsGrounded
BY CountsAreGrounded, InvAlways, PTL DEF Spec

\* A link in the report is cited as the one entry of its address, and a number
\* tied to an address only as the entry of that address.
THEOREM CitationsResolveAlways == Spec => []CitationsResolve
BY LinksResolve, InvAlways, PTL DEF Spec
=============================================================================
