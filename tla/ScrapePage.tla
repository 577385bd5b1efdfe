----------------------------- MODULE ScrapePage -----------------------------
(***************************************************************************)
(* The tool scrape_url: it checks the address, follows redirects by hand   *)
(* with a check of every hop, reads the body up to a limit, extracts the   *)
(* text of it and cuts the text to what the caller asked for.              *)
(*                                                                         *)
(* An address is what the checks see of it; where a page redirects to and   *)
(* what it holds is open.  Parsers are left out: of an extraction only its *)
(* kind counts, whether it fails and what text it gives.  A text is a      *)
(* sequence of characters: "w" a letter, "." a mark that ends a sentence   *)
(* and "n" a line break.                                                   *)
(***************************************************************************)
EXTENDS Integers, Sequences, FiniteSetsExt

CONSTANTS
  MaxHops,   \* SCRAPE_MAX_REDIRECT_HOPS
  CapChars,  \* max_chars of the call, within its limits
  PdfEnabled \* SCRAPE_ENABLE_PDF

ASSUME PageAssumption ==
  MaxHops \in Nat /\ CapChars \in Nat \ {0} /\ PdfEnabled \in BOOLEAN

\* A URL: not one, not http(s) or relative, of a blocked host, or fine.
Addresses == {"none", "relative", "blocked", "public"}

\* What a server answers: a redirect to some address or to none, an error
\* status, or a page.
Responses == {"redirect", "nowhere", "error", "page"}

\* _detect_content_kind, and what no prefix allows.
ContentKinds == {"html", "text", "json", "xml", "pdf", "unsupported"}

\* Texts as extraction gives them: stripped, and only a JSON document keeps
\* empty lines.
Stripped(text) ==
  text = <<>> \/ (Head(text) # "n" /\ text[Len(text)] # "n")
SingleBreaks(text) ==
  \A i \in 1..(Len(text) - 1) : ~(text[i] = "n" /\ text[i + 1] = "n")
Texts == {text \in UNION {[1..n -> {"w", ".", "n"}] : n \in 0..(CapChars + 2)} :
            Stripped(text)}

VARIABLES
  pageStep,  \* idle | sending | deciding | reading | extracting | done
  address,   \* current_url
  hops,      \* length of redirect_chain
  answer,    \* what the last server answered
  kind,      \* content_kind
  open,      \* responses that are open
  text,      \* text_content before the cut
  content,   \* "content" of the payload
  pageError  \* "error" of the payload, "none" on success

pageVars == <<pageStep, address, hops, answer, kind, open, text, content,
              pageError>>

PageInit ==
  /\ pageStep = "idle" /\ address \in Addresses /\ hops = 0
  /\ answer = "none" /\ kind = "none" /\ open = 0
  /\ text = <<>> /\ content = <<>> /\ pageError = "none"

\* Every way out runs the finally, which closes the response of the last hop
\* once it is in hand.
PageFails(why) ==
  /\ pageStep' = "done" /\ pageError' = why
  /\ open' = IF pageStep = "reading" THEN open - 1 ELSE open
  /\ UNCHANGED <<address, hops, answer, kind, text, content>>

\* A URL that is no absolute http(s) URL or of a blocked host is not fetched.
CheckAddress ==
  /\ pageStep = "idle"
  /\ IF address = "public"
     THEN /\ pageStep' = "sending"
          /\ UNCHANGED <<address, hops, answer, kind, open, text, content,
                         pageError>>
     ELSE PageFails("refused")

\* client.send gives a response whose body has not been read.
Send ==
  /\ pageStep = "sending"
  /\ \E r \in Responses :
       answer' = r /\ pageStep' = IF r = "redirect" THEN "deciding" ELSE "reading"
  /\ open' = open + 1
  /\ UNCHANGED <<address, hops, kind, text, content, pageError>>

\* The request times out or the connection fails.
SendFails == pageStep = "sending" /\ PageFails("transport")

\* Variant: the response of a hop is only closed when the hop is refused.
CloseHop_Refused(target) == IF target = "public" THEN open ELSE open - 1

\* The response that redirected is closed before anything else happens.
CloseHop(target) == open - 1

\* A hop: the target is checked like the first address, and one hop too many
\* ends the chain after it was appended.
Redirect ==
  /\ pageStep = "deciding"
  /\ \E target \in Addresses :
       IF target # "public"
       THEN /\ pageStep' = "done" /\ pageError' = "redirect"
            /\ open' = CloseHop(target)
            /\ UNCHANGED <<address, hops>>
       ELSE /\ hops' = hops + 1 /\ address' = target
            /\ open' = CloseHop(target)
            /\ IF hops = MaxHops
               THEN pageStep' = "done" /\ pageError' = "redirect"
               ELSE pageStep' = "sending" /\ UNCHANGED pageError
  /\ UNCHANGED <<answer, kind, text, content>>

\* The headers of the last response: its kind, then its status.  A redirect
\* without a Location is read like a page.
ReadHeaders ==
  /\ pageStep = "reading" /\ kind = "none"
  /\ \E k \in ContentKinds :
       IF k = "unsupported" \/ answer = "error"
       THEN /\ pageStep' = "done" /\ open' = open - 1 /\ kind' = k
            /\ pageError' = IF k = "unsupported" THEN "kind" ELSE "status"
       ELSE kind' = k /\ UNCHANGED <<pageStep, open, pageError>>
  /\ UNCHANGED <<address, hops, answer, text, content>>

\* _read_response_body_with_limit.
ReadBody ==
  /\ pageStep = "reading" /\ kind # "none"
  /\ pageStep' = "extracting" /\ open' = open - 1
  /\ UNCHANGED <<address, hops, answer, kind, text, content, pageError>>

\* The body is too large, by its header or by count, or breaks off.
BodyFails ==
  /\ pageStep = "reading" /\ kind # "none"
  /\ \E why \in {"too large", "transport"} : PageFails(why)

\* What the payload builders may give for a kind: HTML and plain text never
\* fail and are normalized, JSON and XML may not parse, and a PDF may be
\* disabled, broken or without text.
Extraction(k) ==
  [texts |-> IF k = "pdf" /\ ~PdfEnabled THEN {}
             ELSE {t \in Texts : k = "json" \/ SingleBreaks(t)},
   fails |-> k \in {"json", "xml", "pdf"}]

\* The last index of text that is a boundary, among those rfind can reach.
LastBoundary(t) ==
  Max({0} \cup {j \in 1..(CapChars + 1) : t[j] \in {".", "n"}})

\* rstrip of the first n characters.
Trimmed(t, n) ==
  SubSeq(t, 1, Max({0} \cup {j \in 1..n : t[j] # "n"}))

\* _truncate_text_at_boundary.
Truncate(t) ==
  LET cut == LastBoundary(t)
      kept == IF cut < Max({1, CapChars \div 2}) THEN CapChars ELSE cut
  IN  IF Len(t) <= CapChars THEN t
      ELSE IF Trimmed(t, kept) = <<>> THEN Trimmed(t, CapChars)
      ELSE Trimmed(t, kept)

Extract ==
  /\ pageStep = "extracting"
  /\ \E t \in Extraction(kind).texts : text' = t /\ content' = Truncate(t)
  /\ pageStep' = "done"
  /\ UNCHANGED <<address, hops, answer, kind, open, pageError>>

ExtractFails ==
  /\ pageStep = "extracting" /\ Extraction(kind).fails
  /\ PageFails("extract")

PageNext ==
  \/ CheckAddress \/ Send \/ SendFails \/ Redirect
  \/ ReadHeaders \/ ReadBody \/ BodyFails \/ Extract \/ ExtractFails

-----------------------------------------------------------------------------
(* Properties                                                              *)

\* However the call ends, after whatever chain of redirects, no response is
\* left open: an open one holds a connection of the shared client.
ResponsesClosed == pageStep = "done" => open = 0

-----------------------------------------------------------------------------
(* Said by the documentation, and not so: no run lists these properties  *)

\* max_chars is the "maximum characters of textual content to return".
ContentWithinCap == Len(content) <= CapChars
=============================================================================
