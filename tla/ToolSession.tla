----------------------------- MODULE ToolSession -----------------------------
(***************************************************************************)
(* One tool call of the agent (ToolManager.execute_tool_call): a server is *)
(* started or connected to, the tool runs in it, the session is closed,    *)
(* and all of it has CallTimeout to finish.  The page tools are those of   *)
(* ScrapePage and ExtractInfo, the search is SearchRoute, the tools of the *)
(* Python server are Sandbox; of another tool only its answer counts.      *)
(*                                                                         *)
(* A tool server lives as long as the call: stdio_client starts a process  *)
(* per call.  No server called "playwright" is configured, so the branch   *)
(* with a lasting browser session is left out.                             *)
(***************************************************************************)
EXTENDS ScrapePage, ExtractInfo, SearchRoute, Sandbox

CONSTANTS
  Tools,   \* what is called: scrape_url, extract, search, sandbox, scrape
           \* or other
  Known    \* those whose server is configured

ASSUME ToolAssumption ==
  /\ Tools \subseteq {"scrape_url", "extract", "search", "sandbox", "scrape",
                      "other"}
  /\ Known \subseteq Tools

VARIABLES
  tool,     \* tool_name
  stage,    \* of the call: idle, connecting, running, closing, fallback, done
  sessions, \* server sessions that are open
  result    \* none | page | list | text | blocked | markdown | error | raised

toolVars == <<tool, stage, sessions, result>>
vars == <<toolVars, pageVars, extractVars, routeVars, boxVars>>

Init ==
  /\ tool \in Tools /\ stage = "idle" /\ sessions = 0 /\ result = "none"
  /\ PageInit /\ (tool # "scrape_url" => address = "none")
  /\ ExtractInit
  /\ RouteInit
  /\ BoxInit
  /\ tool # "sandbox" => /\ boxTool = (CHOOSE b \in BoxTools : TRUE)
                        /\ boxName = (CHOOSE n \in BoxNames : TRUE)
  /\ tool # "search" => /\ config = (CHOOSE c \in Configs : TRUE)
                       /\ poolSize = (CHOOSE n \in PoolSizes : TRUE)
                       /\ query = "plain"

Idle == UNCHANGED <<pageVars, extractVars, routeVars, boxVars>>

\* The session is over.  The search server was a process of this call.
ServerExits ==
  /\ IF tool = "search" THEN RouteForgotten ELSE UNCHANGED routeVars
  /\ UNCHANGED <<pageVars, extractVars, boxVars>>

\* The call ends with an answer, and the session is closed on the way out.
Answer(what) ==
  /\ stage' = "closing" /\ result' = what
  /\ UNCHANGED <<tool, sessions>> /\ Idle

\* A server that is not in server_dict.
NoServer ==
  /\ stage = "idle" /\ tool \notin Known
  /\ stage' = "done" /\ result' = "error"
  /\ UNCHANGED <<tool, sessions>> /\ Idle

\* stdio_client or sse_client, and initialize.
Open ==
  /\ stage = "idle" /\ tool \in Known
  /\ stage' = "connecting" /\ sessions' = sessions + 1
  /\ UNCHANGED <<tool, result>> /\ Idle

Connect ==
  /\ stage = "connecting"
  /\ stage' = "running"
  /\ UNCHANGED <<tool, sessions, result>> /\ Idle

\* outer_e: the session breaks under the call, and what it brought is lost.
\* A scrape whose session broke with "unhandled errors" is done again by
\* MarkItDown, in this process.
Breaks ==
  /\ stage \in {"connecting", "running", "closing"}
  /\ sessions' = sessions - 1
  /\ \/ stage' = "done" /\ result' = "error"
     \/ tool = "scrape" /\ stage' = "fallback" /\ UNCHANGED result
  /\ UNCHANGED tool /\ ServerExits

\* The tool scrape_url runs in its server.
RunPage ==
  /\ stage = "running" /\ tool = "scrape_url" /\ pageStep # "done"
  /\ PageNext
  /\ UNCHANGED <<toolVars, extractVars, routeVars, boxVars>>

\* The tool scrape_and_extract_info runs in its server.
RunExtract ==
  /\ stage = "running" /\ tool = "extract" /\ step # "done"
  /\ ExtractNext
  /\ UNCHANGED <<toolVars, pageVars, routeVars, boxVars>>

\* The tool google_search runs in its server.
RunSearch ==
  /\ stage = "running" /\ tool = "search" /\ phase # "done"
  /\ RouteNext
  /\ UNCHANGED <<toolVars, pageVars, extractVars, boxVars>>

\* A tool of the Python server runs; its calls of the service hold the server.
RunSandbox ==
  /\ stage = "running" /\ tool = "sandbox" /\ boxStep # "done"
  /\ BoxNext
  /\ UNCHANGED <<toolVars, pageVars, extractVars, routeVars>>

\* _should_block_hf_scraping, for an address that may be any.
Blockable == tool = "scrape"

\* call_tool returns: a page tool answers whether or not it found the page.
\* A dataset of Hugging Face is no page to scrape, whatever the tool brought.
ToolAnswers ==
  /\ stage = "running"
  /\ CASE tool = "scrape_url" -> pageStep = "done" /\ Answer("page")
       [] tool = "extract" -> step = "done" /\ Answer("text")
       [] tool = "search" -> phase = "done" /\ Answer("list")
       [] tool = "sandbox" -> boxStep = "done" /\ Answer("text")
       [] OTHER -> Answer("text") \/ (Blockable /\ Answer("blocked"))

\* call_tool raises: the error is the answer.
ToolFails == stage = "running" /\ Answer("error")

\* Both context managers are left.
Close ==
  /\ stage = "closing"
  /\ stage' = "done" /\ sessions' = sessions - 1
  /\ UNCHANGED <<tool, result>> /\ ServerExits

\* MarkItDown.convert, a download in this process, without an await or a
\* timeout: it may never return, and while it runs nothing can cancel the call.
MarkItDown ==
  /\ stage = "fallback"
  /\ stage' = "done" /\ result' \in {"markdown", "error"}
  /\ UNCHANGED <<tool, sessions>> /\ Idle

\* Variant: the timeout only guards the tool itself.
Guarded_Running == {"running"}

\* with_timeout guards every await of the call; MarkItDown has none, and is out
\* of its reach.
Guarded == {"connecting", "running", "closing"}

\* The call is cancelled where it is, leaves its contexts, and the timeout is
\* raised to the caller.
TimesOut ==
  /\ stage \in Guarded
  /\ stage' = "done" /\ sessions' = 0 /\ result' = "raised"
  /\ UNCHANGED tool /\ ServerExits

Next ==
  \/ NoServer \/ Open \/ Connect \/ Breaks \/ RunPage \/ RunExtract \/ RunSearch
  \/ RunSandbox \/ ToolAnswers \/ ToolFails \/ Close \/ MarkItDown \/ TimesOut

Spec == Init /\ [][Next]_vars

\* The call is begun and its timeout expires.  A server may hang anywhere, and
\* so may MarkItDown.
FairSpec == Spec /\ WF_vars(NoServer \/ Open) /\ WF_vars(TimesOut)

-----------------------------------------------------------------------------
(* Properties                                                              *)

\* Although a server may hang while it starts, while its tool runs and while it
\* is closed, it is given up and no session with it is left: the call is over,
\* or is in the download of MarkItDown, which nothing limits.
ServerGivenUp == <>[](sessions = 0 /\ stage \in {"done", "fallback"})
=============================================================================
