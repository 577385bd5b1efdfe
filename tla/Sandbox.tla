------------------------------ MODULE Sandbox ------------------------------
(***************************************************************************)
(* The tools of the Python server (mcp_servers/python_mcp_server.py) that  *)
(* run in sandboxes of E2B, a remote service.  A sandbox outlives the call *)
(* and the server process: the model names it to the next call, and unless *)
(* somebody kills it the service ends it ten minutes after its last use.   *)
(*                                                                         *)
(* What is counted are the sandboxes whose creation returned.  One whose   *)
(* creation raised may run on as well, and no code knows of it.  Commands, *)
(* code and files are left out; every call of the service may raise, and   *)
(* the sleep between two tries changes nothing and is part of the try.     *)
(***************************************************************************)
EXTENDS Integers

CONSTANTS
  CreateTries,  \* max_retries of create_sandbox
  RunTries,     \* max_retries of the tools that run something
  BoxTools,     \* subset of {"create", "command", "code", "upload", "fetch",
                \* "download"}: the tools that are called
  BoxNames      \* subset of {"listed", "gone", "alive"}: the sandbox_id given,
                \* "listed" in INVALID_SANDBOX_IDS or, for code, empty

ASSUME BoxAssumption ==
  /\ CreateTries \in Nat \ {0} /\ RunTries \in Nat \ {0}
  /\ BoxTools \subseteq {"create", "command", "code", "upload", "fetch",
                         "download"}
  /\ BoxNames \subseteq {"listed", "gone", "alive"}

VARIABLES
  boxTool,    \* the tool
  boxName,    \* sandbox_id
  boxStep,    \* idle | creating | connecting | preparing | running | code |
              \* killing | done
  boxTry,     \* attempt
  boxes,      \* sandboxes this call has created that run on
  ran,        \* times the command, the code or wget ran (history)
  killFailed, \* the service refused a kill (history)
  boxAnswer   \* none | id | output | error

boxVars == <<boxTool, boxName, boxStep, boxTry, boxes, ran, killFailed, boxAnswer>>

BoxInit ==
  /\ boxTool \in BoxTools /\ boxName \in BoxNames
  /\ boxStep = "idle" /\ boxTry = 1 /\ boxes = 0 /\ ran = 0
  /\ killFailed = FALSE /\ boxAnswer = "none"

\* The tool returns.
BoxReturns(what) == boxStep' = "done" /\ boxAnswer' = what

\* The loop goes on after its sleep, or gives up.
Retry(tries) ==
  IF boxTry = tries THEN BoxReturns("error") /\ UNCHANGED boxTry
  ELSE boxTry' = boxTry + 1 /\ UNCHANGED <<boxStep, boxAnswer>>

\* Where a call begins.  Code without a sandbox is run in one of its own; any
\* other tool refuses an id the model made up.
StartBox ==
  /\ boxStep = "idle"
  /\ \/ boxTool = "create" /\ boxStep' = "creating" /\ UNCHANGED boxAnswer
     \/ boxTool = "code" /\ boxName = "listed"
        /\ boxStep' = "code" /\ UNCHANGED boxAnswer
     \/ boxTool \notin {"create", "code"} /\ boxName = "listed"
        /\ BoxReturns("error")
     \/ boxTool # "create" /\ boxName # "listed"
        /\ boxStep' = "connecting" /\ UNCHANGED boxAnswer
  /\ UNCHANGED <<boxTool, boxName, boxTry, boxes, ran, killFailed>>

\* create_sandbox: a try that fails after the sandbox was created (get_info,
\* makedirs) leaves it to its lifetime.
CreateBox ==
  /\ boxStep = "creating"
  /\ \/ boxes' = boxes + 1 /\ BoxReturns("id") /\ UNCHANGED boxTry
     \/ boxes' \in {boxes, boxes + 1} /\ Retry(CreateTries)
  /\ UNCHANGED <<boxTool, boxName, ran, killFailed>>

\* Sandbox.connect, which is not repeated.  A sandbox that is gone is not found.
ConnectBox ==
  /\ boxStep = "connecting"
  /\ \/ boxName = "alive" /\ UNCHANGED boxAnswer
        /\ boxStep' = IF boxTool \in {"command", "code"} THEN "running"
                      ELSE "preparing"
     \/ BoxReturns("error")
  /\ UNCHANGED <<boxTool, boxName, boxTry, boxes, ran, killFailed>>

\* A file tool has its sandbox, and refreshes its lifetime.
FileTool(t) ==
  /\ boxStep = "preparing" /\ boxTool = t
  /\ UNCHANGED <<boxTool, boxName, boxTry, boxes, ran, killFailed>>

\* The local file is looked at, the directory made and the file written, once.
UploadFile == FileTool("upload") /\ (BoxReturns("output") \/ BoxReturns("error"))

\* The path is looked at and the file read, once.
DownloadFile ==
  FileTool("download") /\ (BoxReturns("output") \/ BoxReturns("error"))

\* The directory for a download from the internet is made.
PrepareFetch ==
  /\ FileTool("fetch")
  /\ \/ boxStep' = "running" /\ UNCHANGED boxAnswer
     \/ BoxReturns("error")

\* One try of something that runs in the sandbox.  One that raises may have run
\* nevertheless, and is run again.
Try(t) ==
  /\ boxStep = "running" /\ boxTool = t
  /\ \/ ran' = ran + 1 /\ BoxReturns("output") /\ UNCHANGED boxTry
     \/ ran' \in {ran, ran + 1} /\ Retry(RunTries)
  /\ UNCHANGED <<boxTool, boxName, boxes, killFailed>>

RunCommand == Try("command")
RunCode == Try("code")

\* wget, also when it returns with an error code.
Wget == Try("fetch")

\* Variant: a stateless sandbox is killed only when its code ran.
RunStateless_KillsOnSuccess ==
  /\ boxStep = "code"
  /\ \/ BoxReturns("error") /\ UNCHANGED <<boxes, ran>>
     \/ boxes' = boxes + 1 /\ ran' = ran + 1
        /\ boxStep' = "killing" /\ boxAnswer' = "output"
     \/ boxes' = boxes + 1 /\ ran' \in {ran, ran + 1} /\ BoxReturns("error")
  /\ UNCHANGED <<boxTool, boxName, boxTry, killFailed>>

\* Stateless execution: a sandbox for this code, which may raise ...
RunStateless ==
  /\ boxStep = "code"
  /\ \/ BoxReturns("error") /\ UNCHANGED <<boxes, ran>>
     \/ /\ boxes' = boxes + 1 /\ boxStep' = "killing"
        /\ \/ ran' = ran + 1 /\ boxAnswer' = "output"
           \/ ran' \in {ran, ran + 1} /\ boxAnswer' = "error"
  /\ UNCHANGED <<boxTool, boxName, boxTry, killFailed>>

\* ... killed in "finally": a kill that raises turns an output into an error.
KillBox ==
  /\ boxStep = "killing"
  /\ \/ boxes' = boxes - 1 /\ BoxReturns(boxAnswer) /\ UNCHANGED killFailed
     \/ UNCHANGED boxes /\ BoxReturns("error") /\ killFailed' = TRUE
  /\ UNCHANGED <<boxTool, boxName, boxTry, ran>>

BoxNext ==
  \/ StartBox \/ CreateBox \/ ConnectBox \/ UploadFile \/ DownloadFile
  \/ PrepareFetch \/ RunCommand \/ RunCode \/ Wget \/ RunStateless \/ KillBox

-----------------------------------------------------------------------------
(* Properties                                                              *)

\* A tool leaves no sandbox behind that nobody can name: one of its own is
\* killed unless the service refuses, however its code ends; creating leaves at
\* most one for every try, and one at least behind an id it answers.
NoStraySandbox ==
  /\ boxTool # "create" /\ boxStep = "done" /\ ~killFailed => boxes = 0
  /\ boxes <= CreateTries
  /\ boxAnswer = "id" => boxes > 0
=============================================================================
