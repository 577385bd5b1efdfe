--------------------------- MODULE TurnLoopProofs ---------------------------
(***************************************************************************)
(* Theorems about the main loop of a research run: its types and limits,   *)
(* the scrape budget under parallel calls, and the freshness of the        *)
(* agreement that ends a run early.  They hold for any number of turns,    *)
(* calls, rollbacks and checks, and for every way a call may end.          *)
(***************************************************************************)
EXTENDS TurnLoop, FiniteSetTheorems, SequenceTheorems, TLAPS

Job == [kind : Kinds, query : Queries \union {"none"}, state : CallStates]

\* What the program counter says of the counters: a turn can be taken back
\* because it was begun, and a failure can be counted because the loop was not
\* left at the last one.
LoopInv ==
  /\ pc \notin {"turn", "done"} => turn >= 1 /\ rollbacks < MaxRollbacks
  /\ pc # "done" => failures < MaxFailures
  /\ IF pc = "calls" THEN next \in DOMAIN batch ELSE batch = << >>
  /\ exit # "none" => pc = "done"

TypeInv == TypeOK /\ LoopInv

-----------------------------------------------------------------------------
(* Batches of calls                                                        *)

LEMMA BatchType ==
  ASSUME NEW b \in Batches
  PROVE  /\ b \in Seq(Job) /\ Len(b) \in 1..MaxCalls
         /\ DOMAIN b = 1..Len(b)
         /\ \A i \in DOMAIN b : b[i].state = "waiting"
<1>1. PICK n \in 1..MaxCalls : b \in [1..n -> Calls]
  BY DEF Batches
<1>2. MaxCalls \in Nat /\ n \in Nat
  BY LoopAssumption
<1>3. Calls \subseteq Job
  BY DEF Calls, Job, CallStates
<1>4. b \in Seq(Job) /\ Len(b) = n /\ DOMAIN b = 1..n
  BY <1>1, <1>2, <1>3, SeqDef, LenProperties
<1> QED
  BY <1>1, <1>4 DEF Calls

LEMMA CallUpdated ==
  ASSUME NEW b \in Seq(Job), NEW i \in DOMAIN b, NEW s \in CallStates,
         NEW c, c = [b EXCEPT ![i].state = s]
  PROVE  /\ c \in Seq(Job) /\ Len(c) = Len(b) /\ DOMAIN c = DOMAIN b
         /\ c[i].state = s
         /\ \A j \in DOMAIN b : /\ c[j].kind = b[j].kind
                                /\ c[j].query = b[j].query
                                /\ j # i => c[j] = b[j]
<1> DEFINE e == [b[i] EXCEPT !.state = s]
<1>1. DOMAIN b = 1..Len(b) /\ Len(b) \in Nat /\ \A j \in DOMAIN b : b[j] \in Job
  BY LenProperties, ElementOfSeq
<1>2. e \in Job /\ e.state = s /\ e.kind = b[i].kind /\ e.query = b[i].query
  BY <1>1 DEF Job
<1>3. c = [b EXCEPT ![i] = e]
  OBVIOUS
<1>4. /\ c \in Seq(Job) /\ Len(c) = Len(b)
      /\ \A j \in DOMAIN b : c[j] = IF j = i THEN e ELSE b[j]
  BY <1>1, <1>2, <1>3, ExceptSeq
<1>5. DOMAIN c = DOMAIN b
  BY <1>1, <1>4, LenProperties
<1> QED
  BY <1>2, <1>4, <1>5

-----------------------------------------------------------------------------
(* Types and limits                                                        *)

LEMMA Limits ==
  /\ MaxTurns \in Nat /\ ExtraAttempts \in Nat /\ MaxScrape \in Nat
  /\ PostTurns \in Nat /\ MaxChecks \in Nat /\ VerifyRounds \in Nat
  /\ MaxGuidance \in Nat /\ MaxFollowUps \in Nat /\ MaxCalls \in Nat
  /\ MaxRollbacks \in Nat \ {0} /\ MaxFailures \in Nat \ {0}
  /\ MaxStagnant \in Nat \ {0} /\ HasFallback \in BOOLEAN
  BY LoopAssumption

USE DEF vars, loop, tools, evidence, verdict, stop, guide

LEMMA TypeInit == Init => TypeInv
<1> SUFFICES ASSUME Init PROVE TypeInv
  OBVIOUS
<1> USE Limits DEF Init
<1>1. LoopType
  BY DEF LoopType, Pcs, Exits
<1>2. ToolsType
  BY EmptySeq DEF ToolsType
<1>3. EvidenceType /\ GuideType
  BY DEF EvidenceType, GuideType, Verdicts, Latest
<1>4. StopType
  <2>1. triggered \in BOOLEAN /\ nudged \in BOOLEAN
    OBVIOUS
  <2>2. stopTurn \in 0..MaxTurns
    OBVIOUS
  <2> QED
    BY <2>1, <2>2 DEF StopType
<1>5. LoopInv
  BY DEF LoopInv
<1> QED
  BY <1>1, <1>2, <1>3, <1>4, <1>5 DEF TypeInv, TypeOK

\* Steps that leave the tools alone keep their types.
LEMMA ToolsUnchanged ==
  ASSUME ToolsType, UNCHANGED tools PROVE ToolsType'
  BY DEF ToolsType

\* The counters of the loop, and where it may be.
LoopPlaces == LoopType /\ LoopInv

LEMMA LoopNext ==
  TypeInv /\ [Next]_vars => LoopPlaces'
<1> SUFFICES ASSUME TypeInv, [Next]_vars PROVE LoopPlaces'
  OBVIOUS
<1>a. LoopType /\ LoopInv /\ ToolsType
  BY DEF TypeInv, TypeOK
<1>b. batch \in Seq(Job) /\ next \in Nat \ {0}
  BY <1>a DEF ToolsType, Job
<1> USE <1>a, Limits
    DEF LoopPlaces, LoopType, LoopInv, Pcs, Exits, Leave, Continue
<1>1. CASE BeginTurn
  BY <1>1 DEF BeginTurn, GoesOn
<1>2. CASE EndLoop
  BY <1>2 DEF EndLoop
<1>3. CASE NoReply
  <2>1. fallback' \in BOOLEAN
    BY <1>3 DEF NoReply
  <2> QED
    BY <1>3, <2>1 DEF NoReply
<1>4. CASE AskTools
  <2>1. 1 \in DOMAIN batch'
    BY <1>4, BatchType DEF AskTools
  <2> QED
    BY <1>4, <2>1 DEF AskTools
<1>5. CASE DuplicateQuery
  BY <1>5 DEF DuplicateQuery, Rollback, Dropped
<1>6. CASE RecordCall
  <2>1. DOMAIN batch = 1..Len(batch) /\ Len(batch) \in Nat
    BY <1>b, LenProperties
  <2>2. pc = "calls"
    BY <1>6 DEF RecordCall
  <2>3. CASE Rollback /\ Dropped
    BY <2>2, <2>3 DEF Rollback, Dropped
  <2>4. CASE next < Len(batch) /\ next' = next + 1 /\ UNCHANGED <<pc, exit, loop, batch>>
    BY <1>b, <2>1, <2>2, <2>4
  <2>5. CASE Dropped /\ rollbacks' = 0 /\ pc' = "review"
             /\ UNCHANGED <<exit, turn, attempts, failures, fallback>>
    BY <2>2, <2>5 DEF Dropped
  <2> QED
    BY <1>6, <2>3, <2>4, <2>5 DEF RecordCall
<1>7. ASSUME NEW i \in DOMAIN batch, StartCall(i) \/ ReturnCall(i)
      PROVE  LoopPlaces'
  <2>1. DOMAIN batch' = DOMAIN batch
    BY <1>7 DEF StartCall, ReturnCall
  <2> QED
    BY <1>7, <2>1 DEF StartCall, ReturnCall
<1>8. CASE Review \/ Judge
  BY <1>8 DEF Review, Judge
<1>9. CASE AfterTools
  BY <1>9 DEF AfterTools, Converge
<1>10. ASSUME NEW open \in BOOLEAN, BreakWithTools(open) PROVE LoopPlaces'
  BY <1>10 DEF BreakWithTools, FollowLead
<1>11. ASSUME NEW open \in BOOLEAN, NEW malformed \in BOOLEAN,
              NEW break \in BOOLEAN, Text(open, malformed, break)
       PROVE  LoopPlaces'
  <2>1. /\ pc = "llm" /\ failures' = 0
        /\ UNCHANGED <<attempts, fallback, tools>>
    BY <1>11 DEF Text
  <2>2. \/ Continue /\ UNCHANGED <<turn, rollbacks>>
        \/ \E reason \in Exits : Leave(reason) /\ UNCHANGED <<turn, rollbacks>>
        \/ /\ MayRollBack /\ turn' = turn - 1 /\ rollbacks' = rollbacks + 1
           /\ Continue
    BY <1>11 DEF Text, FollowLead, Converge
  <2>3. UNCHANGED <<batch, next>>
    BY <2>1
  <2>4. CASE Continue /\ UNCHANGED <<turn, rollbacks>>
    BY <2>1, <2>3, <2>4
  <2>5. ASSUME NEW reason \in Exits, Leave(reason), UNCHANGED <<turn, rollbacks>>
        PROVE  LoopPlaces'
    BY <2>1, <2>3, <2>5
  <2>6. CASE /\ MayRollBack /\ turn' = turn - 1 /\ rollbacks' = rollbacks + 1
             /\ Continue
    BY <2>1, <2>3, <2>6 DEF MayRollBack
  <2> QED
    BY <2>2, <2>4, <2>5, <2>6
<1>12. CASE UNCHANGED vars
  BY <1>12
<1> QED
  BY <1>1, <1>2, <1>3, <1>4, <1>5, <1>6, <1>7, <1>8, <1>9, <1>10, <1>11, <1>12
  DEF Next, ToolStep

LEMMA ToolsNext == TypeInv /\ [Next]_vars => ToolsType'
<1> SUFFICES ASSUME TypeInv, [Next]_vars PROVE ToolsType'
  OBVIOUS
<1>a. LoopInv /\ ToolsType
  BY DEF TypeInv, TypeOK
<1>b. batch \in Seq(Job) /\ \A i \in DOMAIN batch : i \in 1..MaxCalls
  BY <1>a DEF ToolsType, Job
<1>1. CASE UNCHANGED tools
  BY <1>1, <1>a, ToolsUnchanged
<1>2. CASE AskTools
  <2>1. batch' \in Seq(Job) /\ DOMAIN batch' \subseteq 1..MaxCalls
    BY <1>2, Limits, BatchType DEF AskTools
  <2> QED
    BY <1>2, <1>a, <2>1 DEF AskTools, ToolsType, Job
<1>3. CASE DuplicateQuery
  BY <1>3, <1>a, EmptySeq DEF DuplicateQuery, Dropped, ToolsType
<1>4. CASE RecordCall
  <2>1. /\ next \in DOMAIN batch /\ batch[next] \in Job
    BY <1>4, <1>a, <1>b, LenProperties DEF RecordCall, LoopInv
  <2>2. used' \subseteq Kinds \X Queries
    BY <1>4, <1>a, <2>1 DEF RecordCall, RecordQuery, ToolsType, Job
  <2>3. held' \subseteq 1..MaxCalls /\ reserved' \in Nat
    BY <1>4, <1>a DEF RecordCall, RecordScrape, Release, ToolsType
  <2>4. scrapeCount' \in Nat
    <3>1. scrapeCount' \in {scrapeCount, scrapeCount + 1}
      BY <1>4, <1>a DEF RecordCall, RecordScrape, ToolsType
    <3> QED
      BY <1>a, <3>1 DEF ToolsType
  <2>5. (Dropped \/ (batch' = batch /\ next' = next + 1))
    BY <1>4 DEF RecordCall
  <2>6. /\ DOMAIN batch' \subseteq 1..MaxCalls /\ batch' \in Seq(Job)
        /\ next' \in Nat \ {0}
    <3>1. CASE batch' = batch /\ next' = next + 1
      BY <1>a, <1>b, <3>1 DEF ToolsType
    <3>2. CASE Dropped
      BY <3>2, EmptySeq DEF Dropped
    <3> QED
      BY <2>5, <3>1, <3>2
  <2> QED
    BY <2>2, <2>3, <2>4, <2>6 DEF ToolsType, Job
<1>5. ASSUME NEW i \in DOMAIN batch, StartCall(i) \/ ReturnCall(i)
      PROVE  ToolsType'
  <2>1. PICK s \in CallStates : batch' = [batch EXCEPT ![i].state = s]
    BY <1>5 DEF StartCall, ReturnCall, CallStates, OutcomesOf, Outcomes
  <2>2. batch' \in Seq(Job) /\ DOMAIN batch' = DOMAIN batch
    BY <1>b, <2>1, CallUpdated
  <2>3. held' \subseteq 1..MaxCalls /\ reserved' \in Nat
    <3>1. CASE StartCall(i)
      <4>1. Reserve(i) \/ UNCHANGED <<held, reserved>>
        BY <3>1 DEF StartCall
      <4>2. held' \subseteq held \union {i}
        BY <4>1 DEF Reserve
      <4>3. reserved' \in {reserved, reserved + 1}
        BY <4>1 DEF Reserve
      <4> QED
        BY <1>a, <1>b, <4>2, <4>3 DEF ToolsType
    <3>2. CASE ReturnCall(i)
      BY <1>a, <1>b, <3>2 DEF ReturnCall, Release, ToolsType
    <3> QED
      BY <1>5, <3>1, <3>2
  <2>4. UNCHANGED <<next, used, scrapeCount>>
    BY <1>5 DEF StartCall, ReturnCall
  <2> QED
    BY <1>a, <2>2, <2>3, <2>4 DEF ToolsType, Job
<1> QED
  BY <1>1, <1>2, <1>3, <1>4, <1>5
  DEF Next, ToolStep, BeginTurn, EndLoop, NoReply, Review, Judge, AfterTools,
      BreakWithTools, Text

LEMMA EvidenceNext == TypeInv /\ [Next]_vars => EvidenceType'
<1> SUFFICES ASSUME TypeInv, [Next]_vars PROVE EvidenceType'
  OBVIOUS
<1>a. EvidenceType
  BY DEF TypeInv, TypeOK
<1> USE <1>a, Limits DEF EvidenceType, Verdicts, Latest
<1>1. CASE UNCHANGED <<evidence, verdict>>
  BY <1>1
<1>2. CASE DuplicateQuery
  BY <1>2 DEF DuplicateQuery
<1>3. CASE RecordCall
  <2>1. searchRounds' \in Nat
    BY <1>3 DEF RecordCall, RecordSearch
  <2>2. sources' \subseteq {"corroborated", "verified"}
    BY <1>3 DEF RecordCall, RecordSearch
  <2>3. revision' \in Nat /\ revision <= revision'
    BY <1>3 DEF RecordCall
  <2>4. latest' \in Latest
    BY <1>3 DEF RecordCall
  <2>5. UNCHANGED verdict
    BY <1>3 DEF RecordCall
  <2> QED
    BY <2>1, <2>2, <2>3, <2>4, <2>5
<1>4. CASE Review
  BY <1>4 DEF Review, Revoke, JudgeDue
<1>5. CASE Judge
  BY <1>5 DEF Judge
<1> QED
  BY <1>1, <1>2, <1>3, <1>4, <1>5
  DEF Next, ToolStep, BeginTurn, EndLoop, NoReply, AskTools, StartCall,
      ReturnCall, AfterTools, BreakWithTools, Text

LEMMA StopNext == TypeInv /\ [Next]_vars => StopType'
<1> SUFFICES ASSUME TypeInv, [Next]_vars PROVE StopType'
  OBVIOUS
<1>a. StopType /\ turn \in 0..MaxTurns /\ 0 \in 0..MaxTurns
  BY Limits DEF TypeInv, TypeOK, LoopType
<1>1. CASE UNCHANGED stop
  BY <1>1, <1>a DEF StopType
<1>2. CASE Review
  BY <1>2, <1>a DEF Review, Revoke, StopType
<1>3. ASSUME NEW condition \in BOOLEAN, Note(condition)
      PROVE  triggered' \in BOOLEAN /\ stopTurn' \in 0..MaxTurns
  <2>1. triggered' \in BOOLEAN
    BY <1>3 DEF Note
  <2>2. stopTurn' \in 0..MaxTurns
    BY <1>3, <1>a DEF Note, StopType
  <2> QED
    BY <2>1, <2>2
<1>4. Converge \/ UNCHANGED nudged => nudged' \in BOOLEAN
  BY <1>a DEF Converge, StopType
<1>5. CASE AfterTools
  BY <1>3, <1>4, <1>5 DEF AfterTools, StopType
<1>6. ASSUME NEW open \in BOOLEAN, BreakWithTools(open) PROVE StopType'
  <2>1. CASE FollowLead(open)
    BY <1>1, <2>1 DEF FollowLead
  <2>2. CASE Note(LeadOpen(open) /\ Agreed) /\ UNCHANGED nudged
    BY <1>3, <1>4, <2>2 DEF StopType
  <2> QED
    BY <1>6, <2>1, <2>2 DEF BreakWithTools
<1>7. ASSUME NEW open \in BOOLEAN, NEW malformed \in BOOLEAN,
             NEW break \in BOOLEAN, Text(open, malformed, break)
      PROVE  StopType'
  <2>1. CASE FollowLead(open)
    BY <1>1, <2>1 DEF FollowLead
  <2>2. CASE /\ Note(Agreed /\ (LeadOpen(open) \/ ExitOnEarlyStop))
             /\ Converge \/ UNCHANGED nudged
    BY <1>3, <1>4, <2>2 DEF StopType
  <2> QED
    BY <1>1, <1>7, <2>1, <2>2 DEF Text
<1> QED
  BY <1>1, <1>2, <1>5, <1>6, <1>7
  DEF Next, ToolStep, BeginTurn, EndLoop, NoReply, AskTools, StartCall,
      ReturnCall, DuplicateQuery, RecordCall, Judge

LEMMA GuideNext == TypeInv /\ [Next]_vars => GuideType'
<1> SUFFICES ASSUME TypeInv, [Next]_vars PROVE GuideType'
  OBVIOUS
<1>a. GuideType /\ searchRounds \in Nat
  BY DEF TypeInv, TypeOK, EvidenceType
<1> USE <1>a, Limits DEF GuideType
<1>1. CASE UNCHANGED guide
  BY <1>1
<1>2. ASSUME NEW open \in BOOLEAN, BreakWithTools(open) PROVE GuideType'
  BY <1>2 DEF BreakWithTools, FollowLead, LeadOpen
<1>3. ASSUME NEW open \in BOOLEAN, NEW malformed \in BOOLEAN,
             NEW break \in BOOLEAN, Text(open, malformed, break)
      PROVE  GuideType'
  <2>1. (Guide \/ NoGuide)
    BY <1>3 DEF Text
  <2>2. /\ guidance' \in 0..MaxGuidance /\ anchor' \in Nat /\ stagnant' \in Nat
    BY <2>1 DEF Guide, NoGuide, GuidanceDue
  <2>3. followUps' \in 0..MaxFollowUps
    BY <1>3 DEF Text, FollowLead, LeadOpen
  <2> QED
    BY <2>2, <2>3
<1> QED
  BY <1>1, <1>2, <1>3
  DEF Next, ToolStep, BeginTurn, EndLoop, NoReply, AskTools, StartCall,
      ReturnCall, DuplicateQuery, RecordCall, Review, Judge, AfterTools

LEMMA TypeInductive == Spec => []TypeInv
<1>1. TypeInv /\ [Next]_vars => TypeInv'
  BY LoopNext, ToolsNext, EvidenceNext, StopNext, GuideNext
  DEF TypeInv, TypeOK, LoopPlaces
<1> QED
  BY TypeInit, <1>1, PTL DEF Spec

\* Every variable stays in its range, and no counter passes its limit although
\* turns are taken back (run_main_agent).
THEOREM TypeCorrect == Spec => []TypeOK
<1>1. TypeInv => TypeOK
  BY DEF TypeInv
<1> QED
  BY TypeInductive, <1>1, PTL

-----------------------------------------------------------------------------
(* The scrape budget                                                       *)

\* Who holds a slot.  Results before the next one are processed; of a batch in
\* order no later call has begun; and of what has begun, the slots are held by
\* scrapes, all of them unless the budget was exhausted or the scrape raised.
HolderInv ==
  /\ pc # "calls" => held = {}
  /\ \A i \in held : /\ i \in DOMAIN batch /\ i >= next
                     /\ batch[i].state # "waiting"
  /\ \A i \in DOMAIN batch :
       /\ i >= next /\ batch[i].kind = "scrape"
            /\ batch[i].state \notin {"waiting", "skip", "exception"}
          => i \in held
       /\ i < next => Returned(i)
       /\ i > next /\ ~InParallel(batch) => batch[i].state = "waiting"

\* A slot is reserved for every holder, and slots and counted scrapes together
\* stay within the budget.
SlotInv ==
  IF MaxScrape = 0 THEN reserved = 0
  ELSE reserved = Cardinality(held) /\ scrapeCount + reserved <= MaxScrape

\* What a call does to its state and to the slots when it begins or ends.
LEMMA CallStep ==
  ASSUME NEW i, StartCall(i) \/ ReturnCall(i)
  PROVE  \E s \in CallStates \ {"waiting"} :
           /\ batch' = [batch EXCEPT ![i].state = s]
           /\ \/ batch[i].state = "waiting" /\ SlotFree /\ Reserve(i)
              \/ s = "exception" /\ Release(i)
              \/ /\ UNCHANGED <<held, reserved>>
                 /\ batch[i].kind = "scrape" => s = "skip" \/ batch[i].state = "running"
<1>1. CASE StartCall(i)
  BY <1>1 DEF StartCall, CallStates, Outcomes
<1>2. CASE ReturnCall(i)
  BY <1>2 DEF ReturnCall, OutcomesOf, CallStates, Outcomes
<1> QED
  BY <1>1, <1>2

LEMMA HolderNext == TypeInv /\ HolderInv /\ [Next]_vars => HolderInv'
<1> SUFFICES ASSUME TypeInv, HolderInv, [Next]_vars PROVE HolderInv'
  OBVIOUS
<1>a. batch \in Seq(Job) /\ LoopInv /\ held \subseteq Nat
  BY Limits DEF TypeInv, TypeOK, ToolsType, Job
<1>b. DOMAIN batch = 1..Len(batch) /\ Len(batch) \in Nat
  BY <1>a, LenProperties
<1>1. CASE UNCHANGED tools /\ pc # "calls" /\ pc' # "calls"
  BY <1>1 DEF HolderInv, Returned
<1>2. CASE AskTools
  <2>1. /\ next' = 1 /\ held' = {} /\ batch' \in Batches
    BY <1>2 DEF AskTools, HolderInv
  <2>2. DOMAIN batch' \subseteq Nat \ {0}
        /\ \A i \in DOMAIN batch' : batch'[i].state = "waiting"
    BY <2>1, BatchType
  <2> QED
    BY <2>1, <2>2 DEF HolderInv
<1>3. CASE DuplicateQuery \/ RecordCall
  <2>1. pc = "calls" /\ next \in DOMAIN batch
    BY <1>3, <1>a DEF DuplicateQuery, RecordCall, LoopInv
  <2>2. CASE Dropped /\ held' = {}
    <3>1. DOMAIN batch' = {}
      BY <2>2 DEF Dropped
    <3> QED
      BY <2>2, <3>1 DEF HolderInv
  <2>3. CASE DuplicateQuery
    <3>1. ~InParallel(batch) /\ batch[next].state = "waiting"
      BY <2>3 DEF DuplicateQuery, Repeated
    <3>2. held = {}
      BY <1>a, <1>b, <2>1, <3>1 DEF HolderInv
    <3> QED
      BY <2>2, <2>3, <3>2 DEF DuplicateQuery
  <2>4. CASE RecordCall
    <3>1. held' = held \ {next}
      BY <2>4 DEF RecordCall, RecordScrape, Release
    <3>2. CASE Dropped
      <4>1. ~InParallel(batch) \/ next = Len(batch)
        BY <2>4, <1>b, <2>1, <3>2 DEF RecordCall, Dropped
      <4>2. ASSUME NEW j \in held PROVE j = next
        <5>1. j \in 1..Len(batch) /\ j >= next /\ batch[j].state # "waiting"
          BY <1>b DEF HolderInv
        <5>2. ~InParallel(batch) => ~(j > next)
          BY <1>b, <5>1 DEF HolderInv
        <5> QED
          BY <1>b, <2>1, <4>1, <5>1, <5>2
      <4>3. held' = {}
        BY <3>1, <4>2
      <4> QED
        BY <2>2, <3>2, <4>3
    <3>3. CASE next' = next + 1 /\ UNCHANGED <<pc, batch>>
      <4>1. Returned(next)
        BY <2>4 DEF RecordCall
      <4> QED
        BY <1>a, <1>b, <2>1, <3>1, <3>3, <4>1 DEF HolderInv, Returned, InParallel
    <3> QED
      BY <2>4, <3>2, <3>3 DEF RecordCall
  <2> QED
    BY <1>3, <2>3, <2>4
<1>4. ASSUME NEW i \in DOMAIN batch, StartCall(i) \/ ReturnCall(i)
      PROVE  HolderInv'
  <2>1. pc = "calls" /\ UNCHANGED <<pc, next>> /\ next \in Nat /\ i \in Nat
    BY <1>4, <1>a, <1>b DEF StartCall, ReturnCall, LoopInv
  <2>2. PICK s \in CallStates \ {"waiting"} :
          /\ batch' = [batch EXCEPT ![i].state = s]
          /\ \/ batch[i].state = "waiting" /\ SlotFree /\ Reserve(i)
             \/ s = "exception" /\ Release(i)
             \/ /\ UNCHANGED <<held, reserved>>
                /\ batch[i].kind = "scrape" => s = "skip" \/ batch[i].state = "running"
    BY <1>4, CallStep
  <2>3. /\ DOMAIN batch' = DOMAIN batch /\ Len(batch') = Len(batch)
        /\ batch'[i].state = s
        /\ \A j \in DOMAIN batch : batch'[j].kind = batch[j].kind
                                   /\ (j # i => batch'[j] = batch[j])
    BY <1>a, <2>2, CallUpdated
  <2>4. InParallel(batch') <=> InParallel(batch)
    BY <2>3 DEF InParallel
  <2>5. i >= next /\ s # "waiting" /\ (InParallel(batch) \/ i = next)
    <3>1. batch[i].state \in {"waiting", "running"}
      BY <1>4 DEF StartCall, ReturnCall
    <3>2. i >= next
      BY <2>1, <3>1, <1>a DEF HolderInv, Returned, Outcomes, LoopInv
    <3>3. InParallel(batch) \/ i = next
      BY <1>4, <2>1, <3>2 DEF StartCall, ReturnCall, HolderInv
    <3> QED
      BY <2>2, <3>2, <3>3
  <2>6. /\ held' \subseteq held \union {i}
        /\ held \ {i} \subseteq held'
        /\ batch[i].kind = "scrape" /\ s \notin {"skip", "exception"} => i \in held'
    <3>1. batch[i].kind = "scrape" /\ batch[i].state = "running" => i \in held
      BY <2>5 DEF HolderInv
    <3> QED
      BY <2>2, <3>1 DEF Reserve, Release
  <2>7. \A j \in held' : /\ j \in DOMAIN batch' /\ j >= next'
                         /\ batch'[j].state # "waiting"
    BY <2>1, <2>3, <2>5, <2>6 DEF HolderInv
  <2>8. ASSUME NEW j \in DOMAIN batch'
        PROVE  /\ j >= next' /\ batch'[j].kind = "scrape"
                    /\ batch'[j].state \notin {"waiting", "skip", "exception"}
                  => j \in held'
               /\ j < next' => Returned(j)'
               /\ j > next' /\ ~InParallel(batch') => batch'[j].state = "waiting"
    BY <1>b, <2>1, <2>3, <2>4, <2>5, <2>6 DEF HolderInv, Returned
  <2> QED
    BY <2>1, <2>7, <2>8 DEF HolderInv
<1>5. CASE UNCHANGED vars
  BY <1>5 DEF HolderInv, Returned, InParallel
<1>6. CASE \/ BeginTurn \/ EndLoop \/ NoReply \/ Review \/ Judge \/ AfterTools
           \/ \E open \in BOOLEAN : BreakWithTools(open)
           \/ \E open, malformed, break \in BOOLEAN : Text(open, malformed, break)
  <2>1. UNCHANGED tools /\ pc # "calls"
    BY <1>6
    DEF BeginTurn, EndLoop, NoReply, Review, Judge, AfterTools, BreakWithTools,
        Text
  <2>2. pc' # "calls"
    BY <1>6
    DEF BeginTurn, EndLoop, NoReply, Review, Judge, AfterTools, BreakWithTools,
        Text, FollowLead, Converge, Leave, Continue
  <2> QED
    BY <1>1, <2>1, <2>2
<1> QED
  BY <1>2, <1>3, <1>4, <1>5, <1>6 DEF Next, ToolStep


\* Giving a slot back takes it from the ones that are reserved, and never takes
\* one that was not.
LEMMA ReleaseSlot ==
  ASSUME NEW i, IsFiniteSet(held), MaxScrape # 0, reserved = Cardinality(held),
         Release(i)
  PROVE  /\ reserved' = Cardinality(held')
         /\ reserved' = IF i \in held THEN reserved - 1 ELSE reserved
<1>1. Cardinality(held \ {i}) = IF i \in held THEN reserved - 1 ELSE reserved
  BY FS_RemoveElement
<1>2. i \in held => reserved > 0
  BY FS_EmptySet, FS_CardinalityType
<1> QED
  BY <1>1, <1>2 DEF Release

LEMMA SlotNext == TypeInv /\ HolderInv /\ SlotInv /\ [Next]_vars => SlotInv'
<1> SUFFICES ASSUME TypeInv, HolderInv, SlotInv, [Next]_vars PROVE SlotInv'
  OBVIOUS
<1>a. /\ scrapeCount \in Nat /\ reserved \in Nat /\ held \subseteq 1..MaxCalls
      /\ MaxScrape \in Nat /\ LoopInv
  BY Limits DEF TypeInv, TypeOK, ToolsType
<1>b. IsFiniteSet(held)
  <2>1. IsFiniteSet(1..MaxCalls)
    BY Limits, FS_Interval
  <2> QED
    BY <1>a, <2>1, FS_Subset
<1>1. CASE UNCHANGED <<held, reserved, scrapeCount>>
  BY <1>1 DEF SlotInv
<1>2. CASE RecordCall
  <2>1. PICK kind, o : /\ kind = batch[next].kind /\ o = batch[next].state
                       /\ RecordScrape(next, kind, o)
    BY <1>2 DEF RecordCall
  <2>2. CASE MaxScrape = 0
    BY <2>1, <2>2 DEF RecordScrape, Release, SlotInv
  <2>3. CASE MaxScrape # 0
    <3>1. /\ reserved' = Cardinality(held')
          /\ reserved' = IF next \in held THEN reserved - 1 ELSE reserved
      BY <1>b, <2>1, <2>3, ReleaseSlot DEF RecordScrape, SlotInv
    <3>2. IsFetch(kind, o) => next \in held
      <4>1. pc = "calls" /\ next \in DOMAIN batch /\ next \in Nat
        BY <1>2, <1>a DEF RecordCall, LoopInv, TypeInv, TypeOK, ToolsType
      <4>2. next >= next
        BY <4>1
      <4> QED
        BY <2>1, <4>1, <4>2 DEF HolderInv, IsFetch
    <3>3. scrapeCount' + reserved' <= MaxScrape
      BY <1>a, <2>1, <2>3, <3>1, <3>2 DEF RecordScrape, SlotInv
    <3> QED
      BY <2>3, <3>1, <3>3 DEF SlotInv
  <2> QED
    BY <2>2, <2>3
<1>3. ASSUME NEW i \in DOMAIN batch, StartCall(i) \/ ReturnCall(i)
      PROVE  SlotInv'
  <2>1. UNCHANGED scrapeCount
    BY <1>3 DEF StartCall, ReturnCall
  <2>2. CASE batch[i].state = "waiting" /\ SlotFree /\ Reserve(i)
    <3>1. i \notin held
      BY <2>2 DEF HolderInv
    <3>2. Cardinality(held \union {i}) = Cardinality(held) + 1
      BY <1>b, <3>1, FS_AddElement
    <3> QED
      BY <1>a, <2>1, <2>2, <3>2 DEF SlotInv, SlotFree, Reserve
  <2>3. CASE Release(i)
    BY <1>a, <1>b, <2>1, <2>3, ReleaseSlot DEF SlotInv, Release
  <2> QED
    BY <1>1, <1>3, <2>1, <2>2, <2>3, CallStep
<1> QED
  BY <1>1, <1>2, <1>3
  DEF Next, ToolStep, BeginTurn, EndLoop, NoReply, AskTools, DuplicateQuery,
      Review, Judge, AfterTools, BreakWithTools, Text

LEMMA SlotInductive == Spec => [](TypeInv /\ HolderInv /\ SlotInv)
<1>1. Init => HolderInv
  BY DEF Init, HolderInv
<1>2. Init => SlotInv
  BY Limits, FS_EmptySet DEF Init, SlotInv
<1> QED
  BY TypeInductive, <1>1, <1>2, HolderNext, SlotNext, PTL DEF Spec

\* The scrapes that run and those that were counted stay within the budget of
\* the task, however many a parallel batch starts (_reserve_scrape_slot).
THEOREM BudgetHoldsAlways == Spec => []BudgetHolds
<1>1. TypeInv /\ HolderInv /\ SlotInv => BudgetHolds
  <2> SUFFICES ASSUME TypeInv, HolderInv, SlotInv, MaxScrape # 0
               PROVE  scrapeCount + Cardinality(Scraping) <= MaxScrape
    BY DEF BudgetHolds
  <2>1. /\ scrapeCount \in Nat /\ reserved \in Nat /\ held \subseteq 1..MaxCalls
        /\ DOMAIN batch \subseteq Nat /\ next \in Nat
    BY Limits DEF TypeInv, TypeOK, ToolsType
  <2>2. Scraping \subseteq held
    <3> SUFFICES ASSUME NEW i \in Scraping PROVE i \in held
      OBVIOUS
    <3>1. i \in DOMAIN batch /\ batch[i].kind = "scrape" /\ batch[i].state = "running"
      BY DEF Scraping
    <3>2. i >= next
      BY <2>1, <3>1 DEF HolderInv, Returned, Outcomes
    <3> QED
      BY <3>1, <3>2 DEF HolderInv
  <2>3. IsFiniteSet(held)
    <3>1. IsFiniteSet(1..MaxCalls)
      BY Limits, FS_Interval
    <3> QED
      BY <2>1, <3>1, FS_Subset
  <2>4. Cardinality(Scraping) <= Cardinality(held) /\ Cardinality(Scraping) \in Nat
    BY <2>2, <2>3, FS_Subset, FS_CardinalityType
  <2> QED
    BY <2>1, <2>4, Limits DEF SlotInv
<1> QED
  BY SlotInductive, <1>1, PTL

\* Between two batches no slot stays reserved, whatever became of the calls
\* (_release_scrape_slot, _commit_scrape_slot).
THEOREM SlotsReturnedAlways == Spec => []SlotsReturned
<1>1. TypeInv /\ HolderInv /\ SlotInv => SlotsReturned
  BY FS_EmptySet DEF HolderInv, SlotInv, SlotsReturned
<1> QED
  BY SlotInductive, <1>1, PTL

-----------------------------------------------------------------------------
(* The freshness of a verdict                                              *)

\* The countdown and the nudge stand on an agreement and fall before the next
\* verdict; only a turn that is taken back leaves a nudge behind that newer
\* evidence may contradict.
VerdictInv ==
  /\ triggered \/ nudged => agreement = "agree"
  /\ pc = "judge" => ~triggered /\ ~nudged
  /\ nudged /\ pc \notin {"calls", "review"} => rollbacks > 0 \/ checked = revision
  /\ exit = "converged" => nudged /\ agreement = "agree" /\ checked = revision

\* A verdict is only asked for when no countdown and no nudge is left.
LEMMA ReviewClears ==
  ASSUME TypeInv, VerdictInv, Review
  PROVE  /\ triggered' \/ nudged' => agreement' = "agree" /\ checked' = revision'
                                       /\ checked' = checked
         /\ pc' = "judge" => ~triggered' /\ ~nudged'
         /\ triggered' => checked' = checked
<1>1. checked \in 0..revision /\ revision \in Nat
  BY DEF TypeInv, TypeOK, EvidenceType
<1>2. revision' = revision /\ pc' \in {"judge", "converge"}
  BY DEF Review
<1>3. CASE Stale
  <2>1. ~triggered' /\ ~nudged'
    BY <1>3 DEF Review, Revoke
  <2> QED
    BY <2>1
<1>4. CASE ~Stale
  <2>1. UNCHANGED <<agreement, triggered, nudged>>
    BY <1>4 DEF Review, Revoke
  <2>2. triggered \/ nudged => agreement = "agree" /\ checked = revision
    BY <1>4 DEF Stale, VerdictInv
  <2>3. checked = revision => ~JudgeDue
    BY <1>1 DEF JudgeDue
  <2>4. ~JudgeDue => pc' = "converge" /\ checked' = checked
    BY DEF Review
  <2> QED
    BY <1>2, <2>1, <2>2, <2>3, <2>4
<1> QED
  BY <1>3, <1>4

\* What a note and the convergence leave of the verdict.
LEMMA NoteAgrees ==
  ASSUME NEW condition \in BOOLEAN, condition => Agreed, Note(condition),
         VerdictInv
  PROVE  triggered' => agreement = "agree"
  BY DEF Note, Agreed, VerdictInv

LEMMA ConvergeAgrees ==
  ASSUME VerdictInv, TypeInv, pc \in {"llm", "converge"},
         \/ Converge
         \/ UNCHANGED nudged /\ \E reason \in Exits \ {"converged"} : Leave(reason)
         \/ UNCHANGED nudged /\ Continue
  PROVE  /\ nudged' => agreement = "agree"
         /\ nudged' => rollbacks > 0 \/ checked = revision
         /\ exit' = "converged" => nudged' /\ agreement = "agree"
                                     /\ checked = revision
         /\ pc' \in {"turn", "done"}
<1>1. exit = "none"
  BY DEF TypeInv, LoopInv
<1>2. CASE Converge
  <2>1. Agreed
    BY <1>2 DEF Converge, ForceSummary
  <2>2. agreement = "agree" /\ checked = revision
    BY <2>1 DEF Agreed
  <2>3. CASE nudged /\ Leave("converged") /\ UNCHANGED nudged
    BY <2>2, <2>3 DEF Leave
  <2>4. CASE nudged' = TRUE /\ Continue
    BY <1>1, <2>2, <2>4 DEF Continue
  <2> QED
    BY <1>2, <2>3, <2>4 DEF Converge
<1>3. CASE UNCHANGED nudged /\ \E reason \in Exits \ {"converged"} : Leave(reason)
  BY <1>3 DEF VerdictInv, Leave
<1>4. CASE UNCHANGED nudged /\ Continue
  BY <1>1, <1>4 DEF VerdictInv, Continue
<1> QED
  BY <1>2, <1>3, <1>4

LEMMA VerdictNext == TypeInv /\ VerdictInv /\ [Next]_vars => VerdictInv'
<1> SUFFICES ASSUME TypeInv, VerdictInv, [Next]_vars PROVE VerdictInv'
  OBVIOUS
<1>a. /\ LoopInv /\ rollbacks \in Nat /\ rollbacks >= 0
      /\ checked \in 0..revision /\ revision \in Nat
  BY Limits DEF TypeInv, TypeOK, LoopType, EvidenceType
<1>1. CASE BeginTurn \/ EndLoop
  BY <1>1 DEF BeginTurn, EndLoop, Leave, VerdictInv
<1>2. CASE NoReply
  BY <1>2, <1>a DEF NoReply, Leave, Continue, VerdictInv, LoopInv
<1>3. CASE AskTools
  BY <1>3, <1>a DEF AskTools, VerdictInv, LoopInv
<1>4. CASE DuplicateQuery
  <2>1. rollbacks' > 0 /\ pc' = "turn" /\ UNCHANGED <<exit, revision, verdict, stop>>
    BY <1>4, <1>a DEF DuplicateQuery, Rollback, Continue
  <2>2. exit = "none"
    BY <1>4, <1>a DEF DuplicateQuery, LoopInv
  <2> QED
    BY <2>1, <2>2 DEF VerdictInv
<1>5. CASE RecordCall
  <2>1. exit = "none" /\ UNCHANGED <<exit, verdict, stop>>
    BY <1>5, <1>a DEF RecordCall, LoopInv, Rollback, Continue
  <2>2. \/ rollbacks' > 0 /\ pc' = "turn"
        \/ pc' \in {"calls", "review"}
    BY <1>5, <1>a DEF RecordCall, Rollback, Continue
  <2> QED
    BY <2>1, <2>2 DEF VerdictInv
<1>6. ASSUME NEW i \in DOMAIN batch, StartCall(i) \/ ReturnCall(i)
      PROVE  VerdictInv'
  BY <1>6 DEF StartCall, ReturnCall, VerdictInv
<1>7. CASE Review
  <2>1. exit = "none" /\ UNCHANGED <<exit, rollbacks>>
    BY <1>7, <1>a DEF Review, LoopInv
  <2> QED
    BY <1>7, <2>1, ReviewClears DEF VerdictInv
<1>8. CASE Judge
  BY <1>8, <1>a DEF Judge, VerdictInv, LoopInv
<1>9. CASE AfterTools
  <2>1. UNCHANGED <<rollbacks, revision, verdict>> /\ pc = "converge"
    BY <1>9 DEF AfterTools
  <2>2. triggered' => agreement = "agree"
    BY <1>9, NoteAgrees DEF AfterTools
  <2>3. /\ nudged' => agreement = "agree"
        /\ nudged' => rollbacks > 0 \/ checked = revision
        /\ exit' = "converged" => nudged' /\ agreement = "agree"
                                    /\ checked = revision
        /\ pc' \in {"turn", "done"}
    BY <1>9, <2>1, ConvergeAgrees DEF AfterTools, Exits
  <2> QED
    BY <2>1, <2>2, <2>3 DEF VerdictInv
<1>10. ASSUME NEW open \in BOOLEAN, BreakWithTools(open) PROVE VerdictInv'
  <2>1. /\ UNCHANGED <<rollbacks, revision, verdict, nudged>>
        /\ pc' \in {"turn", "done"} /\ pc = "llm" /\ exit' # "converged"
    BY <1>10, <1>a DEF BreakWithTools, FollowLead, Leave, Continue, LoopInv
  <2>2. triggered' => agreement = "agree"
    BY <1>10, NoteAgrees DEF BreakWithTools, FollowLead, VerdictInv
  <2> QED
    BY <2>1, <2>2 DEF VerdictInv
<1>11. ASSUME NEW open \in BOOLEAN, NEW malformed \in BOOLEAN,
              NEW break \in BOOLEAN, Text(open, malformed, break)
       PROVE  VerdictInv'
  <2>1. /\ UNCHANGED <<revision, verdict>> /\ pc = "llm"
        /\ \/ rollbacks' = rollbacks
           \/ rollbacks' = rollbacks + 1
    BY <1>11 DEF Text
  <2>2. triggered' => agreement = "agree"
    <3>1. CASE UNCHANGED stop
      BY <3>1 DEF VerdictInv
    <3>2. CASE Note(Agreed /\ (LeadOpen(open) \/ ExitOnEarlyStop))
      BY <3>2, NoteAgrees
    <3> QED
      BY <1>11, <3>1, <3>2 DEF Text, FollowLead
  <2>3. \/ Converge
        \/ UNCHANGED nudged /\ \E reason \in Exits \ {"converged"} : Leave(reason)
        \/ UNCHANGED nudged /\ Continue
    BY <1>11 DEF Text, FollowLead, Exits
  <2>4. /\ nudged' => agreement = "agree"
        /\ nudged' => rollbacks > 0 \/ checked = revision
        /\ exit' = "converged" => nudged' /\ agreement = "agree"
                                    /\ checked = revision
        /\ pc' \in {"turn", "done"}
    BY <2>1, <2>3, ConvergeAgrees
  <2> QED
    BY <1>a, <2>1, <2>2, <2>4 DEF VerdictInv
<1>12. CASE UNCHANGED vars
  BY <1>12 DEF VerdictInv
<1> QED
  BY <1>1, <1>2, <1>3, <1>4, <1>5, <1>6, <1>7, <1>8, <1>9, <1>10, <1>11, <1>12
  DEF Next, ToolStep

LEMMA VerdictInductive == Spec => [](TypeInv /\ VerdictInv)
<1>1. Init => VerdictInv
  BY DEF Init, VerdictInv
<1> QED
  BY TypeInductive, <1>1, VerdictNext, PTL DEF Spec

\* While the model has been told to write its report, the agreement behind it is
\* about all the evidence, unless a turn was taken back
\* (_revoke_stale_early_stop_countdown).
THEOREM NudgeIsFreshAlways == Spec => []NudgeIsFresh
<1>1. VerdictInv => NudgeIsFresh
  BY DEF VerdictInv, NudgeIsFresh
<1> QED
  BY VerdictInductive, <1>1, PTL

\* The loop is only forced to end on an agreement about the present evidence
\* (_maybe_nudge_and_force_summary).
THEOREM ConvergedIsFreshAlways == Spec => []ConvergedIsFresh
<1>1. VerdictInv => ConvergedIsFresh
  BY DEF VerdictInv, ConvergedIsFresh
<1> QED
  BY VerdictInductive, <1>1, PTL

\* Once newer evidence is judged the countdown starts again
\* (_maybe_evaluate_evidence_agreement).
THEOREM CountdownRestartsAlways == Spec => CountdownRestarts
<1>1. TypeInv /\ VerdictInv /\ [Next]_vars
        => [triggered /\ triggered' => checked' = checked]_vars
  <2> SUFFICES ASSUME TypeInv, VerdictInv, Next, triggered'
               PROVE  checked' = checked
    BY DEF Next
  <2>1. CASE Review
    BY <2>1, ReviewClears
  <2>2. CASE UNCHANGED checked
    BY <2>2
  <2> QED
    BY <2>1, <2>2
    DEF Next, ToolStep, BeginTurn, EndLoop, NoReply, AskTools, DuplicateQuery,
        RecordCall, StartCall, ReturnCall, Judge, AfterTools, BreakWithTools,
        Text
<1> QED
  BY VerdictInductive, <1>1, PTL DEF Spec, CountdownRestarts

=============================================================================
