--------------------------- MODULE SubAgentProofs ---------------------------
(***************************************************************************)
(* Theorems about a sub-agent, for every limit on its turns, attempts,     *)
(* rollbacks and failures, every set of queries and every number of calls  *)
(* in a reply.                                                             *)
(***************************************************************************)
EXTENDS SubAgent, FiniteSetTheorems, TLAPS

Messages == {"task", "prompt", "assistant", "results"} \X Nat

\* A conversation that starts with the task, and in which every message with
\* results answers all calls of the message right before it.
Conversation(h) ==
  /\ h \in Seq(Messages) /\ Len(h) >= 1
  /\ h[1] = Task
  /\ \A i \in 1..Len(h) :
       h[i][1] = "results" => i > 1 /\ h[i - 1] = Assistant(h[i][2])

\* Where the messages with results are.
ResultsIn(h) == {i \in 1..Len(h) : h[i][1] = "results"}

AgentType ==
  /\ at \in {"model", "tools", "summary", "done"}
  /\ turn \in Nat /\ attempts \in Nat /\ failures \in Nat
  /\ rollbacks \in 0..(MaxRollbacks - 1)
  /\ fallback \in BOOLEAN /\ trimmed \in BOOLEAN
  /\ calls \in Seq(Queries \cup {NoQuery}) /\ answers \in Nat
  /\ finished \in Nat /\ lost \in Nat

\* While the calls of a reply are made, it is the last message, and the calls
\* made and to make are those it asked for.
Pending ==
  at = "tools" => history[Len(history)] = Assistant(answers + Len(calls))

\* A turn that is counted is finished, lost or running.
TurnsCounted ==
  /\ at = "model" => turn = finished + lost
  /\ at = "tools" => turn = finished + lost + 1

\* Nothing is removed for want of space but on the way to the summary.
TrimmedLast == trimmed => at \in {"summary", "done"}

ResultsCounted ==
  Cardinality(ResultsIn(history)) = finished - (IF trimmed THEN 1 ELSE 0)

AgentInv ==
  /\ AgentType /\ Conversation(history) /\ Pending
  /\ TurnsCounted /\ TrimmedLast /\ ResultsCounted

-----------------------------------------------------------------------------
(* The conversation grows and shrinks at its end                           *)

\* A message joins a conversation: it stays one if the message has no results
\* or answers the last one, and only results are new results.
LEMMA ConversationGrows ==
  ASSUME NEW h, Conversation(h), NEW m \in Messages,
         m[1] = "results" => h[Len(h)] = Assistant(m[2])
  PROVE  /\ Conversation(Append(h, m))
         /\ Len(Append(h, m)) = Len(h) + 1
         /\ Append(h, m)[Len(h) + 1] = m
         /\ ResultsIn(Append(h, m)) =
              IF m[1] = "results" THEN ResultsIn(h) \cup {Len(h) + 1} ELSE ResultsIn(h)
<1> DEFINE g == Append(h, m)
<1>1. h \in Seq(Messages) /\ Len(h) \in Nat /\ Len(h) >= 1
  BY DEF Conversation
<1>2. g \in Seq(Messages) /\ Len(g) = Len(h) + 1 /\ g[Len(h) + 1] = m
  BY <1>1
<1>3. \A i \in 1..Len(h) : g[i] = h[i]
  BY <1>1
<1> HIDE DEF g
<1>4. g[1] = Task
  BY <1>1, <1>3 DEF Conversation
<1>5. ASSUME NEW i \in 1..Len(g), g[i][1] = "results"
      PROVE  i > 1 /\ g[i - 1] = Assistant(g[i][2])
  <2>1. CASE i \in 1..Len(h)
    <3>1. h[i][1] = "results" /\ g[i] = h[i]
      BY <1>3, <1>5, <2>1
    <3>2. i > 1 /\ h[i - 1] = Assistant(h[i][2])
      BY <3>1, <2>1 DEF Conversation
    <3>3. i - 1 \in 1..Len(h)
      BY <3>2, <2>1, <1>1
    <3> QED BY <1>3, <3>1, <3>2, <3>3
  <2>2. CASE i = Len(h) + 1
    <3>1. g[i - 1] = h[Len(h)]
      BY <1>1, <1>3, <2>2
    <3> QED BY <1>1, <1>2, <1>5, <2>2, <3>1
  <2> QED BY <1>1, <1>2, <2>1, <2>2
<1>6. ResultsIn(g) =
        IF m[1] = "results" THEN ResultsIn(h) \cup {Len(h) + 1} ELSE ResultsIn(h)
  BY <1>1, <1>2, <1>3 DEF ResultsIn
<1>7. Conversation(g)
  BY <1>1, <1>2, <1>4, <1>5 DEF Conversation
<1> QED BY <1>2, <1>6, <1>7 DEF g

\* The last message leaves a conversation of more than one: it stays one, and
\* with a message without results no results are gone.
LEMMA ConversationShrinks ==
  ASSUME NEW h, Conversation(h), Len(h) > 1, h[Len(h)][1] # "results"
  PROVE  Conversation(Front(h)) /\ ResultsIn(Front(h)) = ResultsIn(h)
<1> DEFINE g == Front(h)
<1>1. h \in Seq(Messages) /\ Len(h) \in Nat
  BY DEF Conversation
<1>2. g \in Seq(Messages) /\ Len(g) = Len(h) - 1
  BY <1>1 DEF Front
<1>3. \A i \in 1..(Len(h) - 1) : g[i] = h[i]
  BY <1>1 DEF Front
<1> HIDE DEF g
<1>4. g[1] = Task
  BY <1>1, <1>3 DEF Conversation
<1>5. ASSUME NEW i \in 1..Len(g), g[i][1] = "results"
      PROVE  i > 1 /\ g[i - 1] = Assistant(g[i][2])
  <2>1. i \in 1..Len(h) /\ g[i] = h[i]
    BY <1>1, <1>2, <1>3
  <2>2. i > 1 /\ h[i - 1] = Assistant(h[i][2])
    BY <1>5, <2>1 DEF Conversation
  <2>3. g[i - 1] = h[i - 1]
    BY <1>1, <1>2, <1>3, <2>1, <2>2
  <2> QED BY <2>1, <2>2, <2>3
<1>6. ResultsIn(g) = ResultsIn(h)
  BY <1>1, <1>2, <1>3 DEF ResultsIn
<1>7. Conversation(g)
  BY <1>1, <1>2, <1>4, <1>5 DEF Conversation
<1> QED BY <1>6, <1>7 DEF g

\* What joins the conversation last is what Trim and a turn that is taken back
\* remove first.
LEMMA FrontOfAppend ==
  ASSUME NEW h \in Seq(Messages), NEW m \in Messages
  PROVE  Front(Append(h, m)) = h
<1> DEFINE g == Front(Append(h, m))
<1>1. Append(h, m) \in Seq(Messages) /\ Len(Append(h, m)) = Len(h) + 1
  OBVIOUS
<1>2. g \in Seq(Messages) /\ Len(g) = Len(h)
  BY <1>1 DEF Front
<1>3. \A i \in 1..Len(h) : g[i] = h[i]
  BY <1>1 DEF Front
<1> QED BY <1>2, <1>3

\* The number of messages with results, before and after one joins.
LEMMA ResultsNumbered ==
  ASSUME NEW h \in Seq(Messages)
  PROVE  /\ IsFiniteSet(ResultsIn(h))
         /\ Cardinality(ResultsIn(h)) \in Nat
         /\ Cardinality(ResultsIn(h) \cup {Len(h) + 1}) = Cardinality(ResultsIn(h)) + 1
<1>1. IsFiniteSet(1..Len(h))
  BY FS_Interval
<1>2. IsFiniteSet(ResultsIn(h))
  BY <1>1, FS_Subset DEF ResultsIn
<1>3. Len(h) + 1 \notin ResultsIn(h)
  BY DEF ResultsIn
<1> QED BY <1>2, <1>3, FS_AddElement, FS_CardinalityType

\* Messages the model may add without results.
LEMMA PlainMessages ==
  /\ Task \in Messages /\ Task[1] # "results"
  /\ Prompt \in Messages /\ Prompt[1] # "results"
  /\ \A n \in Nat : /\ Assistant(n) \in Messages /\ Assistant(n)[1] # "results"
                    /\ Results(n) \in Messages /\ Results(n)[1] = "results"
                    /\ Results(n)[2] = n /\ Assistant(n) # Task
BY DEF Messages, Task, Prompt, Assistant, Results

\* A message without results joins: the parts of the invariant about the
\* conversation alone are kept.
LEMMA PlainGrowth ==
  ASSUME NEW h, Conversation(h), NEW m \in Messages, m[1] # "results"
  PROVE  /\ Conversation(Append(h, m))
         /\ Append(h, m)[Len(Append(h, m))] = m
         /\ ResultsIn(Append(h, m)) = ResultsIn(h)
BY ConversationGrows

-----------------------------------------------------------------------------
(* The steps                                                               *)

LEMMA AgentStarts == Init => AgentInv
<1> SUFFICES ASSUME Init PROVE AgentInv
  OBVIOUS
<1> USE SubAgentAssumption DEF Init
<1>1. AgentType
  <2>1. fallback \in BOOLEAN /\ trimmed \in BOOLEAN
    OBVIOUS
  <2>2. rollbacks \in 0..(MaxRollbacks - 1)
    OBVIOUS
  <2>3. calls \in Seq(Queries \cup {NoQuery})
    OBVIOUS
  <2> QED BY <2>1, <2>2, <2>3 DEF AgentType
<1>2. Conversation(history)
  BY PlainMessages DEF Conversation, Task
<1>3. ResultsIn(history) = {}
  BY DEF ResultsIn, Task
<1>4. ResultsCounted
  BY <1>3, FS_EmptySet DEF ResultsCounted
<1> QED BY <1>1, <1>2, <1>4 DEF AgentInv, Pending, TurnsCounted, TrimmedLast

\* The steps in which the model is asked, and those that end the loop, leave no
\* calls to make.
LEMMA AskingKeeps ==
  ASSUME AgentInv,
         ModelBreaks \/ ModelFails \/ ModelAnswers \/ ReplyTakenBack \/ LoopEnds
           \/ Summarize
  PROVE  AgentInv'
<1> USE SubAgentAssumption
<1>t. AgentType /\ Conversation(history) /\ TurnsCounted /\ TrimmedLast /\ ResultsCounted
  BY DEF AgentInv
<1>1. AgentType'
  <2> USE <1>t DEF AgentType, turnVars, books, counters
  <2>1. CASE ModelBreaks BY <2>1 DEF ModelBreaks, Asks
  <2>2. CASE ModelFails
    <3>1. fallback' \in BOOLEAN
      BY <2>2 DEF ModelFails
    <3>2. /\ failures' \in Nat /\ turn' \in Nat /\ attempts' \in Nat /\ lost' \in Nat
          /\ at' \in {"model", "summary"}
      BY <2>2 DEF ModelFails, Asks
    <3> QED BY <2>2, <3>1, <3>2 DEF ModelFails
  <2>3. CASE ModelAnswers BY <2>3 DEF ModelAnswers, Asks
  <2>4. CASE ReplyTakenBack BY <2>4 DEF ReplyTakenBack, Asks, MayTakeBack
  <2>5. CASE LoopEnds BY <2>5 DEF LoopEnds
  <2>6. CASE Summarize BY <2>6 DEF Summarize
  <2> QED BY <2>1, <2>2, <2>3, <2>4, <2>5, <2>6
<1>2. Conversation(history') /\ ResultsIn(history') = ResultsIn(history)
  <2>1. ASSUME NEW m \in {Assistant(0), Prompt}
        PROVE  /\ Conversation(Append(history, m))
               /\ ResultsIn(Append(history, m)) = ResultsIn(history)
    BY <1>t, PlainMessages, PlainGrowth
  <2>2. /\ Conversation(Append(Append(history, Prompt), Assistant(0)))
        /\ ResultsIn(Append(Append(history, Prompt), Assistant(0))) = ResultsIn(history)
    <3> DEFINE g == Append(history, Prompt)
    <3>1. Conversation(g) /\ ResultsIn(g) = ResultsIn(history)
      BY <2>1
    <3> HIDE DEF g
    <3>2. Conversation(Append(g, Assistant(0))) /\ ResultsIn(Append(g, Assistant(0))) = ResultsIn(g)
      BY <3>1, PlainMessages, PlainGrowth
    <3> QED BY <3>1, <3>2 DEF g
  <2>3. history' \in {history, Append(history, Assistant(0)), Append(history, Prompt),
                      Append(Append(history, Prompt), Assistant(0))}
    BY DEF ModelBreaks, ModelFails, ModelAnswers, ReplyTakenBack, LoopEnds, Summarize
  <2> QED BY <1>t, <2>1, <2>2, <2>3
<1>3. at' # "tools" /\ (at' = "model" => TurnsCounted')
  BY <1>t DEF AgentType, TurnsCounted, ModelBreaks, ModelFails, ModelAnswers,
    ReplyTakenBack, LoopEnds, Summarize, Asks, turnVars, books, counters
<1>4. TrimmedLast'
  BY <1>t DEF TrimmedLast, ModelBreaks, ModelFails, ModelAnswers,
    ReplyTakenBack, LoopEnds, Summarize, Asks, books
<1>5. finished' = finished /\ trimmed' = trimmed
  BY DEF ModelBreaks, ModelFails, ModelAnswers, ReplyTakenBack, LoopEnds, Summarize, books
<1>6. ResultsCounted'
  BY <1>t, <1>2, <1>5 DEF ResultsCounted
<1> QED BY <1>1, <1>2, <1>3, <1>4, <1>6 DEF AgentInv, Pending, TurnsCounted

\* A reply with calls: it is the last message, with the number of its calls.
LEMMA CallsKeep ==
  ASSUME AgentInv, ModelCalls
  PROVE  AgentInv'
<1> USE SubAgentAssumption
<1>t. /\ AgentType /\ Conversation(history) /\ TurnsCounted /\ TrimmedLast
      /\ ResultsCounted
  BY DEF AgentInv
<1>1. PICK n \in 1..MaxCalls :
        /\ calls' \in [1..n -> Queries \cup {NoQuery}]
        /\ history' = Append(history, Assistant(n))
  BY DEF ModelCalls
<1>2. n \in Nat
  BY <1>1
<1>3. calls' \in Seq(Queries \cup {NoQuery}) /\ Len(calls') = n
  BY <1>1, <1>2
<1>4. AgentType'
  BY <1>t, <1>3 DEF AgentType, ModelCalls, Asks, books
<1>5. /\ Conversation(history') /\ history'[Len(history')] = Assistant(n)
      /\ ResultsIn(history') = ResultsIn(history)
  BY <1>t, <1>1, <1>2, PlainMessages, PlainGrowth
<1>6. Pending'
  BY <1>2, <1>3, <1>5 DEF Pending, ModelCalls
<1>7. TurnsCounted' /\ TrimmedLast'
  BY <1>t DEF TurnsCounted, TrimmedLast, AgentType, ModelCalls, Asks, books
<1>8. ResultsCounted'
  BY <1>t, <1>5 DEF ResultsCounted, ModelCalls, books
<1> QED BY <1>4, <1>5, <1>6, <1>7, <1>8 DEF AgentInv

\* A turn is taken back: the reply that asked for the calls was the last
\* message, so that only it leaves.
LEMMA RefusalsKeep ==
  ASSUME AgentInv, Refuse \/ ResultTakenBack
  PROVE  AgentInv'
<1> USE SubAgentAssumption
<1>t. /\ AgentType /\ Conversation(history) /\ Pending /\ TurnsCounted /\ TrimmedLast
      /\ ResultsCounted
  BY DEF AgentInv
<1>1. /\ at = "tools" /\ calls # <<>> /\ rollbacks < MaxRollbacks - 1 /\ TurnBack
      /\ UNCHANGED books
  BY DEF Refuse, ResultTakenBack, Calling, Runs, MayTakeBack
<1>2. answers + Len(calls) \in Nat
  BY <1>t DEF AgentType
<1>3. /\ history[Len(history)] = Assistant(answers + Len(calls))
      /\ history[Len(history)][1] # "results" /\ history[Len(history)] # Task
  BY <1>t, <1>1, <1>2, PlainMessages DEF Pending
<1>4. Len(history) > 1
  BY <1>t, <1>3 DEF Conversation
<1>5. history' = Front(history)
  BY <1>1 DEF TurnBack
<1>6. Conversation(history') /\ ResultsIn(history') = ResultsIn(history)
  BY <1>t, <1>3, <1>4, <1>5, ConversationShrinks
<1>7. AgentType' /\ TurnsCounted' /\ TrimmedLast' /\ Pending'
  BY <1>t, <1>1 DEF AgentType, TurnsCounted, TrimmedLast, Pending, TurnBack, TakenBack, books
<1>8. ResultsCounted'
  BY <1>t, <1>1, <1>6 DEF ResultsCounted, books
<1> QED BY <1>6, <1>7, <1>8 DEF AgentInv

\* A call is answered: one less to make, one more result.
LEMMA AnsweredKeeps ==
  ASSUME AgentInv, Answered
  PROVE  AgentInv'
<1>t. /\ AgentType /\ Conversation(history) /\ Pending /\ TurnsCounted /\ TrimmedLast
      /\ ResultsCounted
  BY DEF AgentInv
<1>1. /\ calls \in Seq(Queries \cup {NoQuery}) /\ calls # <<>> /\ answers \in Nat
      /\ calls' = Tail(calls) /\ answers' = answers + 1
  BY <1>t DEF AgentType, Answered, Runs, Calling
<1>2. calls' \in Seq(Queries \cup {NoQuery}) /\ Len(calls') = Len(calls) - 1
  BY <1>1
<1>3. answers' + Len(calls') = answers + Len(calls)
  BY <1>1, <1>2
<1>4. UNCHANGED <<at, counters, history, books>>
  BY DEF Answered
<1>5. Pending'
  BY <1>t, <1>3, <1>4 DEF Pending
<1>6. AgentType'
  BY <1>t, <1>1, <1>2, <1>4 DEF AgentType, counters, books
<1>7. TurnsCounted' /\ TrimmedLast' /\ ResultsCounted' /\ Conversation(history')
  BY <1>t, <1>4 DEF TurnsCounted, TrimmedLast, ResultsCounted, counters, books
<1> QED BY <1>5, <1>6, <1>7 DEF AgentInv

\* The turn ends with a message that answers all calls of the one before it,
\* or, trimmed, with neither of the two.
LEMMA TurnEndKeeps ==
  ASSUME AgentInv, TurnEnds
  PROVE  AgentInv'
<1> USE SubAgentAssumption
<1> DEFINE grown == Append(history, Results(answers))
<1>t. /\ AgentType /\ Conversation(history) /\ Pending /\ TurnsCounted /\ TrimmedLast
      /\ ResultsCounted
  BY DEF AgentInv
<1>1. /\ at = "tools" /\ calls = <<>> /\ answers \in Nat /\ ~trimmed
      /\ finished' = finished + 1 /\ finished \in Nat
  BY <1>t DEF AgentType, TrimmedLast, TurnEnds
<1>h. history \in Seq(Messages) /\ Len(history) >= 1 /\ Len(history) \in Nat
  BY <1>t DEF Conversation
<1>2. history[Len(history)] = Assistant(answers)
  BY <1>t, <1>1 DEF Pending
<1>3. /\ Conversation(grown)
      /\ ResultsIn(grown) = ResultsIn(history) \cup {Len(history) + 1}
  BY <1>t, <1>1, <1>2, PlainMessages, ConversationGrows
<1>4. /\ Cardinality(ResultsIn(history)) = finished
      /\ Cardinality(ResultsIn(grown)) = finished + 1
  BY <1>t, <1>1, <1>3, <1>h, ResultsNumbered DEF ResultsCounted
<1>5. Trim(grown) = Front(history)
  BY <1>1, <1>h, FrontOfAppend, PlainMessages DEF Trim
<1>6. Conversation(Front(history)) /\ ResultsIn(Front(history)) = ResultsIn(history)
  <2>1. Len(history) > 1
    BY <1>1, <1>2, <1>h, <1>t, PlainMessages DEF Conversation
  <2> QED BY <1>t, <1>1, <1>2, <2>1, PlainMessages, ConversationShrinks
<1> HIDE DEF grown
<1>7. \/ history' = grown /\ at' = "model" /\ UNCHANGED <<turn, trimmed>>
      \/ history' = Trim(grown) /\ trimmed' = TRUE /\ turn' = MaxTurns /\ at' = "summary"
  BY DEF TurnEnds, grown
<1>8. Conversation(history') /\ ResultsCounted'
  <2>1. CASE history' = grown /\ UNCHANGED trimmed
    <3>1. ~trimmed' /\ Cardinality(ResultsIn(history')) = finished'
      BY <1>1, <1>4, <2>1
    <3> QED BY <1>1, <1>3, <2>1, <3>1 DEF ResultsCounted
  <2>2. CASE history' = Trim(grown) /\ trimmed' = TRUE
    BY <1>1, <1>4, <1>5, <1>6, <2>2 DEF ResultsCounted
  <2> QED BY <1>7, <2>1, <2>2
<1>9. AgentType'
  <2>1. trimmed' \in BOOLEAN /\ fallback' \in BOOLEAN
    BY <1>t, <1>7 DEF AgentType, TurnEnds
  <2>2. /\ turn' \in Nat /\ rollbacks' \in 0..(MaxRollbacks - 1)
        /\ at' \in {"model", "summary"}
    BY <1>t, <1>7 DEF AgentType, TurnEnds
  <2> QED BY <1>t, <2>1, <2>2 DEF AgentType, TurnEnds, turnVars
<1>10. TurnsCounted' /\ TrimmedLast' /\ Pending'
  BY <1>t, <1>7 DEF TurnsCounted, TrimmedLast, Pending, TurnEnds, AgentType
<1> QED BY <1>8, <1>9, <1>10 DEF AgentInv

LEMMA AgentKeeps == AgentInv /\ [Next]_vars => AgentInv'
<1> SUFFICES ASSUME AgentInv, [Next]_vars PROVE AgentInv'
  OBVIOUS
<1>1. CASE UNCHANGED vars
  BY <1>1 DEF AgentInv, AgentType, Pending, TurnsCounted, TrimmedLast, ResultsCounted,
    vars, counters, turnVars, books
<1> QED BY <1>1, AskingKeeps, CallsKeep, RefusalsKeep, AnsweredKeeps, TurnEndKeeps
        DEF Next, Done

\* AgentInv is inductive: the conversation of run_sub_agent, its counters and the
\* place of its loop always agree.
THEOREM AgentInvariant == Spec => []AgentInv
<1>1. Init => AgentInv
  BY AgentStarts
<1> QED BY <1>1, AgentKeeps, PTL DEF Spec

-----------------------------------------------------------------------------
(* What the runs check, for every value of the constants                   *)

\* The results in the history, as the properties name them.
LEMMA ResultsAtAreResults ==
  ASSUME Conversation(history)
  PROVE  ResultsAt = ResultsIn(history)
<1>1. history \in Seq(Messages)
  BY DEF Conversation
<1>2. DOMAIN history = 1..Len(history)
  BY <1>1
<1> QED BY <1>2 DEF ResultsAt, ResultsIn

\* Whatever is taken back or trimmed, every message with results answers all
\* calls of the message right before it.
THEOREM ConversationHoldsAlways == Spec => []ConversationHolds
<1>1. AgentInv => ConversationHolds
  BY ResultsAtAreResults DEF AgentInv, Conversation, ConversationHolds, ResultsIn
<1> QED BY <1>1, AgentInvariant, PTL

\* Taking turns back costs no results and no turns.
THEOREM WorkIsKeptAlways == Spec => []WorkIsKept
<1>1. AgentInv => WorkIsKept
  BY SubAgentAssumption, ResultsAtAreResults
    DEF AgentInv, AgentType, TurnsCounted, ResultsCounted, WorkIsKept
<1> QED BY <1>1, AgentInvariant, PTL
=============================================================================
