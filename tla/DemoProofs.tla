----------------------------- MODULE DemoProofs -----------------------------
(***************************************************************************)
(* Theorems about the Gradio process, for every set of tasks, every number *)
(* of clicks, and either backend.                                          *)
(***************************************************************************)
EXTENDS Demo, TLAPS

Places == {"idle", "open", "yield", "get", "dropped", "joining", "cut", "done"}
Items == {"sources", "final", "completed", "failed", "cancelled", "end"}

DemoType ==
  /\ run \in [Runs -> Places]
  /\ flag \in [Runs -> {"none", "clear", "set"}]
  /\ backend \in Backends

\* An active task is held by a consumer or a viewer, a flag belongs to an active
\* task, and a cancel event to a stream that has not been left.
MarksHeld ==
  \A r \in Runs :
    /\ r \in active => HeldByRun(r) \/ HeldByView(r)
    /\ flag[r] # "none" => r \in active
    /\ r \in signals => run[r] \in {"yield", "get", "dropped"}

\* With the local backend nobody views a task of the server.
OneBackend == backend = "local" => holds = {}

DemoInv == DemoType /\ MarksHeld /\ OneBackend

ReportType ==
  /\ run \in [Runs -> Places] /\ DOMAIN thread = Runs
  /\ thread = [r \in Runs |-> thread[r]]
  /\ box \in [Runs -> Seq(Items)] /\ ready \in [Runs -> Nat]
  /\ got \in [Runs -> SUBSET Items] /\ results \subseteq Runs

\* The life of a task: no thread and no items before its stream, no stream left
\* without its cancel event set, no report stored before the end.
Phased(r) ==
  /\ run[r] \in {"idle", "open"} => thread[r] = "none"
  /\ run[r] \in {"idle", "open"} \/ Closed(r) => box[r] = <<>>
  /\ Closed(r) => r \in cancelled \/ thread[r] = "none"
  /\ ready[r] <= Len(box[r])
  /\ r \in results => run[r] = "done"

\* The endpoint has seen the event, or finds it in the first n items.
Ahead(r, event, n) ==
  event \in got[r] \/ \E i \in 1..n : box[r][i] = event

\* The sources go ahead of the report that cites them, from the pipeline to the
\* cache, and nobody hears of a completion before the pipeline has succeeded.
Ordered(r) ==
  /\ "final" \in got[r] => "sources" \in got[r]
  /\ \A i \in 1..Len(box[r]) : box[r][i] = "final" => Ahead(r, "sources", i)
  /\ thread[r] = "reporting" /\ r \notin cancelled
       => Ahead(r, "sources", Len(box[r]))
  /\ Ahead(r, "completed", Len(box[r])) => thread[r] = "succeeded"

Stored(r) ==
  r \in results => thread[r] = "succeeded" /\ {"sources", "final"} \subseteq got[r]

\* Of the tasks of a page the events only pass through.
ReportOf(r) == Phased(r) /\ (r \in api => Ordered(r)) /\ Stored(r)

ReportInv == ReportType /\ \A r \in Runs : ReportOf(r)

-----------------------------------------------------------------------------
(* The registry: the consumer of the local backend                         *)

\* What the consumers change keeps the invariant, whatever the rest does.
Kept == DemoType' /\ MarksHeld'

\* The task is dropped, which has no mark any more if its cancel event is gone.
LEMMA DropKeeps ==
  ASSUME DemoInv, NEW r \in Runs, Drop(r), r \notin signals',
         signals' \subseteq signals, UNCHANGED <<apiVars, backend>>
  PROVE  Kept
<1>t. DemoType /\ MarksHeld
  BY DEF DemoInv
<1>1. DemoType'
  BY <1>t DEF DemoType, Drop, RunTo, Unregister, Places
<1>2. MarksHeld'
  BY <1>t DEF MarksHeld, DemoType, Drop, RunTo, Unregister, Places, HeldByRun,
    HeldByView, apiVars, viewVars
<1> QED BY <1>1, <1>2 DEF Kept

\* The finally of the stream, by whatever way it is left.
LEMMA CloseKeeps ==
  ASSUME DemoInv, NEW r \in Runs, Closes(r),
         run[r] \in {"yield", "get", "dropped"},
         UNCHANGED <<apiVars, backend>>,
         \/ (RunTo(r, "joining") \/ RunTo(r, "cut")) /\ UNCHANGED <<active, flag>>
         \/ Drop(r)
  PROVE  Kept
<1>t. DemoType /\ MarksHeld /\ signals' = signals \ {r}
  BY DEF DemoInv, Closes
<1>1. CASE /\ RunTo(r, "joining") \/ RunTo(r, "cut")
           /\ UNCHANGED <<active, flag>>
  BY <1>t, <1>1 DEF Kept, DemoType, MarksHeld, RunTo, Places, HeldByRun, HeldByView,
    apiVars, viewVars
<1>2. CASE Drop(r)
  BY <1>t, <1>2, DropKeeps
<1> QED BY <1>1, <1>2

\* Resuming, taking a message and the waits for one.
LEMMA ConsumerKeeps ==
  ASSUME DemoInv, NEW r \in Runs, UNCHANGED <<apiVars, backend>>,
         Resume(r) \/ Take(r) \/ Timeout(r) \/ Silence(r) \/ Collect(r)
  PROVE  Kept
<1>t. DemoType /\ MarksHeld
  BY DEF DemoInv
<1>1. CASE \E isSet : Leave(r, isSet) /\ run[r] \in {"yield", "get", "dropped"}
  BY <1>1, CloseKeeps DEF Leave, Finish
<1>2. CASE /\ RunTo(r, "get") \/ RunTo(r, "yield")
           /\ run[r] \in {"yield", "get"} /\ UNCHANGED registryVars
  BY <1>t, <1>2 DEF Kept, DemoType, MarksHeld, RunTo, Places,
    HeldByRun, HeldByView, registryVars, apiVars, viewVars
<1> QED BY <1>1, <1>2 DEF Resume, Take, Timeout, Silence, Collect

\* The steps of a local run: the task is registered or found in the cache, its
\* stream is started, left, killed or waited for.
LEMMA LocalRunKeeps ==
  ASSUME DemoInv, NEW r \in Runs, backend = "local", UNCHANGED <<apiVars, backend>>,
         \/ Open(r) \/ FromCache(r) \/ ConsumerStep(r) \/ Silence(r)
         \/ Click(r) \/ Kill(r) \/ ThreadStep(r)
  PROVE  Kept
<1>t. DemoType /\ MarksHeld /\ ~HeldByView(r)
  BY DEF DemoInv, OneBackend, HeldByView
<1>u. UNCHANGED <<holds, view, backend>>
  BY DEF apiVars, viewVars
<1>1. CASE Open(r)
  BY <1>t, <1>u, <1>1 DEF Kept, DemoType, MarksHeld, Open, Register, RunTo, Places,
    HeldByRun, HeldByView
<1>2. CASE FromCache(r)
  BY <1>t, <1>u, <1>2 DEF Kept, DemoType, MarksHeld, FromCache, RunTo, Places,
    HeldByRun, HeldByView, registryVars
<1>3. CASE Start(r)
  BY <1>t, <1>u, <1>3 DEF Kept, DemoType, MarksHeld, Start, RunTo, Places,
    HeldByRun, HeldByView
<1>4. CASE Joined(r)
  <2>1. r \notin signals /\ Drop(r)
    BY <1>t, <1>4 DEF MarksHeld, Joined, Finish, Unwind
  <2> QED BY <1>4, <2>1, DropKeeps DEF Joined
<1>5. CASE Kill(r)
  <2>1. CASE /\ run[r] \in {"open", "yield"}
             /\ RunTo(r, IF run[r] = "open" THEN "done" ELSE "dropped")
             /\ Unregister(r) /\ UNCHANGED signals
    BY <1>t, <1>u, <2>1 DEF Kept, DemoType, MarksHeld, Unregister, RunTo, Places,
      HeldByRun, HeldByView
  <2>2. CASE /\ run[r] = "get" /\ Closes(r)
             /\ \/ RunTo(r, "cut") /\ UNCHANGED <<active, flag>>
                \/ Drop(r)
    BY <2>2, CloseKeeps
  <2>3. CASE run[r] = "joining" /\ RunTo(r, "cut") /\ UNCHANGED registryVars
    BY <1>t, <1>u, <2>3 DEF Kept, DemoType, MarksHeld, RunTo, Places, HeldByRun,
      HeldByView, registryVars
  <2> QED BY <1>5, <2>1, <2>2, <2>3 DEF Kill, Unwind
<1>6. CASE Click(r) \/ ThreadStep(r)
  BY <1>t, <1>u, <1>6 DEF Kept, DemoType, MarksHeld, Click, Press, ThreadStep,
    HeldByRun, HeldByView, registryVars, localVars, streamVars
<1> QED BY <1>1, <1>2, <1>3, <1>4, <1>5, <1>6, ConsumerKeeps DEF ConsumerStep

-----------------------------------------------------------------------------
(* The registry: the Stop button and the stop endpoint, with either backend *)

Stops == StopStep \/ SignalTargets \/ \E session : StopByCaller(session)

\* Flags are set on active tasks only, and cancel events only leave.
LEMMA StopKeeps ==
  ASSUME DemoInv, UNCHANGED <<streamVars, holds, backend>>,
         Stops \/ UNCHANGED registryVars
  PROVE  Kept
<1>t. DemoType /\ MarksHeld
  BY DEF DemoInv
<1>1. UNCHANGED <<active, run, holds, backend>> /\ signals' \subseteq signals
  BY DEF Stops, StopStep, PickTargets, FlagTargets, SignalTargets, StopByCaller,
    streamVars, registryVars
<1>2. flag' = flag \/ \E rs \in SUBSET active :
        flag' = [r \in Runs |-> IF r \in rs THEN "set" ELSE flag[r]]
  <2>1. CASE FlagTargets
    <3>1. Markable \in SUBSET active
      BY DEF Markable
    <3> QED BY <2>1, <3>1 DEF FlagTargets
  <2>2. CASE \E session : StopByCaller(session)
    <3>1. active \cap named \in SUBSET active
      OBVIOUS
    <3> QED BY <2>2, <3>1 DEF StopByCaller
  <2>3. CASE PickTargets \/ SignalTargets \/ UNCHANGED registryVars
    BY <2>3 DEF PickTargets, SignalTargets, registryVars
  <2> QED BY <2>1, <2>2, <2>3 DEF Stops, StopStep
<1>3. DemoType'
  BY <1>t, <1>1, <1>2 DEF DemoType
<1>4. MarksHeld'
  BY <1>t, <1>1, <1>2 DEF DemoType, MarksHeld, HeldByRun, HeldByView
<1> QED BY <1>3, <1>4 DEF Kept

LEMMA LocalKeeps ==
  ASSUME DemoInv, backend = "local", LocalNext, UNCHANGED <<apiVars, backend>>
  PROVE  Kept
<1>1. CASE LocalStop \/ CallStop
  BY <1>1, StopKeeps DEF LocalStop, CallStop, Stops, localVars, apiVars, viewVars
<1>2. ASSUME NEW r \in Runs,
             \/ Open(r) \/ FromCache(r) \/ ConsumerStep(r) \/ Silence(r)
             \/ Click(r) \/ Kill(r) \/ ThreadStep(r)
      PROVE  Kept
  BY <1>2, LocalRunKeeps
<1> QED BY <1>1, <1>2 DEF LocalNext

-----------------------------------------------------------------------------
(* The registry: the viewers of the API backend                            *)

\* What a viewer does to the registry: nothing, an entry for a task it holds
\* from then on, or the removal of the entry with its hold.
Enters(r, v) == Register(r) /\ holds' = holds \cup {<<r, v>>}

LEMMA ViewersKeep ==
  ASSUME DemoInv, NEW r \in Runs, NEW v \in Viewers,
         UNCHANGED <<streamVars, signals, backend>>,
         \/ Enters(r, v) \/ Release(r, v) \/ UNCHANGED <<holds, active, flag>>
  PROVE  Kept
<1>t. DemoType /\ MarksHeld
  BY DEF DemoInv
<1>1. UNCHANGED <<run, signals, backend>>
  BY DEF streamVars
<1>2. DemoType'
  BY <1>t, <1>1 DEF DemoType, Enters, Register, Release, Unregister
<1>3. MarksHeld'
  <2>1. CASE Enters(r, v)
    BY <1>t, <1>1, <2>1 DEF DemoType, MarksHeld, Enters, Register, HeldByRun, HeldByView
  <2>2. CASE Release(r, v) /\ <<r, v>> \in holds
    BY <1>t, <1>1, <2>2 DEF DemoType, MarksHeld, Release, Unregister, HeldByRun,
      HeldByView
  <2>3. CASE UNCHANGED <<holds, active, flag>>
    BY <1>t, <1>1, <2>3 DEF DemoType, MarksHeld, HeldByRun, HeldByView
  <2>4. CASE Release(r, v) /\ <<r, v>> \notin holds
    BY <2>3, <2>4 DEF Release
  <2> QED BY <2>1, <2>2, <2>3, <2>4
<1> QED BY <1>2, <1>3 DEF Kept

LEMMA ApiKeeps ==
  ASSUME DemoInv, ApiNext, UNCHANGED <<localVars, backend>>
  PROVE  Kept
<1>1. UNCHANGED <<streamVars, backend>> /\ Viewers = {"run", "reload"}
  BY DEF localVars, Viewers
<1>2. CASE ApiStop \/ CancelByCaller
  BY <1>1, <1>2, StopKeeps DEF ApiStop, Signalled, CancelRemote, CancelByCaller, Stops,
    StopReturns, apiVars, viewVars, registryVars
<1>3. ASSUME NEW r \in Runs,
             \/ Submit(r) \/ ServerCreates(r) \/ CreateFails(r) \/ Reload(r)
             \/ ServerEnds(r) \/ \E v \in Viewers : ClickApi(r, v)
      PROVE  Kept
  BY <1>1, <1>3, ViewersKeep DEF Submit, ServerCreates, CreateFails, Reload, ServerEnds,
    ClickApi, Press, apiVars, viewVars, registryVars
<1>4. ASSUME NEW r \in Runs, Created(r) \/ Snapshot(r)
      PROVE  Kept
  BY <1>1, <1>4, ViewersKeep DEF Created, Snapshot, Enters
<1>5. ASSUME NEW r \in Runs, NEW v \in Viewers,
             Chunk(r, v) \/ Breaks(r, v) \/ CancelRun(r) \/ CancelCall(r)
      PROVE  Kept
  BY <1>1, <1>5, ViewersKeep DEF Chunk, Breaks, CancelRun, CancelCall, Close
<1> QED BY <1>1, <1>2, <1>3, <1>4, <1>5 DEF ApiNext, ViewerStep

LEMMA DemoStarts == Init => DemoInv
BY DEF Init, RegistryInit, LocalInit, ApiInit, DemoInv, DemoType, Places, MarksHeld,
  OneBackend, HeldByRun, HeldByView

LEMMA DemoKeeps == DemoInv /\ [Next]_vars => DemoInv'
<1> SUFFICES ASSUME DemoInv, [Next]_vars PROVE DemoInv'
  OBVIOUS
<1>1. OneBackend'
  BY DEF DemoInv, OneBackend, DemoType, Backends, Next, vars, apiVars, viewVars
<1>2. CASE UNCHANGED vars
  BY <1>2 DEF DemoInv, DemoType, MarksHeld, OneBackend, HeldByRun, HeldByView, vars,
    registryVars, localVars, streamVars, apiVars, viewVars
<1>3. CASE Next
  <2>1. Kept
    BY <1>3, LocalKeeps, ApiKeeps DEF Next
  <2> QED BY <1>1, <2>1 DEF Kept, DemoInv
<1> QED BY <1>2, <1>3

-----------------------------------------------------------------------------
(* The report of a task: what one step leaves of it                        *)

\* What a thread or the event loop does to the task q that is not its own: it
\* may wake it from its wait for a load.
Untouched(q) ==
  /\ UNCHANGED <<run[q], box[q], ready[q], got[q]>>
  /\ thread'[q] = thread[q] \/ (thread[q] = "await" /\ thread'[q] = "woken")
  /\ q \in results' => q \in results

LEMMA ElsewhereKept ==
  ASSUME ReportInv, NEW q \in Runs, Untouched(q), cancelled \subseteq cancelled',
         api' = api
  PROVE  ReportOf(q)'
<1>1. ReportOf(q)
  BY DEF ReportInv
<1>2. Phased(q)' /\ Stored(q)'
  BY <1>1 DEF ReportOf, Phased, Stored, Untouched, Closed
<1>3. q \in api' => Ordered(q)'
  BY <1>1 DEF ReportOf, Ordered, Ahead, Untouched
<1> QED BY <1>2, <1>3 DEF ReportOf

LEMMA Appended ==
  ASSUME NEW S, NEW s \in Seq(S), NEW t \in Seq(S)
  PROVE  /\ s \o t \in Seq(S) /\ Len(s \o t) = Len(s) + Len(t)
         /\ \A i \in 1..Len(s) : (s \o t)[i] = s[i]
         /\ \A i \in 1..Len(s \o t) : i > Len(s) => (s \o t)[i] = t[i - Len(s)]
OBVIOUS

\* What the thread and the pipeline put into the queue at once.
Puts == {<<>>, <<"sources">>, <<"final">>, <<"completed", "end">>,
         <<"failed", "end">>, <<"cancelled", "end">>, <<"end">>}

LEMMA PutsShape ==
  ASSUME NEW items \in Puts
  PROVE  /\ items \in Seq(Items) /\ Len(items) \in Nat
         /\ \A i \in 1..Len(items) : items[i] = "final" => items = <<"final">>
         /\ \A i \in 1..Len(items) :
              items[i] = "completed" => items = <<"completed", "end">>
<1>1. CASE items = <<>>
  BY <1>1 DEF Items
<1>2. ASSUME NEW e \in {"sources", "final", "end"}, items = <<e>>
      PROVE  items \in Seq(Items) /\ Len(items) = 1 /\ items[1] = e
  BY <1>2 DEF Items
<1>3. ASSUME NEW e \in {"completed", "failed", "cancelled"}, items = <<e, "end">>
      PROVE  /\ items \in Seq(Items) /\ Len(items) = 2
             /\ items[1] = e /\ items[2] = "end"
  BY <1>3 DEF Items
<1>4. CASE \E e \in {"sources", "final", "end"} : items = <<e>>
  BY <1>2, <1>4
<1>5. CASE \E e \in {"completed", "failed", "cancelled"} : items = <<e, "end">>
  BY <1>3, <1>5
<1> QED BY <1>1, <1>4, <1>5 DEF Puts

\* A step of the thread that publishes: the report only behind the sources, a
\* completion only with the success.
LEMMA PublishKeeps ==
  ASSUME ReportInv, NEW r \in Runs, NEW items \in Puts, Publish(r, items),
         UNCHANGED <<api, cancelled, streamVars>>,
         thread[r] \notin {"none", "succeeded"}, thread'[r] # "none",
         items = <<"completed", "end">> => thread'[r] = "succeeded",
         r \in api /\ items = <<"final">> => Ahead(r, "sources", Len(box[r])),
         thread'[r] = "reporting" => r \in cancelled \/ items = <<"sources">>
  PROVE  ReportOf(r)' /\ box' \in [Runs -> Seq(Items)] /\ ready' = ready
<1>1. ReportType /\ ReportOf(r)
  BY DEF ReportInv
<1>2. ready' = ready /\ UNCHANGED <<run, got, results, cancelled, api>>
  BY DEF Publish, streamVars
<1>3. items \in Seq(Items)
  BY PutsShape
<1>4. r \notin results
  BY <1>1 DEF ReportOf, Stored
<1>5. CASE Closed(r)
  <2>1. box' = box /\ r \in cancelled
    BY <1>1, <1>5 DEF Publish, ReportOf, Phased
  <2>2. r \in api => Ordered(r)'
    BY <1>1, <1>2, <2>1 DEF ReportOf, Ordered, Ahead
  <2> QED BY <1>1, <1>2, <1>4, <2>1, <2>2 DEF ReportOf, Phased, Stored, Closed, ReportType
<1>6. CASE ~Closed(r)
  <2> DEFINE s == box[r]  t == box'[r]
  <2>1. s \in Seq(Items) /\ t = s \o items /\ box' \in [Runs -> Seq(Items)]
    BY <1>1, <1>3, <1>6 DEF Publish, ReportType
  <2>2. /\ Len(t) = Len(s) + Len(items)
        /\ \A i \in 1..Len(s) : t[i] = s[i]
        /\ \A i \in 1..Len(t) : i > Len(s) => t[i] = items[i - Len(s)]
        /\ Len(s) \in Nat /\ Len(t) \in Nat /\ Len(items) \in Nat
    BY <1>3, <2>1, Appended
  <2>3. Phased(r)' /\ Stored(r)'
    <3>1. run[r] \notin {"idle", "open"} /\ ready[r] <= Len(s) /\ ready[r] \in Nat
      BY <1>1 DEF ReportOf, Phased, ReportType
    <3>2. ready'[r] <= Len(t)
      BY <1>2, <2>2, <3>1
    <3> QED BY <1>2, <1>4, <1>6, <3>1, <3>2 DEF Phased, Stored, Closed
  <2>4. ASSUME r \in api PROVE Ordered(r)'
    <3>1. Ordered(r)
      BY <1>1, <2>4 DEF ReportOf
    <3>2. \A e \in Items, n \in 0..Len(s) : Ahead(r, e, n) => Ahead(r, e, n)'
      BY <1>2, <2>2 DEF Ahead
    <3>3. \A i \in 1..Len(t) : t[i] = "final" => Ahead(r, "sources", i)'
      <4> SUFFICES ASSUME NEW i \in 1..Len(t), t[i] = "final"
                   PROVE  Ahead(r, "sources", i)'
        OBVIOUS
      <4>1. CASE i \in 1..Len(s)
        BY <2>2, <3>1, <3>2, <4>1 DEF Ordered, Items
      <4>2. CASE i > Len(s)
        <5>1. items[i - Len(s)] = "final" /\ i - Len(s) \in 1..Len(items)
          BY <2>2, <4>2
        <5>2. items = <<"final">>
          BY <5>1, PutsShape
        <5>3. Ahead(r, "sources", Len(s))
          BY <2>4, <5>2
        <5>4. "sources" \in got'[r] \/ \E j \in 1..Len(s) : t[j] = "sources"
          BY <1>2, <2>2, <5>3 DEF Ahead
        <5> QED BY <2>2, <4>2, <5>4 DEF Ahead
      <4> QED BY <2>2, <4>1, <4>2
    <3>4. thread'[r] = "reporting" /\ r \notin cancelled' => Ahead(r, "sources", Len(box[r]))'
      <4> SUFFICES ASSUME items = <<"sources">> PROVE Ahead(r, "sources", Len(box[r]))'
        BY <1>2
      <4>1. t[Len(s) + 1] = "sources" /\ Len(s) + 1 \in 1..Len(t)
        BY <2>2
      <4> QED BY <4>1 DEF Ahead
    <3>5. ASSUME Ahead(r, "completed", Len(box[r]))' PROVE thread'[r] = "succeeded"
      <4>1. ~ Ahead(r, "completed", Len(s))
        BY <3>1 DEF Ordered
      <4>2. "completed" \notin got'[r]
        BY <1>2, <4>1 DEF Ahead
      <4>3. PICK i \in 1..Len(t) : t[i] = "completed"
        BY <3>5, <4>2 DEF Ahead
      <4>4. i > Len(s)
        BY <2>2, <4>1, <4>3 DEF Ahead
      <4>5. items[i - Len(s)] = "completed" /\ i - Len(s) \in 1..Len(items)
        BY <2>2, <4>3, <4>4
      <4>6. items = <<"completed", "end">>
        BY <4>5, PutsShape
      <4> QED BY <4>6
    <3> QED BY <1>2, <3>1, <3>3, <3>4, <3>5 DEF Ordered
  <2> QED BY <1>2, <2>1, <2>3, <2>4 DEF ReportOf
<1> QED BY <1>5, <1>6

-----------------------------------------------------------------------------
(* The report of a task: the thread                                        *)

\* A step of the thread that puts nothing.
LEMMA SilentKeeps ==
  ASSUME ReportInv, NEW r \in Runs, UNCHANGED <<api, cancelled, streamVars, box>>,
         ready'[r] <= Len(box[r]),
         \/ thread'[r] = thread[r]
         \/ /\ thread[r] \notin {"none", "succeeded"}
            /\ thread'[r] \notin {"none", "reporting"}
  PROVE  ReportOf(r)'
<1>1. ReportOf(r)
  BY DEF ReportInv
<1>2. Phased(r)' /\ Stored(r)'
  BY <1>1 DEF ReportOf, Phased, Stored, Closed, streamVars
<1>3. r \in api => Ordered(r)'
  BY <1>1 DEF ReportOf, Ordered, Ahead, streamVars
<1> QED BY <1>2, <1>3 DEF ReportOf, streamVars

\* One step of the thread of a task, for that task.
LEMMA ThreadOwn ==
  ASSUME ReportInv, NEW r \in Runs, ThreadStep(r)
  PROVE  ReportOf(r)' /\ box' \in [Runs -> Seq(Items)] /\ ready' \in [Runs -> Nat]
<1>1. ReportType /\ ReportOf(r) /\ UNCHANGED <<api, cancelled, streamVars>>
  BY DEF ReportInv, ThreadStep, registryVars
<1>2. CASE LookUp(r) \/ Loaded(r) \/ Hang(r)
  <2>1. box' = box /\ ready' = ready
    BY <1>2 DEF LookUp, Loaded, Hang, queueVars
  <2>2. thread[r] \in {"preload", "loading", "running"}
    BY <1>2 DEF LookUp, Loaded, Hang
  <2>3. thread'[r] \in {"running", "await", "loading", "hung"}
    BY <1>1, <1>2 DEF LookUp, Loaded, Hang, Woken, ThreadTo, ReportType
  <2> QED BY <1>1, <2>1, <2>2, <2>3, SilentKeeps DEF ReportOf, Phased, ReportType
<1>3. CASE Deliver(r)
  <2>1. thread' = thread /\ box' = box /\ ready' = [ready EXCEPT ![r] = Len(box[r])]
    BY <1>3 DEF Deliver, threadVars
  <2>2. Len(box[r]) \in Nat
    BY <1>1 DEF ReportType
  <2>3. ready' \in [Runs -> Nat] /\ ready'[r] = Len(box[r])
    BY <1>1, <2>1, <2>2 DEF ReportType
  <2> QED BY <1>1, <2>1, <2>2, <2>3, SilentKeeps DEF ReportType
<1>4. CASE Awaited(r)
  <2>1. CASE ThreadTo(r, "running") /\ UNCHANGED queueVars
    <3>1. box' = box /\ ready' = ready /\ thread[r] = "woken" /\ thread'[r] = "running"
      BY <1>1, <1>4, <2>1 DEF Awaited, ThreadTo, queueVars, ReportType
    <3> QED BY <1>1, <3>1, SilentKeeps DEF ReportOf, Phased, ReportType
  <2>2. CASE Ends(r, "failed", AfterRaise(r))
    <3>1. thread[r] = "woken" /\ thread'[r] = "failed"
      BY <1>1, <1>4, <2>2 DEF Awaited, Ends, ThreadTo, ReportType
    <3>2. AfterRaise(r) \in {<<"failed", "end">>, <<"end">>}
      BY DEF AfterRaise
    <3>3. PICK items \in {<<"failed", "end">>, <<"end">>} : Publish(r, items)
      BY <2>2, <3>2 DEF Ends
    <3> QED BY <1>1, <3>1, <3>3, PublishKeeps DEF Puts, ReportType
  <2> QED BY <1>4, <2>1, <2>2 DEF Awaited
<1>5. CASE LoadFails(r)
  <2>1. thread[r] = "loading" /\ thread'[r] = "failed"
    BY <1>5 DEF LoadFails, TellWaiters, Woken
  <2>2. AfterRaise(r) \in {<<"failed", "end">>, <<"end">>}
    BY DEF AfterRaise
  <2>3. PICK items \in {<<"failed", "end">>, <<"end">>} : Publish(r, items)
    BY <1>5, <2>2 DEF LoadFails
  <2> QED BY <1>1, <2>1, <2>3, PublishKeeps DEF Puts, ReportType
<1>6. CASE Report(r)
  <2>1. CASE /\ thread[r] = "running" /\ Emit(r, "sources")
             /\ thread'[r] = "reporting"
    <3>1. PICK items \in {<<>>, <<"sources">>} :
            Publish(r, items) /\ (items = <<>> => r \in cancelled)
      BY <2>1 DEF Emit
    <3> QED BY <1>1, <2>1, <3>1, PublishKeeps DEF Puts, ReportType
  <2>2. CASE /\ thread[r] = "reporting" /\ Emit(r, "final")
             /\ thread'[r] = "reported"
    <3>1. PICK items \in {<<>>, <<"final">>} :
            Publish(r, items) /\ (items = <<"final">> => r \notin cancelled)
      BY <2>2 DEF Emit
    <3>2. r \in api /\ items = <<"final">> => Ahead(r, "sources", Len(box[r]))
      BY <1>1, <2>2, <3>1 DEF ReportOf, Ordered
    <3> QED BY <1>1, <2>2, <3>1, <3>2, PublishKeeps DEF Puts, ReportType
  <2> QED BY <1>1, <1>6, <2>1, <2>2 DEF Report, Delivery, ThreadTo, ReportType
<1>7. CASE PipelineEnds(r)
  <2>1. CASE thread[r] = "reported" /\ Ends(r, "succeeded", <<"completed", "end">>)
    <3>1. thread'[r] = "succeeded" /\ Publish(r, <<"completed", "end">>)
      BY <1>1, <2>1 DEF Ends, ThreadTo, ReportType
    <3> QED BY <1>1, <2>1, <3>1, PublishKeeps DEF Puts, ReportType
  <2>2. CASE /\ thread[r] \in {"running", "reported"}
             /\ \/ Ends(r, "failed", <<"failed", "end">>)
                \/ Ends(r, "failed", AfterRaise(r))
                \/ Ends(r, "failed", <<"cancelled", "end">>)
    <3>1. AfterRaise(r) \in {<<"failed", "end">>, <<"end">>}
      BY DEF AfterRaise
    <3>2. PICK items \in {<<"failed", "end">>, <<"cancelled", "end">>, <<"end">>} :
            Publish(r, items)
      BY <2>2, <3>1 DEF Ends
    <3>3. thread'[r] = "failed"
      BY <1>1, <2>2 DEF Ends, ThreadTo, ReportType
    <3> QED BY <1>1, <2>2, <3>2, <3>3, PublishKeeps DEF Puts, ReportType
  <2> QED BY <1>7, <2>1, <2>2 DEF PipelineEnds
<1> QED BY <1>2, <1>3, <1>4, <1>5, <1>6, <1>7 DEF ThreadStep

\* The other tasks: the queue is their own, and one of them may be woken.
LEMMA ThreadElsewhere ==
  ASSUME ReportInv, NEW r \in Runs, ThreadStep(r)
  PROVE  /\ DOMAIN thread' = Runs /\ thread' = [q \in Runs |-> thread'[q]]
         /\ \A q \in Runs \ {r} : Untouched(q)
<1>1. ReportType /\ UNCHANGED streamVars
  BY DEF ReportInv, ThreadStep
<1>2. /\ DOMAIN thread' = Runs /\ thread' = [q \in Runs |-> thread'[q]]
      /\ \A q \in Runs \ {r} :
           thread'[q] = thread[q] \/ (thread[q] = "await" /\ thread'[q] = "woken")
  <2>1. CASE \/ thread' = thread
             \/ \E p : ThreadTo(r, p)
             \/ \E p : thread' = Woken(r, p)
    BY <1>1, <2>1 DEF ReportType, ThreadTo, Woken
  <2> QED BY <2>1 DEF ThreadStep, LookUp, Loaded, LoadFails, TellWaiters, Awaited, Ends,
            Report, PipelineEnds, Hang, Deliver, threadVars
<1>3. \A q \in Runs \ {r} : box'[q] = box[q] /\ ready'[q] = ready[q]
  <2>1. CASE \/ UNCHANGED queueVars
             \/ \E items : Publish(r, items)
             \/ Deliver(r)
    BY <1>1, <2>1 DEF ReportType, Publish, Deliver, queueVars
  <2> QED BY <2>1 DEF ThreadStep, LookUp, Loaded, LoadFails, Awaited, Ends,
            Report, Emit, PipelineEnds, Hang
<1> QED BY <1>1, <1>2, <1>3 DEF Untouched, streamVars

LEMMA ThreadKeeps ==
  ASSUME ReportInv, NEW r \in Runs, ThreadStep(r)
  PROVE  ReportInv'
<1>1. UNCHANGED <<api, cancelled, streamVars>>
  BY DEF ThreadStep, registryVars
<1>2. ReportType'
  BY <1>1, ThreadOwn, ThreadElsewhere DEF ReportInv, ReportType, streamVars
<1>3. \A q \in Runs \ {r} : ReportOf(q)'
  BY <1>1, ThreadElsewhere, ElsewhereKept
<1>4. ReportOf(r)'
  BY ThreadOwn
<1> QED BY <1>2, <1>3, <1>4 DEF ReportInv

-----------------------------------------------------------------------------
(* The report of a task: the consumer                                      *)

\* What a step of the consumer leaves to the other tasks.
Alone(r) ==
  /\ \A q \in Runs \ {r} : Untouched(q)
  /\ ReportType' /\ cancelled \subseteq cancelled' /\ api' = api

LEMMA AloneKeeps ==
  ASSUME ReportInv, NEW r \in Runs, Alone(r), ReportOf(r)'
  PROVE  ReportInv'
<1>1. \A q \in Runs \ {r} : ReportOf(q)'
  BY ElsewhereKept DEF Alone
<1> QED BY <1>1 DEF Alone, ReportInv

\* The stream is closed, and the task goes to p, with its report or without.
LEMMA ClosesKeeps ==
  ASSUME ReportInv, NEW r \in Runs, NEW p \in {"joining", "cut", "done"},
         RunTo(r, p), run[r] \notin {"idle", "open", "done"},
         r \in cancelled', cancelled \subseteq cancelled', UNCHANGED <<api, threadVars>>,
         \/ box' = [box EXCEPT ![r] = <<>>] /\ ready' = [ready EXCEPT ![r] = 0]
         \/ Closed(r) /\ UNCHANGED queueVars,
         \/ UNCHANGED <<got, results>>
         \/ got' = [got EXCEPT ![r] = {}] /\ UNCHANGED results
         \/ /\ p = "done"
            /\ results' = IF r \in api /\ Cacheable(r) THEN results \cup {r} ELSE results
            /\ got' = [got EXCEPT ![r] = IF r \in results' THEN @ ELSE {}]
  PROVE  ReportInv'
<1>1. ReportType /\ ReportOf(r) /\ thread' = thread
  BY DEF ReportInv, threadVars
<1>2. run' \in [Runs -> Places] /\ run'[r] = p /\ \A q \in Runs \ {r} : run'[q] = run[q]
  BY <1>1 DEF ReportType, RunTo, Places
<1>3. /\ box' \in [Runs -> Seq(Items)] /\ ready' \in [Runs -> Nat]
      /\ box'[r] = <<>> /\ ready'[r] <= 0
      /\ \A q \in Runs \ {r} : box'[q] = box[q] /\ ready'[q] = ready[q]
  <2>1. CASE box' = [box EXCEPT ![r] = <<>>] /\ ready' = [ready EXCEPT ![r] = 0]
    BY <1>1, <2>1 DEF ReportType
  <2>2. CASE Closed(r) /\ UNCHANGED queueVars
    BY <1>1, <2>2 DEF ReportType, ReportOf, Phased, queueVars
  <2> QED BY <2>1, <2>2
<1>4. /\ got' \in [Runs -> SUBSET Items] /\ results' \subseteq Runs
      /\ \A q \in Runs \ {r} : got'[q] = got[q] /\ (q \in results' => q \in results)
      /\ got'[r] \subseteq got[r]
      /\ r \in results' => p = "done" /\ r \in api /\ Cacheable(r) /\ got'[r] = got[r]
      /\ got'[r] = got[r] \/ got'[r] = {}
  <2>1. r \notin results
    BY <1>1 DEF ReportOf, Phased
  <2> QED BY <1>1, <2>1 DEF ReportType
<1>5. Alone(r)
  BY <1>1, <1>2, <1>3, <1>4 DEF Alone, ReportType, Untouched
<1>6. Phased(r)'
  BY <1>2, <1>3, <1>4 DEF Phased, Closed
<1>7. r \in api => Ordered(r)'
  BY <1>1, <1>3, <1>4 DEF ReportOf, Ordered, Ahead
<1>8. Stored(r)'
  BY <1>1, <1>4 DEF Stored, Cacheable, ReportOf, Ordered, Ahead
<1>9. ReportOf(r)'
  BY <1>6, <1>7, <1>8 DEF ReportOf
<1> QED BY <1>5, <1>9, AloneKeeps

LEMMA LeaveReports ==
  ASSUME ReportInv, NEW r \in Runs, NEW isSet, Leave(r, isSet),
         run[r] \in {"yield", "get", "dropped"}
  PROVE  ReportInv'
<1>1. CASE Waits(isSet)
  BY <1>1, ClosesKeeps DEF Leave, Closes
<1>2. CASE ~Waits(isSet)
  BY <1>2, ClosesKeeps DEF Leave, Closes, Finish, Drop
<1> QED BY <1>1, <1>2

\* The task moves on, with its queue and its thread as they are.
LEMMA MoveKeeps ==
  ASSUME ReportInv, NEW r \in Runs, NEW p \in Places, RunTo(r, p),
         UNCHANGED <<api, cancelled, got, results, queueVars>>,
         \/ run[r] = "idle" /\ p \in {"open", "done"} /\ thread' = thread
         \/ run[r] = "open" /\ p = "done" /\ thread' = thread
         \/ run[r] = "open" /\ p = "yield" /\ ThreadTo(r, "preload")
         \/ /\ run[r] \in {"yield", "get"} /\ thread' = thread
            /\ p \in {"yield", "get", "dropped"}
         \/ run[r] = "joining" /\ p = "cut" /\ thread' = thread
  PROVE  ReportInv'
<1>1. ReportType /\ ReportOf(r) /\ UNCHANGED <<box, ready>>
  BY DEF ReportInv, queueVars
<1>2. run' \in [Runs -> Places] /\ run'[r] = p /\ \A q \in Runs \ {r} : run'[q] = run[q]
  BY <1>1 DEF ReportType, RunTo
<1>3. /\ DOMAIN thread' = Runs /\ thread' = [q \in Runs |-> thread'[q]]
      /\ \A q \in Runs \ {r} : thread'[q] = thread[q]
      /\ thread'[r] = thread[r] \/ (run[r] = "open" /\ p = "yield" /\ thread'[r] = "preload")
  BY <1>1 DEF ReportType, ThreadTo
<1>4. Alone(r)
  BY <1>1, <1>2, <1>3 DEF Alone, ReportType, Untouched
<1>5. r \notin results
  BY <1>1 DEF ReportOf, Phased
<1>6. Phased(r)' /\ Stored(r)'
  BY <1>1, <1>2, <1>3, <1>5 DEF ReportOf, Phased, Stored, Closed
<1>7. r \in api => Ordered(r)'
  BY <1>1, <1>3 DEF ReportOf, Ordered, Ahead, Phased
<1>8. ReportOf(r)'
  BY <1>6, <1>7 DEF ReportOf
<1> QED BY <1>4, <1>8, AloneKeeps

\* A message is taken from the head of the queue.
LEMMA TakeKeeps ==
  ASSUME ReportInv, NEW r \in Runs, Take(r), Head(box[r]) # "end"
  PROVE  ReportInv'
<1>1. ReportType /\ ReportOf(r) /\ run[r] = "get" /\ ready[r] > 0
  BY DEF ReportInv, Take
<1>2. /\ run' = [run EXCEPT ![r] = "yield"]
      /\ box' = [box EXCEPT ![r] = Tail(@)] /\ ready' = [ready EXCEPT ![r] = @ - 1]
      /\ got' = [got EXCEPT ![r] = IF r \in api THEN @ \cup {Head(box[r])} ELSE @]
      /\ UNCHANGED <<api, cancelled, results, thread>>
  BY DEF Take, RunTo, Rendered, registryVars, threadVars
<1> DEFINE s == box[r]  t == box'[r]  e == Head(box[r])
<1>3. /\ s \in Seq(Items) /\ s # <<>> /\ ready[r] \in Nat /\ ready[r] <= Len(s)
      /\ Len(s) \in Nat
  BY <1>1 DEF ReportType, ReportOf, Phased
<1>4. /\ t = Tail(s) /\ t \in Seq(Items) /\ e \in Items /\ e = s[1] /\ Len(s) >= 1
      /\ Len(t) = Len(s) - 1 /\ \A i \in 1..Len(t) : t[i] = s[i + 1]
  BY <1>1, <1>2, <1>3 DEF ReportType
<1>5. /\ run' \in [Runs -> Places] /\ box' \in [Runs -> Seq(Items)]
      /\ ready' \in [Runs -> Nat] /\ got' \in [Runs -> SUBSET Items]
  BY <1>1, <1>2, <1>3, <1>4 DEF ReportType, Places
<1>6. Alone(r)
  BY <1>1, <1>2, <1>5 DEF Alone, ReportType, Untouched
<1>7. Phased(r)' /\ Stored(r)'
  <2>1. ready'[r] <= Len(t) /\ run'[r] = "yield" /\ r \notin results
    BY <1>1, <1>2, <1>3, <1>4 DEF ReportOf, Phased, ReportType
  <2> QED BY <1>2, <2>1 DEF Phased, Stored, Closed
<1>8. ASSUME r \in api PROVE Ordered(r)'
  <2>1. Ordered(r) /\ got'[r] = got[r] \cup {e}
    BY <1>1, <1>2, <1>8 DEF ReportOf, ReportType
  <2>2. \A event \in Items, n \in 1..Len(s) :
          Ahead(r, event, n) <=> event \in got'[r] \/ \E i \in 1..(n - 1) : t[i] = event
    <3> SUFFICES ASSUME NEW event \in Items, NEW n \in 1..Len(s)
                 PROVE  Ahead(r, event, n)
                          <=> event \in got'[r] \/ \E i \in 1..(n - 1) : t[i] = event
      OBVIOUS
    <3>1. ASSUME NEW i \in 1..n, s[i] = event
          PROVE  event \in got'[r] \/ \E j \in 1..(n - 1) : t[j] = event
      <4>1. CASE i = 1
        BY <1>4, <2>1, <3>1, <4>1
      <4>2. CASE i # 1
        <5>1. i - 1 \in 1..(n - 1) /\ i - 1 \in 1..Len(t) /\ t[i - 1] = s[i]
          BY <1>3, <1>4, <4>2
        <5> QED BY <3>1, <5>1
      <4> QED BY <4>1, <4>2
    <3>2. ASSUME NEW i \in 1..(n - 1), t[i] = event
          PROVE  \E j \in 1..n : s[j] = event
      <4>1. i \in 1..Len(t) /\ i + 1 \in 1..n /\ s[i + 1] = t[i]
        BY <1>3, <1>4
      <4> QED BY <3>2, <4>1
    <3>3. event = e => \E j \in 1..n : s[j] = event
      BY <1>3, <1>4
    <3> QED BY <2>1, <3>1, <3>2, <3>3 DEF Ahead
  <2>3. "final" \in got'[r] => "sources" \in got'[r]
    <3>1. CASE e = "final"
      <4>1. Ahead(r, "sources", 1) /\ 1 \in 1..Len(s)
        BY <1>3, <1>4, <2>1, <3>1 DEF Ordered
      <4> QED BY <2>2, <4>1 DEF Items
    <3> QED BY <2>1, <3>1 DEF Ordered
  <2>4. \A i \in 1..Len(t) : t[i] = "final" => Ahead(r, "sources", i)'
    <3> SUFFICES ASSUME NEW i \in 1..Len(t), t[i] = "final"
                 PROVE  Ahead(r, "sources", i)'
      OBVIOUS
    <3>1. i + 1 \in 1..Len(s) /\ s[i + 1] = "final" /\ i + 1 - 1 = i
      BY <1>3, <1>4
    <3>2. Ahead(r, "sources", i + 1)
      BY <2>1, <3>1 DEF Ordered
    <3> QED BY <2>2, <3>1, <3>2 DEF Ahead, Items
  <2>5. \A event \in Items : Ahead(r, event, Len(box[r])) <=> Ahead(r, event, Len(box[r]))'
    BY <1>3, <1>4, <2>2 DEF Ahead
  <2>6. thread'[r] = "reporting" /\ r \notin cancelled'
          => Ahead(r, "sources", Len(box[r]))'
    BY <1>2, <2>1, <2>5 DEF Ordered, Items
  <2>7. Ahead(r, "completed", Len(box[r]))' => thread'[r] = "succeeded"
    BY <1>2, <2>1, <2>5 DEF Ordered, Items
  <2> QED BY <2>3, <2>4, <2>6, <2>7 DEF Ordered
<1>9. ReportOf(r)'
  BY <1>2, <1>7, <1>8 DEF ReportOf
<1> QED BY <1>6, <1>9, AloneKeeps

LEMMA LocalRunReports ==
  ASSUME ReportInv, NEW r \in Runs,
         \/ Open(r) \/ FromCache(r) \/ ConsumerStep(r) \/ Silence(r)
         \/ Kill(r) \/ ThreadStep(r)
  PROVE  ReportInv'
<1>1. CASE Open(r) \/ FromCache(r) \/ Start(r)
  BY <1>1, MoveKeeps DEF Open, FromCache, Start, Register, Places, threadVars, queueVars,
    registryVars
<1>2. CASE \E isSet : Leave(r, isSet) /\ run[r] \in {"yield", "get", "dropped"}
  BY <1>2, LeaveReports
<1>3. CASE Resume(r) \/ Take(r) \/ Timeout(r) \/ Silence(r) \/ Collect(r)
  <2>1. CASE run[r] = "yield" /\ RunTo(r, "get")
             /\ UNCHANGED <<registryVars, got, results, queueVars, threadVars>>
    BY <2>1, MoveKeeps DEF Places, threadVars, registryVars
  <2>2. CASE Take(r) /\ Head(box[r]) # "end"
    BY <2>2, TakeKeeps
  <2> QED BY <1>2, <1>3, <2>1, <2>2 DEF Resume, Take, Timeout, Silence, Collect
<1>4. CASE Joined(r)
  <2>1. Closed(r) /\ run[r] \in {"joining", "cut"} /\ Finished(r) /\ ReportOf(r)
    BY <1>4 DEF Joined, Closed, ReportInv
  <2>2. r \in cancelled
    BY <2>1 DEF Finished, ReportOf, Phased
  <2> QED BY <1>4, <2>1, <2>2, ClosesKeeps DEF Joined, Finish, Unwind, Drop
<1>5. CASE Kill(r)
  <2>1. CASE /\ run[r] \in {"open", "yield"}
             /\ RunTo(r, IF run[r] = "open" THEN "done" ELSE "dropped")
             /\ UNCHANGED <<api, cancelled, queueVars, got, results, threadVars>>
    BY <2>1, MoveKeeps DEF Places, threadVars
  <2>2. CASE /\ run[r] = "get" /\ Closes(r)
             /\ (RunTo(r, "cut") /\ UNCHANGED <<got, results>>) \/ Unwind(r)
    BY <2>2, ClosesKeeps DEF Closes, Unwind, Drop
  <2>3. CASE run[r] = "joining" /\ RunTo(r, "cut")
             /\ UNCHANGED <<registryVars, queueVars, got, results, threadVars>>
    BY <2>3, MoveKeeps DEF Places, threadVars, registryVars
  <2> QED BY <1>5, <2>1, <2>2, <2>3 DEF Kill
<1> QED BY <1>1, <1>3, <1>4, <1>5, ThreadKeeps DEF ConsumerStep

\* A click, a stop, and all the API backend does leave the local runs alone but
\* for setting cancel events.
LEMMA OthersReport ==
  ASSUME ReportInv, UNCHANGED <<api, localVars>>, cancelled \subseteq cancelled'
  PROVE  ReportInv'
<1>1. ReportType' /\ \A q \in Runs : Untouched(q)
  BY DEF ReportInv, ReportType, Untouched, localVars, streamVars, queueVars, threadVars
<1>2. \A q \in Runs : ReportOf(q)'
  BY <1>1, ElsewhereKept
<1> QED BY <1>1, <1>2 DEF ReportInv

LEMMA StopsGrow ==
  ASSUME Stops \/ UNCHANGED registryVars
  PROVE  api' = api /\ cancelled \subseteq cancelled'
BY DEF Stops, StopStep, PickTargets, FlagTargets, SignalTargets, StopByCaller,
  registryVars

LEMMA ApiGrows ==
  ASSUME ApiNext
  PROVE  api' = api /\ cancelled \subseteq cancelled'
<1>1. CASE ApiStop \/ CancelByCaller
  BY <1>1, StopsGrow DEF ApiStop, Signalled, CancelRemote, CancelByCaller, Stops,
    registryVars
<1>2. ASSUME NEW r \in Runs,
             \/ Submit(r) \/ ServerCreates(r) \/ CreateFails(r) \/ Reload(r)
             \/ ServerEnds(r) \/ ViewerStep(r) \/ CancelRun(r) \/ CancelCall(r)
             \/ \E v \in Viewers : Breaks(r, v) \/ ClickApi(r, v)
      PROVE  api' = api /\ cancelled' = cancelled
  BY <1>2 DEF Submit, ServerCreates, CreateFails, Reload, ServerEnds, ViewerStep,
    Created, Snapshot, Chunk, Breaks, ClickApi, Press, CancelRun, CancelCall,
    registryVars
<1> QED BY <1>1, <1>2 DEF ApiNext

LEMMA ReportStarts == Init => ReportInv
BY DEF Init, RegistryInit, LocalInit, ReportInv, ReportType, ReportOf, Phased, Ordered,
  Stored, Ahead, Closed, Places, Items

LEMMA ReportKeeps == ReportInv /\ [Next]_vars => ReportInv'
<1> SUFFICES ASSUME ReportInv, [Next]_vars PROVE ReportInv'
  OBVIOUS
<1>1. CASE UNCHANGED vars
  BY <1>1, OthersReport DEF vars, registryVars
<1>2. CASE LocalStop \/ CallStop \/ \E r \in Runs : Click(r)
  BY <1>2, StopsGrow, OthersReport DEF LocalStop, CallStop, Click, Press, Stops
<1>3. ASSUME NEW r \in Runs,
             \/ Open(r) \/ FromCache(r) \/ ConsumerStep(r) \/ Silence(r)
             \/ Kill(r) \/ ThreadStep(r)
      PROVE  ReportInv'
  BY <1>3, LocalRunReports
<1>4. CASE ApiNext /\ UNCHANGED localVars
  BY <1>4, ApiGrows, OthersReport
<1> QED BY <1>1, <1>2, <1>3, <1>4 DEF Next, LocalNext

-----------------------------------------------------------------------------
(* What the runs check, for every value of the constants                   *)

\* The inductive invariants of the demo.
THEOREM DemoInvariant == Spec => []DemoInv
<1>1. Init => DemoInv
  BY DemoStarts
<1> QED BY <1>1, DemoKeeps, PTL DEF Spec

\* What becomes of a report between the pipeline and the cache: the thread, the
\* queue, the consumer and the cache agree on it in every state.
THEOREM ReportInvariant == Spec => []ReportInv
<1>1. Init => ReportInv
  BY ReportStarts
<1> QED BY <1>1, ReportKeeps, PTL DEF Spec

\* A task nobody runs or reads any more leaves no mark in the registry.
THEOREM NoOrphansAlways == Spec => []NoOrphans
<1>1. DemoInv => NoOrphans
  BY DEF DemoInv, DemoType, MarksHeld, NoOrphans, HeldByRun, Places
<1> QED BY <1>1, DemoInvariant, PTL

\* A report in the cache comes with its sources and from a pipeline that
\* succeeded, however the stops, failures and puts of all tasks interleave.
THEOREM CachedIsWholeAlways == Spec => []CachedIsWhole
<1>1. ReportInv => CachedIsWhole
  BY DEF ReportInv, ReportType, ReportOf, Stored, CachedIsWhole
<1> QED BY <1>1, ReportInvariant, PTL
=============================================================================
