--------------------------- MODULE BenchmarkProofs ---------------------------
(***************************************************************************)
(* Theorems about a benchmark, for every set of tasks, every number of     *)
(* attempts, repetitions and processes, and however often it is broken off *)
(* and started again.                                                      *)
(*                                                                         *)
(* Tasks share nothing but the pool, so the invariant is one about each    *)
(* task, stated over its part of every variable.                           *)
(***************************************************************************)
EXTENDS Benchmark, WellFoundedInduction, TLAPS

\* What a log may say, and what an attempt may have got.
Entries ==
  [status : {"absent", "torn", "running", "success", "failed", "cancelled", "pending"},
   answer : {"none", "text", "format"},
   verdict : {"none", "CORRECT", "INCORRECT", "ERROR"}]

\* The logs of an attempt.
Histories == [Retries -> Entries]

\* The newest log of a history, and the repetition to go on with.
NewestIn(h) == Max({-1} \cup {r \in Retries : h[r] # NoLog})
FollowingIn(h) ==
  IF NewestIn(h) = -1 THEN 0 ELSE RetryOf(NewestIn(h), h[NewestIn(h)])

NoCorrect(h) == \A r \in Retries : h[r].verdict # "CORRECT"

\* A log that was judged correct is the newest of its attempt: it has an answer,
\* and nothing was repeated after it.
HistoryOk(h) ==
  \A r \in Retries : h[r].verdict = "CORRECT" =>
    r = NewestIn(h) /\ h[r].status = "success" /\ h[r].answer = "text"

\* What the logs of the present attempt say at every place.
PlaceOk(h, p, r, g) ==
  /\ p = "loaded" =>
       /\ FollowingIn(h) <= r /\ r <= Limit + 1
       /\ NoCorrect(h) \/ Correct(g)
       /\ g.answer = "text" => NewestIn(h) \in Retries /\ h[NewestIn(h)] = g
  /\ p = "running" =>
       /\ r \in Retries /\ NewestIn(h) = r /\ h[r].status = "running"
       /\ g.answer # "text"
  /\ p = "judging" =>
       /\ NewestIn(h) \in Retries
       /\ h[NewestIn(h)].status = "success" /\ h[NewestIn(h)].answer = "text"
       /\ NoCorrect(h) /\ g.answer = "text"
  /\ p = "recording" => NoCorrect(h) \/ Correct(g)

\* An attempt counts no more answers without a format than it has repetitions
\* behind it.
CountsOk(L, E) ==
  \A a \in Attempts : E[a] <= FollowingIn(L[a]) /\ HistoryOk(L[a])

\* A task that is not over has no correct answer in an attempt behind it, and
\* one that was brought to its end has none at all unless it passed.
EndsOk(L, p, a, g, b, f, e) ==
  /\ f => p = "over" /\ b.answer = "text" /\ b.attempt = a
  /\ e # "none" => p = "over"
  /\ e = "whole" => f \/ \A x \in Attempts : NoCorrect(L[x])
  /\ p \notin {"queued", "over"} => \A x \in Attempts : x < a => NoCorrect(L[x])
  /\ Correct(g) => g.answer = "text"

TaskOk(t) ==
  /\ CountsOk(log[t], formatErrors[t])
  /\ EndsOk(log[t], at[t], attempt[t], got[t], best[t], found[t], ending[t])
  /\ PlaceOk(log[t][attempt[t]], at[t], retry[t], got[t])

BenchmarkType ==
  /\ log \in [Tasks -> [Attempts -> Histories]]
  /\ at \in [Tasks -> {"queued", "loaded", "running", "judging", "recording", "over"}]
  /\ attempt \in [Tasks -> Attempts] /\ retry \in [Tasks -> Nat]
  /\ got \in [Tasks -> Entries]
  /\ best = [t \in Tasks |-> best[t]]
  /\ found \in [Tasks -> BOOLEAN]
  /\ ending \in [Tasks -> {"none", "whole", "cancelled", "broken"}]
  /\ formatErrors \in [Tasks -> [Attempts -> Nat]]

BenchmarkInv == BenchmarkType /\ \A t \in Tasks : TaskOk(t)

-----------------------------------------------------------------------------
(* The newest log                                                          *)

Less == {p \in Nat \X Nat : p[1] < p[2]}

LEMMA LessIsWellFounded == IsWellFoundedOn(Less, Nat)
BY NatLessThanWellFounded DEF OpToRel, Less

\* Some repetitions, or none (-1), have a greatest.
LEMMA GreatestExists ==
  ASSUME NEW S, S \subseteq -1..Limit, S # {}
  PROVE  Max(S) \in S /\ \A y \in S : y <= Max(S)
<1>. DEFINE below == {n \in Nat : Limit - n \in S}
<1>1. below \subseteq Nat /\ below # {}
  <2>1. PICK y \in S : TRUE
    OBVIOUS
  <2>2. Limit - y \in Nat /\ Limit - (Limit - y) = y
    BY <2>1, BenchmarkAssumption
  <2>. QED
    BY <2>1, <2>2
<1>2. PICK m \in below : \A n \in below : ~(<<n, m>> \in Less)
  BY <1>1, LessIsWellFounded, WFMin
<1>3. m \in Nat /\ Limit - m \in S
  BY <1>2
<1>4. ASSUME NEW y \in S PROVE y <= Limit - m
  <2>1. Limit - y \in below
    <3>1. Limit - y \in Nat /\ Limit - (Limit - y) = y
      BY BenchmarkAssumption
    <3>. QED
      BY <3>1
  <2>2. ~(Limit - y < m)
    <3>1. ~(<<Limit - y, m>> \in Less)
      BY <1>2, <2>1
    <3>2. <<Limit - y, m>> \in Nat \X Nat
      BY <1>3, <2>1
    <3>. QED
      BY <3>1, <3>2 DEF Less
  <2>. QED
    BY <1>3, <2>2, BenchmarkAssumption
<1>. HIDE DEF below
<1>. QED
  BY <1>3, <1>4 DEF Max

\* The newest log, and nothing above it.
LEMMA NewestIsNewest ==
  ASSUME NEW h
  PROVE  /\ NewestIn(h) \in -1..Limit
         /\ NewestIn(h) # -1 => NewestIn(h) \in Retries /\ h[NewestIn(h)] # NoLog
         /\ \A r \in Retries : h[r] # NoLog => r <= NewestIn(h)
<1>. DEFINE S == {-1} \cup {r \in Retries : h[r] # NoLog}
<1>1. S \subseteq -1..Limit /\ S # {}
  BY BenchmarkAssumption DEF Retries
<1>. HIDE DEF S
<1>2. Max(S) \in S /\ \A y \in S : y <= Max(S)
  BY <1>1, GreatestExists
<1>3. Max(S) = NewestIn(h)
  BY DEF S, NewestIn
<1>. QED
  BY <1>1, <1>2, <1>3 DEF S

\* A log nothing is above is the newest.
LEMMA NewestIsUnique ==
  ASSUME NEW h, NEW r \in Retries, h[r] # NoLog,
         \A q \in Retries : h[q] # NoLog => q <= r
  PROVE  NewestIn(h) = r
<1>1. /\ r <= NewestIn(h) /\ NewestIn(h) \in Int
      /\ NewestIn(h) # -1 => NewestIn(h) \in Retries /\ h[NewestIn(h)] # NoLog
  BY NewestIsNewest
<1>2. r \in Nat
  BY BenchmarkAssumption DEF Retries
<1>. QED
  BY <1>1, <1>2

\* The repetition to go on with is never before the newest log, and at most one
\* after it.
LEMMA FollowingFollows ==
  ASSUME NEW h
  PROVE  /\ FollowingIn(h) \in Nat /\ FollowingIn(h) <= Limit + 1
         /\ NewestIn(h) <= FollowingIn(h) /\ FollowingIn(h) <= NewestIn(h) + 1
BY NewestIsNewest, BenchmarkAssumption DEF FollowingIn, RetryOf

\* A log that is written at or after the newest one becomes the newest.
LEMMA WritingAtTheEnd ==
  ASSUME NEW h \in Histories, NEW r \in Retries, NewestIn(h) <= r,
         NEW l \in Entries, l # NoLog
  PROVE  LET g == [h EXCEPT ![r] = l]
         IN  /\ g \in Histories /\ NewestIn(g) = r /\ g[r] = l
             /\ FollowingIn(g) = RetryOf(r, l)
             /\ \A q \in Retries : q # r => g[q] = h[q]
             /\ \A q \in Retries : q # r /\ g[q] # NoLog => q < r
<1>. DEFINE g == [h EXCEPT ![r] = l]
<1>1. /\ g \in Histories /\ g[r] = l
      /\ \A q \in Retries : q # r => g[q] = h[q]
  BY DEF Histories
<1>. HIDE DEF g
<1>2. r \in Nat /\ \A q \in Retries : q \in Nat
  BY BenchmarkAssumption DEF Retries
<1>3. \A q \in Retries : g[q] # NoLog => q <= r
  BY <1>1, <1>2, NewestIsNewest
<1>4. NewestIn(g) = r
  BY <1>1, <1>3, NewestIsUnique
<1>5. FollowingIn(g) = RetryOf(r, l)
  BY <1>1, <1>2, <1>4 DEF FollowingIn
<1>. QED
  BY <1>1, <1>2, <1>3, <1>4, <1>5 DEF g

\* Of an attempt without a correct answer, whatever is written that is not one.
LEMMA WritingKeepsNoCorrect ==
  ASSUME NEW h \in Histories, NEW r \in Retries, NEW l \in Entries,
         NoCorrect(h), l.verdict # "CORRECT"
  PROVE  NoCorrect([h EXCEPT ![r] = l]) /\ HistoryOk([h EXCEPT ![r] = l])
BY DEF Histories, NoCorrect, HistoryOk

\* A log of the model is one of the entries, and not the absent one.
LEMMA LogsAreEntries ==
  ASSUME NEW s \in {"torn", "running", "success", "failed", "cancelled"},
         NEW a \in {"none", "text", "format"},
         NEW v \in {"none", "CORRECT", "INCORRECT", "ERROR"}
  PROVE  /\ Log(s, a, v) \in Entries /\ Log(s, a, v) # NoLog
         /\ Log(s, a, v).status = s /\ Log(s, a, v).answer = a
         /\ Log(s, a, v).verdict = v
<1>1. Log(s, a, v) \in Entries /\ Log(s, a, v).status = s
  BY DEF Log, Entries
<1>2. NoLog.status = "absent"
  BY DEF NoLog, Log
<1>. QED
  BY <1>1, <1>2 DEF Log

-----------------------------------------------------------------------------
(* One task                                                                *)

\* What a step leaves alone keeps its invariant.
LEMMA UntouchedKeep ==
  ASSUME NEW t \in Tasks, TaskOk(t),
         log'[t] = log[t], formatErrors'[t] = formatErrors[t], at'[t] = at[t],
         attempt'[t] = attempt[t], retry'[t] = retry[t], got'[t] = got[t],
         best'[t] = best[t], found'[t] = found[t], ending'[t] = ending[t]
  PROVE  TaskOk(t)'
BY DEF TaskOk

\* An attempt begins with what its logs say of it: what the invariant demands of
\* an attempt that is loaded holds.
LEMMA BeginFinds ==
  ASSUME BenchmarkType, NEW t \in Tasks, NEW a \in Attempts, HistoryOk(log[t][a]),
         Begin(t, a)
  PROVE  /\ at'[t] = "loaded" /\ attempt'[t] = a
         /\ PlaceOk(log[t][a], "loaded", retry'[t], got'[t])
         /\ Correct(got'[t]) => got'[t].answer = "text"
         /\ got'[t] \in Entries /\ retry'[t] \in Nat
<1>. DEFINE h == log[t][a]
            n == NewestIn(h)
<1>1. /\ at'[t] = "loaded" /\ attempt'[t] = a
      /\ retry'[t] = FollowingIn(h)
      /\ got'[t] = IF n = -1 THEN Nothing ELSE Loaded(h[n])
  BY DEF Begin, BenchmarkType, Newest, NewestIn, FollowingIn
<1>2. h \in Histories
  BY DEF BenchmarkType
<1>3. HistoryOk(h)
  OBVIOUS
<1>. HIDE DEF h
<1>4. FollowingIn(h) \in Nat /\ FollowingIn(h) <= Limit + 1
  BY FollowingFollows
<1>5. n # -1 => n \in Retries /\ h[n] \in Entries
  BY <1>2, NewestIsNewest DEF Histories
<1>6. Nothing \in Entries /\ Nothing.answer = "none" /\ ~Correct(Nothing)
  BY DEF Nothing, Entries, Correct
<1>7. NoCorrect(h) \/ Correct(got'[t])
  <2>. SUFFICES ASSUME NEW r \in Retries, h[r].verdict = "CORRECT"
                PROVE  Correct(got'[t])
    BY DEF NoCorrect
  <2>1. r = n /\ h[r].answer = "text"
    BY <1>3 DEF HistoryOk
  <2>2. n # -1
    BY <2>1, BenchmarkAssumption DEF Retries
  <2>. QED
    BY <1>1, <2>1, <2>2 DEF Loaded, Correct
<1>8. got'[t].answer = "text" => n \in Retries /\ h[n] = got'[t]
  BY <1>1, <1>5, <1>6 DEF Loaded
<1>9. Correct(got'[t]) => got'[t].answer = "text"
  BY <1>1, <1>3, <1>5, <1>6 DEF Loaded, Correct, HistoryOk
<1>10. got'[t] \in Entries
  BY <1>1, <1>5, <1>6 DEF Loaded
<1>. HIDE DEF n
<1>11. PlaceOk(h, "loaded", retry'[t], got'[t])
  BY <1>1, <1>4, <1>7, <1>8 DEF PlaceOk, n
<1>. QED
  BY <1>1, <1>4, <1>9, <1>10, <1>11 DEF h

LEMMA StartTaskKeeps ==
  ASSUME BenchmarkInv, NEW t \in Tasks, StartTask(t)
  PROVE  TaskOk(t)'
<1>t. BenchmarkType /\ TaskOk(t)
  BY DEF BenchmarkInv
<1>1. 1 \in Attempts /\ Begin(t, 1)
  BY BenchmarkAssumption DEF StartTask, Attempts
<1>2. HistoryOk(log[t][1])
  BY <1>t, <1>1 DEF TaskOk, CountsOk
<1>3. /\ at'[t] = "loaded" /\ attempt'[t] = 1
      /\ PlaceOk(log[t][1], "loaded", retry'[t], got'[t])
      /\ Correct(got'[t]) => got'[t].answer = "text"
  BY <1>t, <1>1, <1>2, BeginFinds
<1>4. UNCHANGED <<log, formatErrors, best, found, ending>> /\ at[t] = "queued"
  BY DEF StartTask, files
<1>5. CountsOk(log[t], formatErrors[t])
  BY <1>t DEF TaskOk
<1>6. ~found[t] /\ ending[t] = "none"
  BY <1>t, <1>4 DEF TaskOk, EndsOk, BenchmarkType
<1>7. \A x \in Attempts : ~(x < 1)
  BY BenchmarkAssumption DEF Attempts
<1>8. EndsOk(log[t], "loaded", 1, got'[t], best[t], found[t], ending[t])
  BY <1>3, <1>6, <1>7 DEF EndsOk
<1>. QED
  BY <1>3, <1>4, <1>5, <1>8 DEF TaskOk

\* What a step of a task that runs leaves alone: how it ended, and the attempts
\* behind it.
LEMMA EndsStay ==
  ASSUME NEW L, NEW M, NEW p, NEW q, NEW a, NEW g, NEW d, NEW b, NEW f \in BOOLEAN, NEW e,
         EndsOk(L, p, a, g, b, f, e), p \notin {"queued", "over"},
         q \notin {"queued", "over"},
         \A x \in Attempts : x < a => M[x] = L[x],
         Correct(d) => d.answer = "text"
  PROVE  EndsOk(M, q, a, d, b, f, e)
<1>1. ~f /\ e = "none"
  BY DEF EndsOk
<1>2. \A x \in Attempts : x < a => NoCorrect(M[x])
  BY DEF EndsOk
<1>. QED
  BY <1>1, <1>2 DEF EndsOk

\* A log is written in the present attempt, at its end, and it is not correct:
\* the counts stay within the repetitions.
LEMMA CountsStay ==
  ASSUME BenchmarkType, NEW t \in Tasks, CountsOk(log[t], formatErrors[t]),
         NEW r \in Retries, NewestIn(log[t][attempt[t]]) <= r,
         NoCorrect(log[t][attempt[t]]),
         NEW l \in Entries, l # NoLog, l.verdict # "CORRECT",
         log' = [log EXCEPT ![t][attempt[t]][r] = l],
         formatErrors' \in [Tasks -> [Attempts -> Nat]],
         \A a \in Attempts : a # attempt[t] => formatErrors'[t][a] = formatErrors[t][a],
         formatErrors'[t][attempt[t]] <= RetryOf(r, l)
  PROVE  /\ CountsOk(log'[t], formatErrors'[t])
         /\ NewestIn(log'[t][attempt[t]]) = r /\ log'[t][attempt[t]][r] = l
         /\ FollowingIn(log'[t][attempt[t]]) = RetryOf(r, l)
         /\ NoCorrect(log'[t][attempt[t]])
         /\ \A a \in Attempts : a # attempt[t] => log'[t][a] = log[t][a]
<1>. DEFINE a == attempt[t]
            g == [log[t][a] EXCEPT ![r] = l]
<1>1. a \in Attempts /\ log[t][a] \in Histories
  BY DEF BenchmarkType
<1>2. log'[t][a] = g /\ \A x \in Attempts : x # a => log'[t][x] = log[t][x]
  BY <1>1 DEF BenchmarkType
<1>3. NoCorrect(g) /\ HistoryOk(g)
  BY <1>1, WritingKeepsNoCorrect
<1>4. NewestIn(g) = r /\ g[r] = l /\ FollowingIn(g) = RetryOf(r, l)
  BY <1>1, WritingAtTheEnd
<1>. HIDE DEF g
<1>5. CountsOk(log'[t], formatErrors'[t])
  <2>. SUFFICES ASSUME NEW x \in Attempts
                PROVE  formatErrors'[t][x] <= FollowingIn(log'[t][x]) /\ HistoryOk(log'[t][x])
    BY DEF CountsOk
  <2>1. CASE x = a
    BY <2>1, <1>2, <1>3, <1>4
  <2>2. CASE x # a
    BY <2>2, <1>2 DEF CountsOk
  <2>. QED
    BY <2>1, <2>2
<1>. QED
  BY <1>2, <1>3, <1>4, <1>5

\* The pipeline starts: its log comes after all others of the attempt.
LEMMA PipelineStartsKeeps ==
  ASSUME BenchmarkInv, NEW t \in Tasks, PipelineStarts(t)
  PROVE  TaskOk(t)'
<1>. DEFINE a == attempt[t]
            l == Log("running", "none", "none")
<1>t. /\ BenchmarkType /\ CountsOk(log[t], formatErrors[t])
      /\ EndsOk(log[t], at[t], a, got[t], best[t], found[t], ending[t])
      /\ PlaceOk(log[t][a], at[t], retry[t], got[t])
  BY DEF BenchmarkInv, TaskOk
<1>1. /\ at[t] = "loaded" /\ MayRun(t) /\ at'[t] = "running"
      /\ log' = [log EXCEPT ![t][a][retry[t]] = l]
      /\ UNCHANGED <<attempt, retry, got, best, found, ending, formatErrors>>
  BY <1>t DEF PipelineStarts, BenchmarkType
<1>2. /\ retry[t] \in Retries /\ got[t].answer # "text" /\ ~Correct(got[t])
  BY <1>t, <1>1, BenchmarkAssumption
    DEF MayRun, Retries, BenchmarkType, EndsOk
<1>3. /\ NoCorrect(log[t][a]) /\ FollowingIn(log[t][a]) <= retry[t]
  BY <1>t, <1>1, <1>2 DEF PlaceOk
<1>4. /\ NewestIn(log[t][a]) <= FollowingIn(log[t][a])
      /\ NewestIn(log[t][a]) \in Int /\ FollowingIn(log[t][a]) \in Nat
  BY FollowingFollows, NewestIsNewest
<1>5. NewestIn(log[t][a]) <= retry[t] /\ a \in Attempts /\ retry[t] \in Nat
  BY <1>t, <1>3, <1>4 DEF BenchmarkType
<1>6. l \in Entries /\ l # NoLog /\ l.verdict = "none" /\ l.status = "running"
  BY LogsAreEntries
<1>7. RetryOf(retry[t], l) = retry[t]
  BY <1>6 DEF RetryOf
<1>8. formatErrors'[t][a] <= RetryOf(retry[t], l)
  <2>1. formatErrors[t][a] <= FollowingIn(log[t][a]) /\ formatErrors[t][a] \in Nat
    BY <1>t, <1>5 DEF CountsOk, BenchmarkType
  <2>. QED
    BY <2>1, <1>1, <1>3, <1>4, <1>5, <1>7
<1>9. formatErrors' \in [Tasks -> [Attempts -> Nat]]
  BY <1>t, <1>1 DEF BenchmarkType
<1>. HIDE DEF l
<1>10. /\ CountsOk(log'[t], formatErrors'[t])
       /\ NewestIn(log'[t][a]) = retry[t] /\ log'[t][a][retry[t]] = l
       /\ \A x \in Attempts : x # a => log'[t][x] = log[t][x]
  BY <1>t, <1>1, <1>2, <1>3, <1>5, <1>6, <1>8, <1>9, CountsStay
<1>11. PlaceOk(log'[t][a], "running", retry[t], got[t])
  BY <1>2, <1>6, <1>10 DEF PlaceOk
<1>12. EndsOk(log'[t], "running", a, got[t], best[t], found[t], ending[t])
  <2>1. \A x \in Attempts : x < a => log'[t][x] = log[t][x]
    BY <1>5, <1>10, BenchmarkAssumption DEF Attempts
  <2>2. found[t] \in BOOLEAN
    BY <1>t DEF BenchmarkType
  <2>3. EndsOk(log[t], "loaded", a, got[t], best[t], found[t], ending[t])
    BY <1>t, <1>1
  <2>. QED
    BY <2>1, <2>2, <2>3, <1>2, EndsStay
<1>. QED
  BY <1>1, <1>10, <1>11, <1>12 DEF TaskOk

\* Nothing to run: a text of the newest log is judged unless its verdict is known.
LEMMA TakeOverKeeps ==
  ASSUME BenchmarkInv, NEW t \in Tasks, TakeOver(t)
  PROVE  TaskOk(t)'
<1>. DEFINE h == log[t][attempt[t]]
<1>t. /\ BenchmarkType /\ CountsOk(log[t], formatErrors[t])
      /\ EndsOk(log[t], at[t], attempt[t], got[t], best[t], found[t], ending[t])
      /\ PlaceOk(h, at[t], retry[t], got[t])
  BY DEF BenchmarkInv, TaskOk
<1>1. /\ at[t] = "loaded" /\ at'[t] = Goes(got[t])
      /\ UNCHANGED <<log, attempt, retry, got, best, found, ending, formatErrors>>
  BY <1>t DEF TakeOver, BenchmarkType, files
<1>. HIDE DEF h
<1>2. PlaceOk(h, Goes(got[t]), retry[t], got[t])
  <2>1. /\ NoCorrect(h) \/ Correct(got[t])
        /\ got[t].answer = "text" => NewestIn(h) \in Retries /\ h[NewestIn(h)] = got[t]
    BY <1>t, <1>1 DEF PlaceOk
  <2>2. CASE Goes(got[t]) = "judging"
    BY <2>1, <2>2 DEF Goes, PlaceOk, Correct
  <2>3. CASE Goes(got[t]) = "recording"
    BY <2>1, <2>3 DEF PlaceOk
  <2>. QED
    BY <2>2, <2>3 DEF Goes
<1>3. EndsOk(log[t], Goes(got[t]), attempt[t], got[t], best[t], found[t], ending[t])
  <2>1. found[t] \in BOOLEAN /\ (Correct(got[t]) => got[t].answer = "text")
    BY <1>t DEF BenchmarkType, EndsOk
  <2>2. Goes(got[t]) \notin {"queued", "over"}
    BY DEF Goes
  <2>3. EndsOk(log[t], "loaded", attempt[t], got[t], best[t], found[t], ending[t])
    BY <1>t, <1>1
  <2>. QED
    BY <2>1, <2>2, <2>3, EndsStay
<1>. QED
  BY <1>t, <1>1, <1>2, <1>3 DEF TaskOk, h

-----------------------------------------------------------------------------
(* The pipeline of a task returns                                          *)

\* What the invariant says while the pipeline runs.
LEMMA WhileRunning ==
  ASSUME BenchmarkInv, NEW t \in Tasks, at[t] = "running"
  PROVE  /\ BenchmarkType /\ CountsOk(log[t], formatErrors[t])
         /\ EndsOk(log[t], "running", attempt[t], got[t], best[t], found[t], ending[t])
         /\ attempt[t] \in Attempts /\ retry[t] \in Retries /\ retry[t] \in Nat
         /\ retry[t] <= Limit
         /\ NewestIn(log[t][attempt[t]]) = retry[t]
         /\ log[t][attempt[t]][retry[t]].status = "running"
         /\ NoCorrect(log[t][attempt[t]])
         /\ formatErrors[t][attempt[t]] \in Nat
         /\ formatErrors[t][attempt[t]] <= retry[t]
         /\ got[t] \in Entries /\ got[t].answer # "text" /\ ~Correct(got[t])
         /\ found[t] \in BOOLEAN
<1>. DEFINE h == log[t][attempt[t]]
<1>1. BenchmarkType /\ TaskOk(t)
  BY DEF BenchmarkInv
<1>2. /\ attempt[t] \in Attempts /\ retry[t] \in Retries
      /\ NewestIn(h) = retry[t] /\ h[retry[t]].status = "running"
      /\ got[t] \in Entries /\ got[t].answer # "text" /\ found[t] \in BOOLEAN
      /\ formatErrors[t][attempt[t]] \in Nat
  BY <1>1 DEF TaskOk, PlaceOk, BenchmarkType
<1>3. retry[t] \in Nat /\ retry[t] <= Limit
  BY <1>2, BenchmarkAssumption DEF Retries
<1>4. HistoryOk(h) /\ formatErrors[t][attempt[t]] <= FollowingIn(h)
  BY <1>1, <1>2 DEF TaskOk, CountsOk
<1>. HIDE DEF h
<1>5. NoCorrect(h)
  BY <1>2, <1>4 DEF NoCorrect, HistoryOk
<1>6. FollowingIn(h) = retry[t]
  BY <1>2, <1>3 DEF FollowingIn, RetryOf
<1>7. ~Correct(got[t])
  BY <1>1, <1>2 DEF TaskOk, EndsOk
<1>. QED
  BY <1>1, <1>2, <1>3, <1>4, <1>5, <1>6, <1>7 DEF TaskOk, h

\* The log of the run is replaced by one of how it ended.  The task goes on in the
\* same attempt, with what the invariant demands of its place.
LEMMA ReturnKeeps ==
  ASSUME BenchmarkInv, NEW t \in Tasks, at[t] = "running",
         NEW l \in Entries, l # NoLog, l.verdict = "none",
         Logs(t, l), UNCHANGED <<attempt, best, found, ending>>,
         formatErrors' \in [Tasks -> [Attempts -> Nat]],
         \A a \in Attempts : a # attempt[t] => formatErrors'[t][a] = formatErrors[t][a],
         formatErrors'[t][attempt[t]] <= RetryOf(retry[t], l),
         at'[t] \in {"loaded", "judging", "recording"},
         at'[t] = "loaded" => /\ RetryOf(retry[t], l) <= retry'[t]
                              /\ retry'[t] <= Limit + 1 /\ got'[t].answer # "text",
         at'[t] = "judging" => /\ l.status = "success" /\ l.answer = "text"
                               /\ got'[t].answer = "text",
         ~Correct(got'[t])
  PROVE  TaskOk(t)'
<1>. DEFINE a == attempt[t]
            g == log'[t][a]
<1>1. /\ BenchmarkType /\ CountsOk(log[t], formatErrors[t])
      /\ EndsOk(log[t], "running", a, got[t], best[t], found[t], ending[t])
      /\ a \in Attempts /\ retry[t] \in Retries /\ retry[t] \in Nat
      /\ NewestIn(log[t][a]) = retry[t] /\ NoCorrect(log[t][a])
      /\ found[t] \in BOOLEAN
  BY WhileRunning
<1>2. /\ CountsOk(log'[t], formatErrors'[t])
      /\ NewestIn(g) = retry[t] /\ g[retry[t]] = l
      /\ FollowingIn(g) = RetryOf(retry[t], l) /\ NoCorrect(g)
      /\ \A x \in Attempts : x # a => log'[t][x] = log[t][x]
  <2>1. NewestIn(log[t][a]) <= retry[t] /\ l.verdict # "CORRECT"
    BY <1>1
  <2>2. log' = [log EXCEPT ![t][a][retry[t]] = l]
    BY DEF Logs
  <2>. QED
    BY <1>1, <2>1, <2>2, CountsStay
<1>. HIDE DEF g
<1>3. PlaceOk(g, at'[t], retry'[t], got'[t])
  BY <1>1, <1>2 DEF PlaceOk
<1>4. EndsOk(log'[t], at'[t], a, got'[t], best[t], found[t], ending[t])
  <2>1. \A x \in Attempts : x < a => log'[t][x] = log[t][x]
    BY <1>1, <1>2, BenchmarkAssumption DEF Attempts
  <2>. QED
    BY <2>1, <1>1, EndsStay
<1>5. attempt'[t] = a /\ best'[t] = best[t] /\ found'[t] = found[t] /\ ending'[t] = ending[t]
  OBVIOUS
<1>. QED
  BY <1>2, <1>3, <1>4, <1>5 DEF TaskOk, g

\* A completed run, a failed or a cancelled one.
LEMMA CompletesKeeps ==
  ASSUME BenchmarkInv, NEW t \in Tasks, Completes(t)
  PROVE  TaskOk(t)'
<1>1. BenchmarkType /\ at[t] = "running"
  BY DEF Completes, BenchmarkInv
<1>2. PICK a \in {"text", "none"} :
        /\ Logs(t, Log("success", a, "none"))
        /\ got' = [got EXCEPT ![t] = Log("success", a, "none")]
        /\ at' = [at EXCEPT ![t] = Goes(Log("success", a, "none"))]
  BY DEF Completes
<1>3. UNCHANGED <<attempt, retry, best, found, ending, formatErrors>>
  BY DEF Completes
<1>4. PICK l : l = Log("success", a, "none")
  OBVIOUS
<1>5. /\ l \in Entries /\ l # NoLog /\ l.status = "success" /\ l.answer = a
      /\ l.verdict = "none"
  BY <1>4, LogsAreEntries
<1>6. got'[t] = l /\ at'[t] = Goes(l)
  BY <1>1, <1>2, <1>4 DEF BenchmarkType
<1>7. at'[t] \in {"judging", "recording"} /\ (at'[t] = "judging" => a = "text")
  BY <1>5, <1>6 DEF Goes
<1>8. formatErrors'[t][attempt[t]] <= RetryOf(retry[t], l)
  <2>1. /\ formatErrors[t][attempt[t]] <= retry[t] /\ retry[t] \in Nat
        /\ formatErrors[t][attempt[t]] \in Nat
    BY <1>1, WhileRunning
  <2>. QED
    BY <2>1, <1>3, <1>5 DEF RetryOf
<1>9. formatErrors' \in [Tasks -> [Attempts -> Nat]]
  BY <1>1, <1>3 DEF BenchmarkType
<1>10. Logs(t, l) /\ ~Correct(got'[t])
  BY <1>2, <1>4, <1>5, <1>6 DEF Correct
<1>11. \A x \in Attempts : x # attempt[t] => formatErrors'[t][x] = formatErrors[t][x]
  BY <1>3
<1>. QED
  BY <1>1, <1>3, <1>5, <1>6, <1>7, <1>8, <1>9, <1>10, <1>11, ReturnKeeps

\* An answer without a format is counted, and its log moves the next repetition
\* behind it.
LEMMA NoFormatKeeps ==
  ASSUME BenchmarkInv, NEW t \in Tasks, NoFormat(t)
  PROVE  TaskOk(t)'
<1>1. BenchmarkType /\ at[t] = "running"
  BY DEF NoFormat, BenchmarkInv
<1>2. PICK l : l = Log("success", "format", "none")
  OBVIOUS
<1>3. /\ Logs(t, l) /\ got' = [got EXCEPT ![t] = l]
      /\ formatErrors' = [formatErrors EXCEPT ![t][attempt[t]] = @ + 1]
      /\ retry' = [retry EXCEPT ![t] = @ + 1]
      /\ at' = [at EXCEPT ![t] = IF retry[t] < Limit THEN "loaded" ELSE "recording"]
      /\ UNCHANGED <<attempt, best, found, ending>>
  BY <1>2 DEF NoFormat
<1>4. /\ l \in Entries /\ l # NoLog /\ l.status = "success" /\ l.answer = "format"
      /\ l.verdict = "none"
  BY <1>2, LogsAreEntries
<1>5. /\ formatErrors[t][attempt[t]] <= retry[t] /\ retry[t] \in Nat /\ retry[t] <= Limit
      /\ formatErrors[t][attempt[t]] \in Nat /\ attempt[t] \in Attempts
  BY <1>1, WhileRunning
<1>6. /\ got'[t] = l /\ retry'[t] = retry[t] + 1
      /\ at'[t] = IF retry[t] < Limit THEN "loaded" ELSE "recording"
  BY <1>1, <1>3 DEF BenchmarkType
<1>7. /\ formatErrors' \in [Tasks -> [Attempts -> Nat]]
      /\ formatErrors'[t][attempt[t]] = formatErrors[t][attempt[t]] + 1
      /\ \A x \in Attempts : x # attempt[t] => formatErrors'[t][x] = formatErrors[t][x]
  BY <1>1, <1>3, <1>5 DEF BenchmarkType
<1>8. RetryOf(retry[t], l) = retry[t] + 1
  BY <1>4 DEF RetryOf
<1>9. formatErrors'[t][attempt[t]] <= RetryOf(retry[t], l)
  BY <1>5, <1>7, <1>8
<1>10. at'[t] \in {"loaded", "recording"} /\ ~Correct(got'[t]) /\ got'[t].answer # "text"
  BY <1>4, <1>6 DEF Correct
<1>11. RetryOf(retry[t], l) <= retry'[t] /\ retry'[t] <= Limit + 1
  BY <1>5, <1>6, <1>8, BenchmarkAssumption
<1>. QED
  BY <1>1, <1>3, <1>4, <1>7, <1>9, <1>10, <1>11, ReturnKeeps

LEMMA FailsKeeps ==
  ASSUME BenchmarkInv, NEW t \in Tasks, Fails(t) \/ Cancelled(t)
  PROVE  TaskOk(t)'
<1>1. BenchmarkType /\ at[t] = "running"
  BY DEF Fails, Cancelled, BenchmarkInv
<1>2. PICK s \in {"failed", "cancelled"}, a \in {"none", "format"} :
        Logs(t, Log(s, a, "none"))
  BY DEF Fails, Cancelled
<1>3. PICK l : l = Log(s, a, "none")
  OBVIOUS
<1>4. /\ l \in Entries /\ l # NoLog /\ l.status \in {"failed", "cancelled"}
      /\ l.verdict = "none"
  BY <1>3, LogsAreEntries
<1>5. /\ formatErrors[t][attempt[t]] <= retry[t] /\ retry[t] \in Nat /\ retry[t] <= Limit
      /\ formatErrors[t][attempt[t]] \in Nat /\ attempt[t] \in Attempts
      /\ got[t] \in Entries /\ got[t].answer # "text" /\ ~Correct(got[t])
  BY <1>1, WhileRunning
<1>6. UNCHANGED <<attempt, best, found, ending, formatErrors>>
  BY DEF Fails, Cancelled
<1>7. RetryOf(retry[t], l) = retry[t]
  BY <1>4 DEF RetryOf
<1>8. got'[t].answer = got[t].answer /\ got'[t].verdict = got[t].verdict
  BY <1>1, <1>5 DEF Fails, Cancelled, BenchmarkType, Entries
<1>9. \/ at'[t] = "recording"
      \/ at'[t] = "loaded" /\ retry'[t] = retry[t] + 1 /\ retry[t] < Limit
  BY <1>1 DEF Fails, Cancelled, BenchmarkType
<1>10. at'[t] = "loaded" => RetryOf(retry[t], l) <= retry'[t] /\ retry'[t] <= Limit + 1
  BY <1>5, <1>7, <1>9, BenchmarkAssumption
<1>11. formatErrors'[t][attempt[t]] <= RetryOf(retry[t], l)
  BY <1>5, <1>6, <1>7
<1>12. formatErrors' \in [Tasks -> [Attempts -> Nat]]
  BY <1>1, <1>6 DEF BenchmarkType
<1>13. Logs(t, l) /\ ~Correct(got'[t]) /\ got'[t].answer # "text"
  BY <1>2, <1>3, <1>5, <1>8 DEF Correct
<1>14. /\ \A x \in Attempts : x # attempt[t] => formatErrors'[t][x] = formatErrors[t][x]
       /\ at'[t] \in {"loaded", "recording"}
  BY <1>6, <1>9
<1>15. UNCHANGED <<attempt, best, found, ending>>
  BY <1>6
<1>. QED
  BY <1>1, <1>4, <1>10, <1>11, <1>12, <1>13, <1>14, <1>15, ReturnKeeps

-----------------------------------------------------------------------------
(* The answer is judged and recorded                                       *)

\* A verdict is written into the newest log, whose answer it is about: what is
\* to be repeated does not change.
LEMMA VerdictStays ==
  ASSUME NEW h \in Histories, NEW v \in {"CORRECT", "INCORRECT"},
         NoCorrect(h), NewestIn(h) \in Retries,
         h[NewestIn(h)].status = "success", h[NewestIn(h)].answer = "text"
  PROVE  LET g == [h EXCEPT ![NewestIn(h)].verdict = v]
         IN  /\ g \in Histories /\ NewestIn(g) = NewestIn(h)
             /\ FollowingIn(g) = FollowingIn(h) /\ HistoryOk(g)
             /\ v = "INCORRECT" => NoCorrect(g)
<1>. DEFINE n == NewestIn(h)
            l == [h[n] EXCEPT !.verdict = v]
            g == [h EXCEPT ![n] = l]
<1>1. /\ h[n] \in Entries /\ l \in Entries /\ l.status = "success"
      /\ l.answer = "text" /\ l.verdict = v
  BY DEF Histories, Entries
<1>2. l # NoLog
  BY <1>1 DEF NoLog, Log
<1>3. n <= n
  BY BenchmarkAssumption DEF Retries
<1>. HIDE DEF l
<1>4. /\ g \in Histories /\ NewestIn(g) = n /\ g[n] = l
      /\ FollowingIn(g) = RetryOf(n, l)
      /\ \A q \in Retries : q # n => g[q] = h[q]
  BY <1>1, <1>2, <1>3, WritingAtTheEnd
<1>5. n # -1
  BY BenchmarkAssumption DEF Retries
<1>6. FollowingIn(h) = FollowingIn(g)
  BY <1>1, <1>4, <1>5 DEF FollowingIn, RetryOf
<1>7. g = [h EXCEPT ![NewestIn(h)].verdict = v]
  BY DEF l
<1>. HIDE DEF g, n
<1>8. HistoryOk(g)
  <2>. SUFFICES ASSUME NEW r \in Retries, g[r].verdict = "CORRECT"
                PROVE  r = NewestIn(g) /\ g[r].status = "success" /\ g[r].answer = "text"
    BY DEF HistoryOk
  <2>1. r = n
    BY <1>4 DEF NoCorrect
  <2>. QED
    BY <2>1, <1>1, <1>4
<1>9. v = "INCORRECT" => NoCorrect(g)
  BY <1>1, <1>4 DEF NoCorrect
<1>. QED
  BY <1>4, <1>6, <1>7, <1>8, <1>9 DEF n

LEMMA JudgeKeeps ==
  ASSUME BenchmarkInv, NEW t \in Tasks, Judge(t)
  PROVE  TaskOk(t)'
<1>. DEFINE a == attempt[t]
            h == log[t][a]
            g == log'[t][a]
<1>t. /\ BenchmarkType /\ CountsOk(log[t], formatErrors[t]) /\ at[t] = "judging"
      /\ EndsOk(log[t], "judging", a, got[t], best[t], found[t], ending[t])
      /\ PlaceOk(h, "judging", retry[t], got[t]) /\ a \in Attempts
      /\ h \in Histories /\ found[t] \in BOOLEAN
  <2>1. BenchmarkType /\ TaskOk(t) /\ at[t] = "judging"
    BY DEF BenchmarkInv, Judge
  <2>. QED
    BY <2>1 DEF TaskOk, BenchmarkType
<1>1. PICK v \in {"CORRECT", "INCORRECT", "ERROR"} :
        /\ got' = [got EXCEPT ![t].verdict = v]
        /\ IF v = "ERROR" THEN UNCHANGED log ELSE WriteVerdict(t, v)
  BY DEF Judge
<1>2. /\ at'[t] = "recording"
      /\ UNCHANGED <<attempt, retry, best, found, ending, formatErrors>>
  BY <1>t DEF Judge, BenchmarkType
<1>3. /\ NewestIn(h) \in Retries /\ h[NewestIn(h)].status = "success"
      /\ h[NewestIn(h)].answer = "text" /\ NoCorrect(h) /\ got[t].answer = "text"
  BY <1>t DEF PlaceOk
<1>4. got'[t].answer = "text" /\ got'[t].verdict = v
  BY <1>t, <1>1, <1>3 DEF BenchmarkType, Entries
<1>5. \/ log'[t] = log[t]
      \/ /\ v # "ERROR" /\ g = [h EXCEPT ![NewestIn(h)].verdict = v]
         /\ \A x \in Attempts : x # a => log'[t][x] = log[t][x]
  <2>1. AnswerLog(t) = NewestIn(h)
    BY DEF AnswerLog, Newest, NewestIn
  <2>2. CASE UNCHANGED log
    BY <2>2
  <2>3. CASE /\ v # "ERROR"
             /\ log' = [log EXCEPT ![t][a][NewestIn(h)].verdict = v]
    <3>1. PICK n : n = NewestIn(h)
      OBVIOUS
    <3>2. log' = [log EXCEPT ![t][a][n].verdict = v]
      BY <2>3, <3>1
    <3>3. log'[t] = [log[t] EXCEPT ![a][n].verdict = v]
      BY <3>2, <1>t DEF BenchmarkType
    <3>4. /\ log'[t][a] = [log[t][a] EXCEPT ![n].verdict = v]
          /\ \A x \in Attempts : x # a => log'[t][x] = log[t][x]
      BY <3>3, <1>t DEF BenchmarkType
    <3>. QED
      BY <2>3, <3>1, <3>4
  <2>. QED
    BY <2>1, <2>2, <2>3, <1>1 DEF WriteVerdict
<1>. HIDE DEF h, g
<1>6. /\ FollowingIn(g) = FollowingIn(h) /\ HistoryOk(g)
      /\ v # "CORRECT" => NoCorrect(g)
      /\ \A x \in Attempts : x # a => log'[t][x] = log[t][x]
  <2>1. CASE log'[t] = log[t]
    <3>1. g = h /\ HistoryOk(h)
      BY <2>1, <1>t DEF g, h, CountsOk
    <3>. QED
      BY <2>1, <3>1, <1>3
  <2>2. CASE /\ v # "ERROR" /\ g = [h EXCEPT ![NewestIn(h)].verdict = v]
             /\ \A x \in Attempts : x # a => log'[t][x] = log[t][x]
    BY <2>2, <1>t, <1>3, VerdictStays
  <2>. QED
    BY <2>1, <2>2, <1>5
<1>7. CountsOk(log'[t], formatErrors[t])
  <2>. SUFFICES ASSUME NEW x \in Attempts
                PROVE  formatErrors[t][x] <= FollowingIn(log'[t][x]) /\ HistoryOk(log'[t][x])
    BY DEF CountsOk
  <2>1. CASE x = a
    <3>1. formatErrors[t][x] <= FollowingIn(h)
      BY <2>1, <1>t DEF CountsOk, h
    <3>. QED
      BY <2>1, <3>1, <1>6 DEF g
  <2>2. CASE x # a
    BY <2>2, <1>t, <1>6 DEF CountsOk
  <2>. QED
    BY <2>1, <2>2
<1>8. PlaceOk(g, "recording", retry[t], got'[t])
  <2>1. NoCorrect(g) \/ Correct(got'[t])
    BY <1>4, <1>6 DEF Correct
  <2>. QED
    BY <2>1 DEF PlaceOk
<1>9. EndsOk(log'[t], "recording", a, got'[t], best[t], found[t], ending[t])
  <2>1. \A x \in Attempts : x < a => log'[t][x] = log[t][x]
    BY <1>t, <1>6, BenchmarkAssumption DEF Attempts
  <2>. QED
    BY <2>1, <1>t, <1>4, EndsStay
<1>. QED
  BY <1>2, <1>7, <1>8, <1>9 DEF TaskOk, g

\* The attempt is the last of the task, or the next one begins.
LEMMA RecordKeeps ==
  ASSUME BenchmarkInv, NEW t \in Tasks, Record(t)
  PROVE  TaskOk(t)'
<1>. DEFINE a == attempt[t]
            h == log[t][a]
            ends == Correct(got[t]) \/ got[t].status = "cancelled" \/ a = K
<1>t. /\ BenchmarkType /\ CountsOk(log[t], formatErrors[t])
      /\ EndsOk(log[t], "recording", a, got[t], best[t], found[t], ending[t])
      /\ PlaceOk(h, "recording", retry[t], got[t])
      /\ a \in Attempts /\ found[t] \in BOOLEAN
  <2>1. BenchmarkType /\ TaskOk(t) /\ at[t] = "recording"
    BY DEF BenchmarkInv, Record
  <2>. QED
    BY <2>1 DEF TaskOk, BenchmarkType
<1>1. UNCHANGED <<log, formatErrors>>
  BY DEF Record, files
<1>2. /\ NoCorrect(h) \/ Correct(got[t])
      /\ \A x \in Attempts : x < a => NoCorrect(log[t][x])
      /\ Correct(got[t]) => got[t].answer = "text"
      /\ ending[t] = "none"
  BY <1>t DEF PlaceOk, EndsOk
<1>3. Correct(got[t]) => best'[t].answer = "text" /\ best'[t].attempt = a
  <2>. SUFFICES ASSUME Correct(got[t])
                PROVE  best'[t].answer = "text" /\ best'[t].attempt = a
    OBVIOUS
  <2>1. best' = [best EXCEPT ![t] = [status |-> got[t].status,
                                     answer |-> got[t].answer, attempt |-> a]]
    BY DEF Record, Better
  <2>2. best'[t] = [status |-> got[t].status, answer |-> got[t].answer, attempt |-> a]
    BY <2>1, <1>t DEF BenchmarkType
  <2>. QED
    BY <2>2, <1>2
<1>4. found'[t] <=> Correct(got[t])
  BY <1>t DEF Record, BenchmarkType
<1>5. K \in Nat /\ a \in Nat /\ a <= K /\ Attempts = 1..K
  BY <1>t, BenchmarkAssumption DEF Attempts
<1>6. CASE ends
  <2>1. /\ at'[t] = "over" /\ attempt'[t] = a /\ got'[t] = got[t] /\ retry'[t] = retry[t]
        /\ ending'[t] = IF got[t].status = "cancelled" THEN "cancelled" ELSE "whole"
    BY <1>6, <1>t DEF Record, BenchmarkType
  <2>2. ending'[t] = "whole" /\ ~Correct(got[t]) => \A x \in Attempts : NoCorrect(log[t][x])
    <3>. SUFFICES ASSUME ending'[t] = "whole", ~Correct(got[t]), NEW x \in Attempts
                  PROVE  NoCorrect(log[t][x])
      OBVIOUS
    <3>1. a = K /\ NoCorrect(h)
      BY <1>2, <1>6, <2>1
    <3>2. x = a \/ x < a
      BY <3>1, <1>5
    <3>. QED
      BY <3>1, <3>2, <1>2
  <2>3. EndsOk(log[t], "over", a, got[t], best'[t], found'[t], ending'[t])
    <3>. HIDE DEF a
    <3>1. found'[t] => best'[t].answer = "text" /\ best'[t].attempt = a
      BY <1>3, <1>4
    <3>2. ending'[t] = "whole" => found'[t] \/ \A x \in Attempts : NoCorrect(log[t][x])
      BY <1>4, <2>2
    <3>. QED
      BY <3>1, <3>2, <1>2 DEF EndsOk
  <2>4. PlaceOk(h, "over", retry[t], got[t])
    BY DEF PlaceOk
  <2>. QED
    BY <2>1, <2>3, <2>4, <1>t, <1>1 DEF TaskOk
<1>7. CASE ~ends
  <2>1. a + 1 \in Attempts /\ Begin(t, a + 1) /\ UNCHANGED ending
    BY <1>5, <1>7 DEF Record
  <2>2. HistoryOk(log[t][a + 1])
    BY <2>1, <1>t DEF CountsOk
  <2>3. /\ at'[t] = "loaded" /\ attempt'[t] = a + 1
        /\ PlaceOk(log[t][a + 1], "loaded", retry'[t], got'[t])
        /\ Correct(got'[t]) => got'[t].answer = "text"
    BY <2>1, <2>2, <1>t, BeginFinds
  <2>4. \A x \in Attempts : x < a + 1 => NoCorrect(log[t][x])
    <3>. SUFFICES ASSUME NEW x \in Attempts, x < a + 1 PROVE NoCorrect(log[t][x])
      OBVIOUS
    <3>1. x = a \/ x < a
      BY <1>5
    <3>. QED
      BY <3>1, <1>2, <1>7
  <2>5. ~found'[t] /\ ending'[t] = "none"
    BY <2>1, <1>2, <1>4, <1>7
  <2>6. EndsOk(log[t], "loaded", a + 1, got'[t], best'[t], found'[t], ending'[t])
    BY <2>3, <2>4, <2>5 DEF EndsOk
  <2>. QED
    BY <2>3, <2>6, <1>t, <1>1 DEF TaskOk
<1>. QED
  BY <1>6, <1>7

-----------------------------------------------------------------------------
(* The pool breaks, or the benchmark is started again                      *)

\* Logs that are cut off are the newest of their attempts and were of runs, so
\* that nothing is lost that anybody counted or judged.
LEMMA CutKeeps ==
  ASSUME BenchmarkInv, NEW t \in Tasks, NEW S \in SUBSET Running, log' = Cut(S),
         UNCHANGED formatErrors
  PROVE  /\ CountsOk(log'[t], formatErrors'[t])
         /\ at[t] # "running" => log'[t] = log[t]
<1>t. BenchmarkType /\ CountsOk(log[t], formatErrors[t])
  BY DEF BenchmarkInv, TaskOk
<1>1. CASE t \notin S
  <2>1. log'[t] = log[t]
    BY <1>1 DEF Cut
  <2>. QED
    BY <2>1, <1>t
<1>2. CASE t \in S
  <2>. DEFINE a == attempt[t]
              h == log[t][a]
              g == [h EXCEPT ![retry[t]] = Torn]
  <2>1. at[t] = "running"
    BY <1>2 DEF Running
  <2>2. /\ a \in Attempts /\ h \in Histories /\ retry[t] \in Retries
        /\ NewestIn(h) = retry[t] /\ NewestIn(h) <= retry[t] /\ NoCorrect(h)
        /\ formatErrors[t][a] <= retry[t]
    BY <2>1, WhileRunning DEF BenchmarkType
  <2>3. Torn \in Entries /\ Torn # NoLog /\ Torn.verdict # "CORRECT" /\ Torn.status = "torn"
    BY LogsAreEntries DEF Torn
  <2>4. /\ log'[t][a] = g
        /\ \A x \in Attempts : x # a => log'[t][x] = log[t][x]
    BY <1>2, <1>t, <2>2 DEF Cut, BenchmarkType
  <2>. HIDE DEF h
  <2>5. FollowingIn(g) = retry[t] /\ HistoryOk(g)
    BY <2>2, <2>3, WritingAtTheEnd, WritingKeepsNoCorrect DEF RetryOf
  <2>. HIDE DEF g
  <2>6. CountsOk(log'[t], formatErrors[t])
    <3>. SUFFICES ASSUME NEW x \in Attempts
                  PROVE  formatErrors[t][x] <= FollowingIn(log'[t][x]) /\ HistoryOk(log'[t][x])
      BY DEF CountsOk
    <3>1. CASE x = a
      BY <3>1, <2>2, <2>4, <2>5
    <3>2. CASE x # a
      BY <3>2, <2>4, <1>t DEF CountsOk
    <3>. QED
      BY <3>1, <3>2
  <2>. QED
    BY <2>1, <2>6
<1>. QED
  BY <1>1, <1>2

LEMMA PoolBreaksKeeps ==
  ASSUME BenchmarkInv, NEW t \in Tasks, PoolBreaks
  PROVE  TaskOk(t)'
<1>t. BenchmarkType /\ TaskOk(t)
  BY DEF BenchmarkInv
<1>1. PICK S \in SUBSET Running : log' = Cut(S)
  BY DEF PoolBreaks
<1>2. UNCHANGED <<attempt, retry, got, formatErrors>>
  BY DEF PoolBreaks
<1>3. CountsOk(log'[t], formatErrors'[t]) /\ (at[t] # "running" => log'[t] = log[t])
  BY <1>1, <1>2, CutKeeps
<1>4. /\ at'[t] = "over"
      /\ ending'[t] = IF at[t] = "over" THEN ending[t] ELSE "broken"
      /\ found'[t] <=> at[t] = "over" /\ found[t]
      /\ at[t] = "over" => best'[t] = best[t]
  BY DEF PoolBreaks
<1>5. EndsOk(log'[t], "over", attempt[t], got[t], best'[t], found'[t], ending'[t])
  <2>0. EndsOk(log[t], at[t], attempt[t], got[t], best[t], found[t], ending[t])
    BY <1>t DEF TaskOk
  <2>1. Correct(got[t]) => got[t].answer = "text"
    BY <2>0 DEF EndsOk
  <2>2. CASE at[t] = "over"
    <3>1. /\ found'[t] => best'[t].answer = "text" /\ best'[t].attempt = attempt[t]
          /\ ending'[t] = "whole" => found'[t] \/ \A x \in Attempts : NoCorrect(log'[t][x])
      BY <2>0, <2>2, <1>3, <1>4 DEF EndsOk
    <3>. QED
      BY <3>1, <2>1 DEF EndsOk
  <2>3. CASE at[t] # "over"
    <3>1. ~found'[t] /\ ending'[t] = "broken"
      BY <2>3, <1>4
    <3>. QED
      BY <3>1, <2>1 DEF EndsOk
  <2>. QED
    BY <2>2, <2>3
<1>6. PlaceOk(log'[t][attempt[t]], "over", retry[t], got[t])
  BY DEF PlaceOk
<1>. QED
  BY <1>2, <1>3, <1>4, <1>5, <1>6 DEF TaskOk

LEMMA StartAgainKeeps ==
  ASSUME BenchmarkInv, NEW t \in Tasks, StartAgain
  PROVE  TaskOk(t)'
<1>1. PICK S \in SUBSET Running : log' = Cut(S)
  BY DEF StartAgain
<1>2. CountsOk(log'[t], formatErrors'[t])
  BY <1>1, CutKeeps DEF StartAgain
<1>3. /\ at'[t] = "queued" /\ attempt'[t] = 1 /\ got'[t] = Nothing
      /\ found'[t] = FALSE /\ ending'[t] = "none"
  BY DEF StartAgain
<1>4. ~Correct(Nothing)
  BY DEF Nothing, Correct
<1>5. EndsOk(log'[t], "queued", 1, Nothing, best'[t], FALSE, "none")
  BY <1>4 DEF EndsOk
<1>6. PlaceOk(log'[t][1], "queued", retry'[t], Nothing)
  BY DEF PlaceOk
<1>. QED
  BY <1>2, <1>3, <1>5, <1>6 DEF TaskOk

-----------------------------------------------------------------------------
(* Types, and the other tasks                                              *)

\* What is left of every other task when task t takes a step.
OthersStay(t) ==
  \A u \in Tasks : u # t =>
    /\ log'[u] = log[u] /\ formatErrors'[u] = formatErrors[u] /\ at'[u] = at[u]
    /\ attempt'[u] = attempt[u] /\ retry'[u] = retry[u] /\ got'[u] = got[u]
    /\ best'[u] = best[u] /\ found'[u] = found[u] /\ ending'[u] = ending[u]

\* A log of task t is written.
LEMMA LogWritten ==
  ASSUME BenchmarkType, NEW t \in Tasks, NEW l \in Entries, retry[t] \in Retries,
         log' = [log EXCEPT ![t][attempt[t]][retry[t]] = l]
  PROVE  /\ log' \in [Tasks -> [Attempts -> Histories]]
         /\ \A u \in Tasks : u # t => log'[u] = log[u]
<1>. DEFINE r == retry[t]
            a == attempt[t]
            H == [log[t] EXCEPT ![a][r] = l]
<1>1. log' = [log EXCEPT ![t] = H]
  OBVIOUS
<1>2. a \in Attempts /\ log[t] \in [Attempts -> Histories] /\ log[t][a] \in Histories
  BY DEF BenchmarkType
<1>3. [log[t][a] EXCEPT ![r] = l] \in Histories
  BY <1>2 DEF Histories
<1>4. H \in [Attempts -> Histories]
  BY <1>2, <1>3
<1>. HIDE DEF H
<1>. QED
  BY <1>1, <1>4 DEF BenchmarkType

LEMMA BeginType ==
  ASSUME BenchmarkType, NEW t \in Tasks, NEW a \in Attempts, HistoryOk(log[t][a]),
         Begin(t, a)
  PROVE  /\ at' \in [Tasks -> {"queued", "loaded", "running", "judging", "recording", "over"}]
         /\ attempt' \in [Tasks -> Attempts] /\ retry' \in [Tasks -> Nat]
         /\ got' \in [Tasks -> Entries]
         /\ \A u \in Tasks : u # t =>
              /\ at'[u] = at[u] /\ attempt'[u] = attempt[u]
              /\ retry'[u] = retry[u] /\ got'[u] = got[u]
<1>1. got'[t] \in Entries /\ retry'[t] \in Nat
  BY BeginFinds
<1>2. PICK x, y : /\ retry' = [retry EXCEPT ![t] = x]
                  /\ got' = [got EXCEPT ![t] = y]
                  /\ at' = [at EXCEPT ![t] = "loaded"]
                  /\ attempt' = [attempt EXCEPT ![t] = a]
  BY DEF Begin
<1>3. x \in Nat /\ y \in Entries
  BY <1>1, <1>2 DEF BenchmarkType
<1>. QED
  BY <1>2, <1>3 DEF BenchmarkType

LEMMA StartTaskType ==
  ASSUME BenchmarkInv, NEW t \in Tasks, StartTask(t)
  PROVE  BenchmarkType' /\ OthersStay(t)
<1>1. BenchmarkType /\ HistoryOk(log[t][1]) /\ 1 \in Attempts /\ Begin(t, 1)
  BY BenchmarkAssumption DEF BenchmarkInv, TaskOk, CountsOk, Attempts, StartTask
<1>2. UNCHANGED <<log, formatErrors, best, found, ending>>
  BY DEF StartTask, files
<1>. QED
  BY <1>1, <1>2, BeginType DEF BenchmarkType, OthersStay

LEMMA PipelineStartsType ==
  ASSUME BenchmarkInv, NEW t \in Tasks, PipelineStarts(t)
  PROVE  BenchmarkType' /\ OthersStay(t)
<1>1. BenchmarkType /\ retry[t] \in Retries
  BY BenchmarkAssumption DEF BenchmarkInv, BenchmarkType, PipelineStarts, MayRun, Retries
<1>2. /\ log' \in [Tasks -> [Attempts -> Histories]]
      /\ \A u \in Tasks : u # t => log'[u] = log[u]
  <2>1. PICK l : l = Log("running", "none", "none")
    OBVIOUS
  <2>2. l \in Entries
    BY <2>1, LogsAreEntries
  <2>3. log' = [log EXCEPT ![t][attempt[t]][retry[t]] = l]
    BY <2>1 DEF PipelineStarts
  <2>. QED
    BY <1>1, <2>2, <2>3, LogWritten
<1>. QED
  BY <1>1, <1>2 DEF PipelineStarts, BenchmarkType, OthersStay

LEMMA TakeOverType ==
  ASSUME BenchmarkInv, NEW t \in Tasks, TakeOver(t)
  PROVE  BenchmarkType' /\ OthersStay(t)
<1>1. BenchmarkType /\ Goes(got[t]) \in {"judging", "recording"}
  BY DEF BenchmarkInv, Goes
<1>. QED
  BY <1>1 DEF TakeOver, files, BenchmarkType, OthersStay

LEMMA CompletesType ==
  ASSUME BenchmarkInv, NEW t \in Tasks, Completes(t)
  PROVE  BenchmarkType' /\ OthersStay(t)
<1>1. BenchmarkType /\ retry[t] \in Retries
  BY WhileRunning DEF Completes
<1>2. PICK a \in {"text", "none"} :
        /\ Logs(t, Log("success", a, "none"))
        /\ got' = [got EXCEPT ![t] = Log("success", a, "none")]
        /\ at' = [at EXCEPT ![t] = Goes(Log("success", a, "none"))]
  BY DEF Completes
<1>3. PICK l : l = Log("success", a, "none")
  OBVIOUS
<1>4. l \in Entries /\ Goes(l) \in {"judging", "recording"}
  BY <1>3, LogsAreEntries DEF Goes
<1>5. /\ log' \in [Tasks -> [Attempts -> Histories]]
      /\ \A u \in Tasks : u # t => log'[u] = log[u]
  BY <1>1, <1>2, <1>3, <1>4, LogWritten DEF Logs
<1>6. got' = [got EXCEPT ![t] = l] /\ at' = [at EXCEPT ![t] = Goes(l)]
  BY <1>2, <1>3
<1>7. UNCHANGED <<attempt, retry, best, found, ending, formatErrors>>
  BY DEF Completes
<1>. QED
  BY <1>1, <1>4, <1>5, <1>6, <1>7 DEF BenchmarkType, OthersStay

LEMMA NoFormatType ==
  ASSUME BenchmarkInv, NEW t \in Tasks, NoFormat(t)
  PROVE  BenchmarkType' /\ OthersStay(t)
<1>1. BenchmarkType /\ retry[t] \in Retries
  BY WhileRunning DEF NoFormat
<1>2. PICK l : l = Log("success", "format", "none")
  OBVIOUS
<1>3. l \in Entries
  BY <1>2, LogsAreEntries
<1>4. Logs(t, l) /\ got' = [got EXCEPT ![t] = l]
  BY <1>2 DEF NoFormat
<1>5. /\ log' \in [Tasks -> [Attempts -> Histories]]
      /\ \A u \in Tasks : u # t => log'[u] = log[u]
  BY <1>1, <1>3, <1>4, LogWritten DEF Logs
<1>6. /\ formatErrors' \in [Tasks -> [Attempts -> Nat]]
      /\ \A u \in Tasks : u # t => formatErrors'[u] = formatErrors[u]
  BY <1>1 DEF NoFormat, BenchmarkType
<1>7. /\ retry' \in [Tasks -> Nat]
      /\ \A u \in Tasks : u # t => retry'[u] = retry[u]
  BY <1>1 DEF NoFormat, BenchmarkType
<1>8. /\ at' \in [Tasks -> {"queued", "loaded", "running", "judging", "recording", "over"}]
      /\ \A u \in Tasks : u # t => at'[u] = at[u]
  BY <1>1 DEF NoFormat, BenchmarkType
<1>9. UNCHANGED <<attempt, best, found, ending>>
  BY DEF NoFormat
<1>. QED
  BY <1>1, <1>3, <1>4, <1>5, <1>6, <1>7, <1>8, <1>9 DEF BenchmarkType, OthersStay

LEMMA FailsType ==
  ASSUME BenchmarkInv, NEW t \in Tasks, Fails(t) \/ Cancelled(t)
  PROVE  BenchmarkType' /\ OthersStay(t)
<1>1. BenchmarkType /\ retry[t] \in Retries
  BY WhileRunning DEF Fails, Cancelled
<1>2. PICK s \in {"failed", "cancelled"}, a \in {"none", "format"} :
        Logs(t, Log(s, a, "none"))
  BY DEF Fails, Cancelled
<1>3. /\ log' \in [Tasks -> [Attempts -> Histories]]
      /\ \A u \in Tasks : u # t => log'[u] = log[u]
  <2>1. PICK l : l = Log(s, a, "none")
    OBVIOUS
  <2>2. l \in Entries
    BY <2>1, LogsAreEntries
  <2>3. log' = [log EXCEPT ![t][attempt[t]][retry[t]] = l]
    BY <1>2, <2>1 DEF Logs
  <2>. QED
    BY <1>1, <2>2, <2>3, LogWritten
<1>4. got' = got \/ \E s2 \in {"failed", "cancelled"} : got' = [got EXCEPT ![t].status = s2]
  BY DEF Fails, Cancelled
<1>5. /\ got' \in [Tasks -> Entries]
      /\ \A u \in Tasks : u # t => got'[u] = got[u]
  <2>1. CASE got' = got
    BY <2>1, <1>1 DEF BenchmarkType
  <2>2. CASE \E s2 \in {"failed", "cancelled"} : got' = [got EXCEPT ![t].status = s2]
    <3>1. PICK s2 \in {"failed", "cancelled"} : got' = [got EXCEPT ![t].status = s2]
      BY <2>2
    <3>2. [got[t] EXCEPT !.status = s2] \in Entries
      BY <1>1 DEF BenchmarkType, Entries
    <3>. QED
      BY <1>1, <3>1, <3>2 DEF BenchmarkType
  <2>. QED
    BY <1>4, <2>1, <2>2
<1>6. /\ retry' \in [Tasks -> Nat]
      /\ \A u \in Tasks : u # t => retry'[u] = retry[u]
  <2>1. retry' = retry \/ retry' = [retry EXCEPT ![t] = @ + 1]
    BY DEF Fails, Cancelled
  <2>2. CASE retry' = retry
    BY <2>2, <1>1 DEF BenchmarkType
  <2>3. CASE retry' = [retry EXCEPT ![t] = @ + 1]
    <3>1. retry[t] + 1 \in Nat /\ retry \in [Tasks -> Nat]
      BY <1>1 DEF BenchmarkType
    <3>. QED
      BY <2>3, <3>1
  <2>. QED
    BY <2>1, <2>2, <2>3
<1>7. /\ at' \in [Tasks -> {"queued", "loaded", "running", "judging", "recording", "over"}]
      /\ \A u \in Tasks : u # t => at'[u] = at[u]
  BY <1>1 DEF Fails, Cancelled, BenchmarkType
<1>8. UNCHANGED <<attempt, best, found, ending, formatErrors>>
  BY DEF Fails, Cancelled
<1>. QED
  BY <1>1, <1>3, <1>5, <1>6, <1>7, <1>8 DEF BenchmarkType, OthersStay

LEMMA JudgeType ==
  ASSUME BenchmarkInv, NEW t \in Tasks, Judge(t)
  PROVE  BenchmarkType' /\ OthersStay(t)
<1>. DEFINE a == attempt[t]
<1>1. /\ BenchmarkType /\ a \in Attempts /\ log[t][a] \in Histories
      /\ NewestIn(log[t][a]) \in Retries
  BY DEF BenchmarkInv, TaskOk, PlaceOk, Judge, BenchmarkType
<1>2. PICK v \in {"CORRECT", "INCORRECT", "ERROR"} :
        /\ got' = [got EXCEPT ![t].verdict = v]
        /\ IF v = "ERROR" THEN UNCHANGED log ELSE WriteVerdict(t, v)
  BY DEF Judge
<1>3. /\ log' \in [Tasks -> [Attempts -> Histories]]
      /\ \A u \in Tasks : u # t => log'[u] = log[u]
  <2>1. CASE UNCHANGED log
    BY <2>1, <1>1 DEF BenchmarkType
  <2>2. CASE log' = [log EXCEPT ![t][a][AnswerLog(t)].verdict = v]
    <3>1. PICK n \in Retries : n = NewestIn(log[t][a])
      BY <1>1
    <3>2. log' = [log EXCEPT ![t][a][n].verdict = v]
      BY <2>2, <3>1 DEF AnswerLog, Newest, NewestIn
    <3>. DEFINE l == [log[t][a][n] EXCEPT !.verdict = v]
                h == [log[t][a] EXCEPT ![n] = l]
                H == [log[t] EXCEPT ![a] = h]
    <3>3. log' = [log EXCEPT ![t] = H]
      BY <3>2
    <3>4. l \in Entries
      BY <1>1 DEF Histories, Entries
    <3>. HIDE DEF l
    <3>5. h \in Histories
      BY <1>1, <3>4 DEF Histories
    <3>. HIDE DEF h
    <3>6. H \in [Attempts -> Histories]
      BY <1>1, <3>5 DEF BenchmarkType
    <3>. HIDE DEF H
    <3>. QED
      BY <1>1, <3>3, <3>6 DEF BenchmarkType
  <2>. QED
    BY <1>2, <2>1, <2>2 DEF WriteVerdict
<1>4. /\ got' \in [Tasks -> Entries]
      /\ \A u \in Tasks : u # t => got'[u] = got[u]
  <2>1. [got[t] EXCEPT !.verdict = v] \in Entries
    BY <1>1 DEF BenchmarkType, Entries
  <2>. QED
    BY <1>1, <1>2, <2>1 DEF BenchmarkType
<1>5. /\ at' \in [Tasks -> {"queued", "loaded", "running", "judging", "recording", "over"}]
      /\ \A u \in Tasks : u # t => at'[u] = at[u]
  BY <1>1 DEF Judge, BenchmarkType
<1>6. UNCHANGED <<attempt, retry, best, found, ending, formatErrors>>
  BY DEF Judge
<1>. QED
  BY <1>1, <1>3, <1>4, <1>5, <1>6 DEF BenchmarkType, OthersStay

LEMMA RecordType ==
  ASSUME BenchmarkInv, NEW t \in Tasks, Record(t)
  PROVE  BenchmarkType' /\ OthersStay(t)
<1>1. BenchmarkType /\ TaskOk(t) /\ at[t] = "recording"
  BY DEF BenchmarkInv, Record
<1>2. UNCHANGED <<log, formatErrors>>
  BY DEF Record, files
<1>3. /\ best' = [u \in Tasks |-> best'[u]]
      /\ \A u \in Tasks : u # t => best'[u] = best[u]
  <2>1. CASE best' = best
    BY <2>1, <1>1 DEF BenchmarkType
  <2>2. CASE \E x : best' = [best EXCEPT ![t] = x]
    <3>1. PICK x : best' = [best EXCEPT ![t] = x]
      BY <2>2
    <3>2. best = [u \in Tasks |-> best[u]]
      BY <1>1 DEF BenchmarkType
    <3>. QED
      BY <3>1, <3>2
  <2>. QED
    BY <2>1, <2>2 DEF Record
<1>4. Correct(got[t]) \in BOOLEAN
  BY DEF Correct
<1>5. found' = [found EXCEPT ![t] = Correct(got[t])]
  BY DEF Record
<1>6. /\ found' \in [Tasks -> BOOLEAN]
      /\ \A u \in Tasks : u # t => found'[u] = found[u]
  BY <1>1, <1>4, <1>5 DEF BenchmarkType
<1>7. CASE Correct(got[t]) \/ got[t].status = "cancelled" \/ attempt[t] = K
  <2>1. /\ at' = [at EXCEPT ![t] = "over"] /\ UNCHANGED <<attempt, retry, got>>
        /\ \E e \in {"cancelled", "whole"} : ending' = [ending EXCEPT ![t] = e]
    BY <1>7 DEF Record
  <2>2. /\ at' \in [Tasks -> {"queued", "loaded", "running", "judging", "recording", "over"}]
        /\ ending' \in [Tasks -> {"none", "whole", "cancelled", "broken"}]
        /\ \A u \in Tasks : u # t => at'[u] = at[u] /\ ending'[u] = ending[u]
    BY <2>1, <1>1 DEF BenchmarkType
  <2>. QED
    BY <1>1, <1>2, <1>3, <1>6, <2>1, <2>2 DEF BenchmarkType, OthersStay
<1>8. CASE ~(Correct(got[t]) \/ got[t].status = "cancelled" \/ attempt[t] = K)
  <2>1. attempt[t] + 1 \in Attempts /\ Begin(t, attempt[t] + 1) /\ UNCHANGED ending
    BY <1>1, <1>8, BenchmarkAssumption DEF Record, BenchmarkType, Attempts
  <2>2. HistoryOk(log[t][attempt[t] + 1])
    BY <2>1, <1>1 DEF TaskOk, CountsOk
  <2>3. PICK a \in Attempts : a = attempt[t] + 1
    BY <2>1
  <2>4. /\ at' \in [Tasks -> {"queued", "loaded", "running", "judging", "recording", "over"}]
        /\ attempt' \in [Tasks -> Attempts] /\ retry' \in [Tasks -> Nat]
        /\ got' \in [Tasks -> Entries]
        /\ \A u \in Tasks : u # t =>
             /\ at'[u] = at[u] /\ attempt'[u] = attempt[u]
             /\ retry'[u] = retry[u] /\ got'[u] = got[u]
    BY <1>1, <2>1, <2>2, <2>3, BeginType
  <2>. QED
    BY <1>1, <1>2, <1>3, <1>6, <2>1, <2>4 DEF BenchmarkType, OthersStay
<1>. QED
  BY <1>7, <1>8

LEMMA PoolBreaksType ==
  ASSUME BenchmarkInv, NEW S \in SUBSET Running, log' = Cut(S)
  PROVE  log' \in [Tasks -> [Attempts -> Histories]]
<1>1. BenchmarkType
  BY DEF BenchmarkInv
<1>2. ASSUME NEW t \in Tasks PROVE log'[t] \in [Attempts -> Histories]
  <2>1. CASE t \notin S
    BY <1>1, <2>1 DEF Cut, BenchmarkType
  <2>2. CASE t \in S
    <3>1. /\ retry[t] \in Retries /\ attempt[t] \in Attempts
          /\ log[t] \in [Attempts -> Histories]
      BY <1>1, <2>2, WhileRunning DEF Running, BenchmarkType
    <3>. DEFINE h == [log[t][attempt[t]] EXCEPT ![retry[t]] = Torn]
    <3>2. h \in Histories
      BY <3>1, LogsAreEntries DEF Torn, Histories
    <3>3. log'[t] = [log[t] EXCEPT ![attempt[t]] = h]
      BY <2>2 DEF Cut
    <3>. HIDE DEF h
    <3>. QED
      BY <3>1, <3>2, <3>3
  <2>. QED
    BY <2>1, <2>2
<1>3. log' = [t \in Tasks |-> log'[t]]
  BY DEF Cut
<1>. QED
  BY <1>2, <1>3

\* Every step leaves every variable in its type.
LEMMA PoolType ==
  ASSUME BenchmarkInv, PoolBreaks \/ StartAgain
  PROVE  BenchmarkType'
<1>1. BenchmarkType
  BY DEF BenchmarkInv
<1>2. PICK S \in SUBSET Running : log' = Cut(S)
  BY DEF PoolBreaks, StartAgain
<1>3. log' \in [Tasks -> [Attempts -> Histories]]
  BY <1>2, PoolBreaksType
<1>4. CASE PoolBreaks
  <2>1. /\ at' \in [Tasks -> {"queued", "loaded", "running", "judging", "recording", "over"}]
        /\ ending' \in [Tasks -> {"none", "whole", "cancelled", "broken"}]
        /\ best' = [t \in Tasks |-> best'[t]]
    BY <1>1, <1>4 DEF PoolBreaks, BenchmarkType
  <2>2. found' \in [Tasks -> BOOLEAN]
    BY <1>4 DEF PoolBreaks
  <2>. QED
    BY <1>1, <1>3, <1>4, <2>1, <2>2 DEF PoolBreaks, BenchmarkType
<1>5. CASE StartAgain
  <2>1. 1 \in Attempts /\ Nothing \in Entries
    BY BenchmarkAssumption DEF Attempts, Nothing, Entries
  <2>. QED
    BY <1>1, <1>3, <1>5, <2>1 DEF StartAgain, BenchmarkType
<1>. QED
  BY <1>4, <1>5

-----------------------------------------------------------------------------
(* The invariant                                                           *)

LEMMA InitOk == Init => BenchmarkInv
<1>. SUFFICES ASSUME Init PROVE BenchmarkInv
  OBVIOUS
<1>. DEFINE h == [r \in Retries |-> NoLog]
<1>1. /\ NoLog \in Entries /\ Nothing \in Entries /\ 1 \in Attempts
      /\ ~Correct(Nothing) /\ NoLog.verdict # "CORRECT"
  BY BenchmarkAssumption DEF NoLog, Log, Nothing, Entries, Attempts, Correct
<1>2. h \in Histories
  BY <1>1 DEF Histories
<1>3. BenchmarkType
  <2>1. log \in [Tasks -> [Attempts -> Histories]]
    BY <1>2 DEF Init
  <2>. QED
    BY <1>1, <2>1 DEF Init, BenchmarkType
<1>4. FollowingIn(h) \in Nat
  BY FollowingFollows
<1>5. HistoryOk(h)
  BY <1>1 DEF HistoryOk
<1>. HIDE DEF h
<1>6. ASSUME NEW t \in Tasks PROVE TaskOk(t)
  <2>1. CountsOk(log[t], formatErrors[t])
    <3>1. \A a \in Attempts : log[t][a] = h /\ formatErrors[t][a] = 0
      BY DEF Init, h
    <3>. QED
      BY <1>4, <1>5, <3>1 DEF CountsOk
  <2>2. /\ at[t] = "queued" /\ got[t] = Nothing /\ found[t] = FALSE
        /\ ending[t] = "none"
    BY DEF Init
  <2>3. EndsOk(log[t], "queued", attempt[t], Nothing, best[t], FALSE, "none")
    BY <1>1 DEF EndsOk
  <2>4. PlaceOk(log[t][attempt[t]], "queued", retry[t], Nothing)
    BY DEF PlaceOk
  <2>. QED
    BY <2>1, <2>2, <2>3, <2>4 DEF TaskOk
<1>. QED
  BY <1>3, <1>6 DEF BenchmarkInv

\* A step of one task: its own part is kept by its action, the others are left
\* alone.
LEMMA TaskStepKeeps ==
  ASSUME BenchmarkInv, NEW t \in Tasks, TaskStep(t)
  PROVE  BenchmarkInv'
<1>1. BenchmarkType' /\ OthersStay(t) /\ TaskOk(t)'
  <2>1. CASE StartTask(t)
    BY <2>1, StartTaskType, StartTaskKeeps
  <2>2. CASE PipelineStarts(t)
    BY <2>2, PipelineStartsType, PipelineStartsKeeps
  <2>3. CASE TakeOver(t)
    BY <2>3, TakeOverType, TakeOverKeeps
  <2>4. CASE Completes(t)
    BY <2>4, CompletesType, CompletesKeeps
  <2>5. CASE NoFormat(t)
    BY <2>5, NoFormatType, NoFormatKeeps
  <2>6. CASE Fails(t) \/ Cancelled(t)
    BY <2>6, FailsType, FailsKeeps
  <2>7. CASE Judge(t)
    BY <2>7, JudgeType, JudgeKeeps
  <2>8. CASE Record(t)
    BY <2>8, RecordType, RecordKeeps
  <2>. QED
    BY <2>1, <2>2, <2>3, <2>4, <2>5, <2>6, <2>7, <2>8 DEF TaskStep
<1>2. ASSUME NEW u \in Tasks, u # t PROVE TaskOk(u)'
  <2>1. /\ log'[u] = log[u] /\ formatErrors'[u] = formatErrors[u] /\ at'[u] = at[u]
        /\ attempt'[u] = attempt[u] /\ retry'[u] = retry[u] /\ got'[u] = got[u]
        /\ best'[u] = best[u] /\ found'[u] = found[u] /\ ending'[u] = ending[u]
    BY <1>1, <1>2 DEF OthersStay
  <2>2. TaskOk(u)
    BY DEF BenchmarkInv
  <2>. QED
    BY <2>1, <2>2, UntouchedKeep
<1>3. ASSUME NEW u \in Tasks PROVE TaskOk(u)'
  <2>1. CASE u = t
    BY <2>1, <1>1
  <2>2. CASE u # t
    BY <2>2, <1>2
  <2>. QED
    BY <2>1, <2>2
<1>. QED
  BY <1>1, <1>3 DEF BenchmarkInv

LEMMA BenchmarkKeeps == BenchmarkInv /\ [Next]_vars => BenchmarkInv'
<1>. SUFFICES ASSUME BenchmarkInv, [Next]_vars PROVE BenchmarkInv'
  OBVIOUS
<1>1. CASE \E t \in Tasks : TaskStep(t)
  BY <1>1, TaskStepKeeps
<1>2. CASE PoolBreaks
  <2>1. BenchmarkType' /\ \A t \in Tasks : TaskOk(t)'
    BY <1>2, PoolType, PoolBreaksKeeps
  <2>. QED
    BY <2>1 DEF BenchmarkInv
<1>3. CASE StartAgain
  <2>1. BenchmarkType' /\ \A t \in Tasks : TaskOk(t)'
    BY <1>3, PoolType, StartAgainKeeps
  <2>. QED
    BY <2>1 DEF BenchmarkInv
<1>4. CASE UNCHANGED vars
  <2>1. UNCHANGED <<log, formatErrors, at, attempt, retry, got, best, found, ending>>
    BY <1>4 DEF vars, files, process
  <2>2. ASSUME NEW t \in Tasks PROVE TaskOk(t)'
    BY <2>1, UntouchedKeep DEF BenchmarkInv
  <2>3. BenchmarkType'
    BY <2>1 DEF BenchmarkInv, BenchmarkType
  <2>. QED
    BY <2>2, <2>3 DEF BenchmarkInv
<1>. QED
  BY <1>1, <1>2, <1>3, <1>4 DEF Next, Finished

\* At every moment of every benchmark, however often it was broken off: no
\* attempt counted more answers without a format than it has repetitions behind
\* it, a log judged correct is the newest of its attempt, and a task that goes
\* on has none in an attempt behind it.
THEOREM BenchmarkInvariant == Spec => []BenchmarkInv
BY InitOk, BenchmarkKeeps, PTL DEF Spec

\* Starting again gives no attempt more repetitions (the repetitions of
\* run_single_task go on from the logs), for every limit and number of starts.
THEOREM RepetitionsBoundedAlways == Spec => []RepetitionsBounded
<1>1. BenchmarkInv => RepetitionsBounded
  <2>. SUFFICES ASSUME BenchmarkInv, NEW t \in Tasks, NEW a \in Attempts
                PROVE  formatErrors[t][a] <= Limit + 1
    BY DEF RepetitionsBounded
  <2>1. formatErrors[t][a] <= FollowingIn(log[t][a]) /\ formatErrors[t][a] \in Nat
    BY DEF BenchmarkInv, TaskOk, CountsOk, BenchmarkType
  <2>2. /\ FollowingIn(log[t][a]) \in Nat
        /\ FollowingIn(log[t][a]) <= Limit + 1
    BY FollowingFollows
  <2>. QED
    BY <2>1, <2>2, BenchmarkAssumption
<1>. QED
  BY <1>1, BenchmarkInvariant, PTL

\* A task once judged correct passes in every run that brings it to its end,
\* and one that passes reports the answer that was judged so.
THEOREM CorrectIsKeptAlways == Spec => []CorrectIsKept
<1>1. BenchmarkInv => CorrectIsKept
  <2>. SUFFICES ASSUME BenchmarkInv, NEW t \in Tasks
                PROVE  /\ ending[t] = "whole" /\ Proven(t) => t \in Passed
                       /\ t \in Passed =>
                            best[t].answer = "text" /\ best[t].attempt = attempt[t]
    BY DEF CorrectIsKept
  <2>1. /\ found[t] => best[t].answer = "text" /\ best[t].attempt = attempt[t]
        /\ ending[t] = "whole" => found[t] \/ \A x \in Attempts : NoCorrect(log[t][x])
    BY DEF BenchmarkInv, TaskOk, EndsOk
  <2>2. Proven(t) => ~ \A x \in Attempts : NoCorrect(log[t][x])
    BY DEF Proven, NoCorrect
  <2>. QED
    BY <2>1, <2>2 DEF Passed
<1>. QED
  BY <1>1, BenchmarkInvariant, PTL
=============================================================================
