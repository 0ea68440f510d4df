------------------------- MODULE ScheduleRunsProofs -------------------------
(***************************************************************************)
(* Theorems about ScheduleRuns: its types, that a run has one thread to     *)
(* deliver it, that nobody is queued two emails of a run, that its report   *)
(* is true, and that no schedule is left due by the threads that run it.    *)
(***************************************************************************)
EXTENDS ScheduleRuns, FiniteSetTheorems, WellFoundedInduction, TLAPS

\* A thread's record: well typed, with a run of the table in hand when it delivers, and
\* with nobody counted twice.
Good(f) ==
    /\ f \in WorkerState
    /\ f.at \notin {"idle", "sweep", "due"} => f.run \in Run
    /\ f.at = "sending" =>
        f.counts.queued + f.counts.skipped + Cardinality(f.left) <= f.counts.recipients

AllGood == \A w \in Worker : Good(worker[w])

\* What the invariants say of the threads is that every thread's record is good.
LEMMA GoodMeans ==
  worker \in [Worker -> WorkerState] /\ InHandIsRun /\ CountsFit
    <=> worker = [w \in Worker |-> worker[w]] /\ AllGood
BY DEF AllGood, Good, InHandIsRun, CountsFit, InHand

\* The people of a run, and whoever is left of them, are counted by a number.
LEMMA PeopleCount ==
  ASSUME NEW S \in SUBSET Person
  PROVE  /\ IsFiniteSet(S)
         /\ Cardinality(S) \in 0 .. People
         /\ \A p \in S : Cardinality(S \ {p}) = Cardinality(S) - 1
<1>1. IsFiniteSet(Person) /\ Cardinality(Person) = People
  BY ScheduleConstants, FS_Interval DEF Person
<1>2. IsFiniteSet(S) /\ Cardinality(S) <= People
  BY <1>1, FS_Subset
<1>3. Cardinality(S) \in Nat
  BY <1>2, FS_CardinalityType
<1>. QED
  BY <1>2, <1>3, FS_RemoveElement, ScheduleConstants

\* A thread that is idle, or whose pass begins.
LEMMA IdleIsGood ==
  /\ NoWorker \in WorkerState /\ Good(NoWorker)
  /\ \A t \in 0 .. LastTime, S \in SUBSET Run :
       Good([NoWorker EXCEPT !.at = "sweep", !.now = t, !.stale = S])
<1>1. NoWorker \in WorkerState
  BY ScheduleConstants DEF NoWorker, WorkerState, Counts, NoCounts
<1>2. ASSUME NEW t \in 0 .. LastTime, NEW S \in SUBSET Run
      PROVE  Good([NoWorker EXCEPT !.at = "sweep", !.now = t, !.stale = S])
  <2>. DEFINE f == [NoWorker EXCEPT !.at = "sweep", !.now = t, !.stale = S]
  <2>1. f \in WorkerState
    BY <1>1 DEF WorkerState
  <2>2. f.at = "sweep"
    BY <1>1 DEF WorkerState
  <2>. QED
    BY <2>1, <2>2 DEF Good
<1>3. NoWorker.at = "idle"
  BY DEF NoWorker
<1>. QED
  BY <1>1, <1>2, <1>3 DEF Good

\* A set of numbers that is not empty has a least one.
LEMMA Least ==
  ASSUME NEW T \in SUBSET Nat, T # {}
  PROVE  \E x \in T : \A y \in T : x <= y
<1>. DEFINE R == OpToRel(<, Nat)
<1>1. \A x, y \in Nat : x < y => <<x, y>> \in R
  BY DEF OpToRel
<1>2. IsWellFoundedOn(R, Nat)
  BY NatLessThanWellFounded
<1>. HIDE DEF R
<1>3. PICK x \in T : \A y \in T : ~ (<<y, x>> \in R)
  BY <1>2, WFMin
<1>4. \A y \in T : ~ (y < x)
  BY <1>1, <1>3
<1>. QED
  BY <1>4

\* A next time is a time of the clock after the one given, or Never.
LEMMA NextRunIsLater ==
  ASSUME NEW times \in SUBSET (1 .. LastTime), NEW t \in Nat
  PROVE  /\ NextRun(times, t) \in Moment
         /\ NextRun(times, t) # Never => NextRun(times, t) \in times /\ NextRun(times, t) > t
<1>. DEFINE T == {u \in times : u > t}
<1>0. LastTime \in Nat /\ \A u \in times : u \in 1 .. LastTime
  BY ScheduleConstants
<1>1. CASE T = {}
  BY <1>1, ScheduleConstants DEF NextRun, Moment, Never
<1>2. CASE T # {}
  <2>1. T \in SUBSET Nat
    <3>1. \A u \in 1 .. LastTime : u \in Nat
      BY <1>0
    <3>. QED
      BY <1>0, <3>1
  <2>2. PICK u \in T : \A v \in T : u <= v
    BY <1>2, <2>1, Least
  <2>3. \E x \in times : x > t /\ \A v \in times : v > t => x <= v
    BY <2>2
  <2>4. NextRun(times, t) \in times /\ NextRun(times, t) > t
    BY <2>2, <2>3 DEF NextRun
  <2>. DEFINE x == NextRun(times, t)
  <2>5. x \in 1 .. LastTime /\ x \in times /\ x > t
    BY <1>0, <2>4
  <2>. HIDE DEF x
  <2>6. x \in Moment
    BY <1>0, <2>5 DEF Moment, Never
  <2>. QED
    BY <2>5, <2>6 DEF x
<1>. QED
  BY <1>1, <1>2

-----------------------------------------------------------------------------
\* A thread whose record is replaced by a good one leaves the others as they were.
LEMMA Becomes ==
  ASSUME worker \in [Worker -> WorkerState], AllGood, NEW w \in Worker, NEW f, Good(f), Become(w, f)
  PROVE  /\ worker' \in [Worker -> WorkerState]
         /\ AllGood'
         /\ worker'[w] = f
         /\ \A v \in Worker \ {w} : worker'[v] = worker[v]
<1>1. f \in WorkerState
  BY DEF Good
<1>2. worker'[w] = f /\ \A v \in Worker \ {w} : worker'[v] = worker[v]
  BY DEF Become
<1>3. \A v \in Worker : Good(worker'[v])
  BY <1>2 DEF AllGood
<1>. QED
  BY <1>1, <1>2, <1>3 DEF Become, AllGood

\* A run is one of a schedule, due at a moment or pressed at a second.
LEMMA RunParts ==
  /\ \A s \in Schedule, d \in Moment : <<s, <<"scheduled", d>>>> \in Run
  /\ \A s \in Schedule, k \in Buttons, n \in 0 .. Presses : <<s, <<k, n>>>> \in Run
  /\ \A r \in Run : ScheduleOf(r) \in Schedule
BY DEF Run, ScheduleOf

\* What each step makes of the thread that takes it.
LEMMA StepWorkers ==
  ASSUME TypeOK, AllGood, [Next]_vars
  PROVE  worker' \in [Worker -> WorkerState] /\ AllGood'
<1>. DEFINE Goal == worker' \in [Worker -> WorkerState] /\ AllGood'
<1>1. /\ worker \in [Worker -> WorkerState]
      /\ \A w \in Worker : worker[w] \in WorkerState /\ Good(worker[w])
  BY DEF TypeOK, AllGood
<1>2. Scheduler \subseteq Worker /\ Request \subseteq Worker
  BY DEF Worker
<1>3. ASSUME UNCHANGED worker
      PROVE  Goal
  BY <1>1, <1>3 DEF AllGood
<1>4. ASSUME NEW w \in Scheduler, Sweep(w)
      PROVE  Goal
  <2>1. now \in 0 .. LastTime /\ late \in SUBSET Run
    BY DEF TypeOK
  <2>. QED
    BY <1>1, <1>2, <1>4, <2>1, IdleIsGood, Becomes DEF Sweep
<1>5. ASSUME NEW w \in Worker, TakeUp(w)
      PROVE  Goal
  <2>1. PICK r \in worker[w].stale :
          LET rest == [worker[w] EXCEPT !.stale = worker[w].stale \ {r}] IN
          Become(w, Delivering(rest, r, "sweep")) \/ Become(w, rest)
    BY <1>5 DEF TakeUp
  <2>. DEFINE rest == [worker[w] EXCEPT !.stale = worker[w].stale \ {r}]
  <2>2. r \in Run /\ worker[w].stale \ {r} \in SUBSET Run /\ worker[w].at = "sweep"
    BY <1>1, <1>5 DEF WorkerState, TakeUp
  <2>3. rest \in WorkerState /\ rest.at = "sweep"
    BY <1>1, <2>2 DEF WorkerState
  <2>4. Good(rest)
    BY <2>3 DEF Good
  <2>. HIDE DEF rest
  <2>5. Delivering(rest, r, "sweep") \in WorkerState
    BY <2>2, <2>3 DEF WorkerState, Delivering
  <2>6. Delivering(rest, r, "sweep").at = "deliver" /\ Delivering(rest, r, "sweep").run = r
    BY <2>3 DEF WorkerState, Delivering
  <2>7. Good(Delivering(rest, r, "sweep"))
    BY <2>2, <2>5, <2>6 DEF Good
  <2>. QED
    BY <1>1, <2>1, <2>4, <2>7, Becomes DEF rest
<1>6. ASSUME NEW w \in Worker, ReadDue(w)
      PROVE  Goal
  <2>. DEFINE rows == {[schedule |-> s, due |-> next[s], cadence |-> cadence[s]] :
                         s \in FirstDue(worker[w].now)}
              f == [worker[w] EXCEPT !.at = "due", !.rows = rows]
  <2>1. FirstDue(worker[w].now) \subseteq Schedule
    BY DEF FirstDue
  <2>2. rows \subseteq DueRow
    BY <2>1 DEF TypeOK, DueRow
  <2>. HIDE DEF rows
  <2>3. f \in WorkerState /\ f.at = "due"
    BY <1>1, <2>2 DEF WorkerState
  <2>4. Become(w, f)
    BY <1>6 DEF ReadDue, rows
  <2>. QED
    BY <1>1, <2>3, <2>4, Becomes DEF Good
<1>7. ASSUME NEW w \in Worker, ClaimDue(w)
      PROVE  Goal
  <2>1. PICK row \in worker[w].rows :
          \/ Become(w, [worker[w] EXCEPT !.at = "claimed",
                                         !.run = <<row.schedule, <<"scheduled", row.due>>>>])
          \/ Become(w, [worker[w] EXCEPT !.rows = worker[w].rows \ {row}])
    BY <1>7 DEF ClaimDue
  <2>. DEFINE r == <<row.schedule, <<"scheduled", row.due>>>>
              f == [worker[w] EXCEPT !.at = "claimed", !.run = r]
              g == [worker[w] EXCEPT !.rows = worker[w].rows \ {row}]
  <2>2. row \in DueRow /\ worker[w].rows \ {row} \subseteq DueRow /\ worker[w].at = "due"
    BY <1>1, <1>7 DEF WorkerState, ClaimDue
  <2>3. r \in Run
    BY <2>2, RunParts DEF DueRow
  <2>. HIDE DEF r
  <2>4. f \in WorkerState /\ f.at = "claimed" /\ f.run = r
    BY <1>1, <2>3 DEF WorkerState
  <2>5. g \in WorkerState /\ g.at = "due"
    BY <1>1, <2>2 DEF WorkerState
  <2>6. Good(f) /\ Good(g)
    BY <2>3, <2>4, <2>5 DEF Good
  <2>. QED
    BY <1>1, <2>1, <2>6, Becomes DEF r
<1>8. ASSUME NEW w \in Worker, Advance(w)
      PROVE  Goal
  <2>1. PICK row \in worker[w].rows :
          Become(w, [Delivering(worker[w], worker[w].run, "due") EXCEPT !.rows = worker[w].rows \ {row}])
    BY <1>8 DEF Advance
  <2>. DEFINE f == [Delivering(worker[w], worker[w].run, "due") EXCEPT !.rows = worker[w].rows \ {row}]
  <2>2. worker[w].run \in Run /\ worker[w].rows \ {row} \subseteq DueRow
    BY <1>1, <1>8 DEF WorkerState, Advance, Good
  <2>3. Delivering(worker[w], worker[w].run, "due") \in WorkerState
    BY <1>1, <2>2 DEF WorkerState, Delivering
  <2>4. /\ Delivering(worker[w], worker[w].run, "due").at = "deliver"
        /\ Delivering(worker[w], worker[w].run, "due").run = worker[w].run
    BY <1>1 DEF WorkerState, Delivering
  <2>5. f \in WorkerState /\ f.at = "deliver" /\ f.run = worker[w].run
    BY <2>2, <2>3, <2>4 DEF WorkerState
  <2>6. Good(f)
    BY <2>2, <2>5 DEF Good
  <2>. QED
    BY <1>1, <2>1, <2>6, Becomes
<1>9. ASSUME NEW w \in Worker, EndPass(w)
      PROVE  Goal
  BY <1>1, <1>9, IdleIsGood, Becomes DEF EndPass
<1>10. ASSUME NEW w \in Request, NEW s \in Schedule, NEW kind \in Buttons, SendNow(w, s, kind)
       PROVE  Goal
  <2>1. PICK second \in 1 .. Presses :
          UNCHANGED worker \/ Become(w, Delivering(NoWorker, <<s, <<kind, second>>>>, "due"))
    BY <1>10 DEF SendNow
  <2>. DEFINE r == <<s, <<kind, second>>>>
              f == Delivering(NoWorker, r, "due")
  <2>2. r \in Run
    BY RunParts, ScheduleConstants
  <2>. HIDE DEF r
  <2>3. f \in WorkerState /\ f.at = "deliver" /\ f.run = r
    BY <2>2, IdleIsGood DEF WorkerState, Delivering
  <2>4. Good(f)
    BY <2>2, <2>3 DEF Good
  <2>. QED
    BY <1>1, <1>2, <1>3, <2>1, <2>4, Becomes DEF r
<1>11. ASSUME NEW w \in Worker, CheckOwner(w)
       PROVE  Goal
  <2>. DEFINE f == [worker[w] EXCEPT !.at = "pausing"]
  <2>1. f \in WorkerState /\ f.at = "pausing" /\ f.run = worker[w].run /\ worker[w].run \in Run
    BY <1>1, <1>11 DEF WorkerState, CheckOwner, Good
  <2>2. CASE Become(w, f)
    BY <1>1, <2>1, <2>2, Becomes DEF Good
  <2>3. CASE ~ Become(w, f)
    <3>0. 1 \in Person
      BY ScheduleConstants DEF Person
    <3>1. Audience(worker[w].run) \subseteq SUBSET Person
      BY <3>0 DEF Audience, Owner
    <3>2. PICK S \in SUBSET Person :
            Become(w, [worker[w] EXCEPT !.at = "sending", !.left = S,
                                        !.counts = [NoCounts EXCEPT !.recipients = Cardinality(S)],
                                        !.failed = FALSE])
      BY <1>11, <2>3, <3>1 DEF CheckOwner
    <3>. DEFINE c == [NoCounts EXCEPT !.recipients = Cardinality(S)]
                g == [worker[w] EXCEPT !.at = "sending", !.left = S, !.counts = c, !.failed = FALSE]
    <3>3. c \in Counts /\ c.recipients = Cardinality(S) /\ c.queued = 0 /\ c.skipped = 0
      BY PeopleCount, ScheduleConstants DEF NoCounts, Counts
    <3>. HIDE DEF c
    <3>4. g \in WorkerState /\ g.at = "sending" /\ g.run = worker[w].run /\ g.counts = c /\ g.left = S
      BY <1>1, <3>3 DEF WorkerState
    <3>5. Cardinality(S) \in Nat
      BY PeopleCount, ScheduleConstants
    <3>6. Good(g)
      BY <2>1, <3>3, <3>4, <3>5 DEF Good
    <3>. QED
      BY <1>1, <3>2, <3>6, Becomes DEF c
  <2>. QED
    BY <2>2, <2>3
<1>12. ASSUME NEW w \in Worker, PauseSchedule(w)
       PROVE  Goal
  <2>. DEFINE f == [worker[w] EXCEPT !.at = "failing"]
  <2>1. f \in WorkerState /\ f.at = "failing" /\ f.run = worker[w].run /\ worker[w].run \in Run
    BY <1>1, <1>12 DEF WorkerState, PauseSchedule, Good
  <2>. QED
    BY <1>1, <1>12, <2>1, Becomes DEF Good, PauseSchedule
<1>13. ASSUME NEW w \in Worker, SendOne(w)
       PROVE  Goal
  <2>1. PICK p \in worker[w].left : Skip(w, p) \/ Fail(w, p) \/ Queue(w, p)
    BY <1>13 DEF SendOne
  <2>. DEFINE S == worker[w].left
              c == worker[w].counts
  <2>2. /\ S \in SUBSET Person /\ c \in Counts /\ worker[w].failed \in BOOLEAN
        /\ worker[w].at = "sending" /\ worker[w].run \in Run
        /\ c.queued + c.skipped + Cardinality(S) <= c.recipients
    BY <1>1, <1>13 DEF WorkerState, SendOne, Good
  <2>3. Cardinality(S) \in 0 .. People /\ Cardinality(S \ {p}) = Cardinality(S) - 1
    BY <2>2, PeopleCount
  <2>4. PICK tally \in {c, Skipped(c), Queued(c)}, fault \in BOOLEAN : Done(w, p, tally, fault)
    BY <2>1, <2>2 DEF Skip, Fail, Queue
  <2>5. Cardinality(S \ {p}) \in 0 .. People
    BY <2>2, PeopleCount, S \ {p} \in SUBSET Person
  <2>6. /\ tally \in Counts
        /\ tally.queued + tally.skipped + Cardinality(S \ {p}) <= tally.recipients
    BY <2>2, <2>3, <2>4, <2>5, ScheduleConstants DEF Counts, Skipped, Queued
  <2>. DEFINE f == [worker[w] EXCEPT !.left = S \ {p}, !.counts = tally, !.failed = fault]
  <2>7. /\ f \in WorkerState /\ f.at = "sending" /\ f.run = worker[w].run
        /\ f.counts = tally /\ f.left = S \ {p}
    BY <1>1, <2>2, <2>6 DEF WorkerState
  <2>8. Good(f)
    BY <2>2, <2>6, <2>7 DEF Good
  <2>. QED
    BY <1>1, <2>4, <2>8, Becomes DEF Done
<1>14. ASSUME NEW w \in Worker, FinishRun(w)
       PROVE  Goal
  <2>1. Become(w, Resumed(w))
    BY <1>14 DEF FinishRun
  <2>. DEFINE f == [worker[w] EXCEPT !.at = worker[w].back]
  <2>2. f \in WorkerState /\ f.at \in {"sweep", "due"}
    BY <1>1 DEF WorkerState
  <2>3. Good(f)
    BY <2>2 DEF Good
  <2>. QED
    BY <1>1, <2>1, <2>3, IdleIsGood, Becomes DEF Resumed
<1>15. ASSUME NEW w \in Worker, Raise(w)
       PROVE  Goal
  <2>. DEFINE f == [worker[w] EXCEPT !.at = "failing"]
  <2>1. f \in WorkerState /\ f.at = "failing" /\ f.run = worker[w].run /\ worker[w].run \in Run
    BY <1>1, <1>15 DEF WorkerState, Raise, Good
  <2>2. Good(f)
    BY <2>1 DEF Good
  <2>. QED
    BY <1>1, <1>15, <2>2, IdleIsGood, Becomes DEF Raise
<1>16. ASSUME NEW w \in Worker, Stops(w)
       PROVE  Goal
  BY <1>1, <1>16, IdleIsGood, Becomes DEF Stops
<1>. QED
  BY <1>3, <1>4, <1>5, <1>6, <1>7, <1>8, <1>9, <1>10, <1>11, <1>12, <1>13, <1>14, <1>15, <1>16
  DEF Next, Going, Tick, RunAges, Save, Pause, Resume, Delete, vars

-----------------------------------------------------------------------------
\* How a run ended is a status of its own, never "none".
LEMMA EndingType ==
  ASSUME NEW w \in Worker
  PROVE  Ending(w) \in RunStatus \ {"none", "running"}
BY DEF Ending, RunStatus

\* A run inserted, or its end written, keeps the table of runs a table of runs.
LEMMA RunTypes ==
  ASSUME TypeOK, NEW r \in Run
  PROVE  /\ InsertRun(r) => /\ status' \in [Run -> RunStatus]
                            /\ counts' \in [Run -> Counts]
                            /\ late' \subseteq Run
         /\ \A ending \in RunStatus, tally \in Counts :
              Finish(r, ending, tally) => /\ status' \in [Run -> RunStatus]
                                          /\ counts' \in [Run -> Counts]
                                          /\ late' \subseteq Run
<1>1. NoCounts \in Counts /\ "running" \in RunStatus
  BY ScheduleConstants DEF NoCounts, Counts, RunStatus
<1>. QED
  BY <1>1 DEF TypeOK, InsertRun, Finish, runVars

\* Every action keeps the types.
LEMMA StepTypes ==
  ASSUME TypeOK, AllGood, [Next]_vars
  PROVE  TypeOK'
<1>. USE ScheduleConstants
<1>1. worker' \in [Worker -> WorkerState]
  BY StepWorkers
<1>2. \A w \in Worker : worker[w] \in WorkerState /\ Good(worker[w])
  BY DEF TypeOK, AllGood
<1>3. ASSUME UNCHANGED <<now, scheduleVars, runVars, outbox, takenUp, astray, boundVars>>
      PROVE  TypeOK'
  BY <1>1, <1>3 DEF TypeOK, scheduleVars, runVars, boundVars
<1>4. ASSUME NEW w \in Worker, TakeUp(w)
      PROVE  TypeOK'
  <2>1. PICK r \in worker[w].stale :
          \/ late' = late \ {r} /\ takenUp' = takenUp \cup {r}
          \/ UNCHANGED <<late, takenUp>>
    BY <1>4 DEF TakeUp
  <2>2. r \in Run
    BY <1>2 DEF WorkerState
  <2>. QED
    BY <1>1, <1>4, <2>1, <2>2 DEF TypeOK, TakeUp, scheduleVars, boundVars
<1>5. ASSUME NEW w \in Worker, ClaimDue(w)
      PROVE  TypeOK'
  <2>1. PICK row \in worker[w].rows :
          InsertRun(<<row.schedule, <<"scheduled", row.due>>>>) \/ UNCHANGED runVars
    BY <1>5 DEF ClaimDue
  <2>2. <<row.schedule, <<"scheduled", row.due>>>> \in Run
    BY <1>2, RunParts DEF WorkerState, DueRow
  <2>3. status' \in [Run -> RunStatus] /\ counts' \in [Run -> Counts] /\ late' \subseteq Run
    BY <2>1, <2>2, RunTypes DEF TypeOK, runVars
  <2>. QED
    BY <1>1, <1>5, <2>3 DEF TypeOK, ClaimDue, scheduleVars, boundVars
<1>6. ASSUME NEW w \in Worker, Advance(w)
      PROVE  TypeOK'
  <2>1. PICK row \in worker[w].rows :
          /\ next' = IF life[row.schedule] = "live"
                     THEN [next EXCEPT ![row.schedule] = NextRun(row.cadence, Later(worker[w].now, row.due))]
                     ELSE next
          /\ astray' \in {astray, astray \cup {row.schedule}}
    BY <1>6 DEF Advance
  <2>2. row \in DueRow /\ worker[w].now \in Nat /\ row.due \in Nat
    BY <1>2 DEF WorkerState, DueRow, Moment, Never
  <2>3. NextRun(row.cadence, Later(worker[w].now, row.due)) \in Moment
    BY <2>2, NextRunIsLater DEF DueRow, Later
  <2>4. next' \in [Schedule -> Moment] /\ astray' \subseteq Schedule
    BY <2>1, <2>2, <2>3 DEF TypeOK, DueRow
  <2>. QED
    BY <1>1, <1>6, <2>4 DEF TypeOK, Advance, runVars, boundVars
<1>7. ASSUME NEW w \in Request, NEW s \in Schedule, NEW kind \in Buttons, SendNow(w, s, kind)
      PROVE  TypeOK'
  <2>1. PICK second \in 1 .. Presses :
          pressed' = second /\ (InsertRun(<<s, <<kind, second>>>>) \/ UNCHANGED runVars)
    BY <1>7 DEF SendNow
  <2>2. <<s, <<kind, second>>>> \in Run
    BY RunParts
  <2>3. status' \in [Run -> RunStatus] /\ counts' \in [Run -> Counts] /\ late' \subseteq Run
    BY <2>1, <2>2, RunTypes DEF TypeOK, runVars
  <2>. QED
    BY <1>1, <1>7, <2>1, <2>3 DEF TypeOK, SendNow, scheduleVars
<1>8. ASSUME NEW w \in Worker, PauseSchedule(w)
      PROVE  TypeOK'
  BY <1>1, <1>8 DEF TypeOK, PauseSchedule, runVars, boundVars
<1>9. ASSUME NEW w \in Worker, SendOne(w)
      PROVE  TypeOK'
  <2>1. PICK p \in worker[w].left : Skip(w, p) \/ Fail(w, p) \/ Queue(w, p)
    BY <1>9 DEF SendOne
  <2>2. p \in Person /\ worker[w].run \in Run
    BY <1>2, <1>9 DEF WorkerState, Good, SendOne
  <2>. DEFINE Kept == {"none", "queued", "skipped", "twice"}
              r == worker[w].run
  <2>3. outbox[r][p] \in Kept /\ outbox \in [Run -> [Person -> Kept]]
    BY <2>2 DEF TypeOK
  <2>4. UNCHANGED outbox \/ \E what \in Kept : Put(r, p, what)
    BY <2>1, <2>3 DEF Skip, Fail, Queue
  <2>5. outbox' \in [Run -> [Person -> Kept]]
    BY <2>2, <2>3, <2>4 DEF Put
  <2>. QED
    BY <1>1, <1>9, <2>5 DEF TypeOK, SendOne, scheduleVars, runVars, boundVars
<1>10. ASSUME NEW w \in Worker, FinishRun(w)
       PROVE  TypeOK'
  <2>1. worker[w].run \in Run /\ worker[w].counts \in Counts
    BY <1>2, <1>10 DEF WorkerState, Good, FinishRun
  <2>2. NoCounts \in Counts /\ "failed" \in RunStatus /\ Ending(w) \in RunStatus
    BY EndingType DEF NoCounts, Counts, RunStatus
  <2>3. status' \in [Run -> RunStatus] /\ counts' \in [Run -> Counts] /\ late' \subseteq Run
    BY <1>10, <2>1, <2>2, RunTypes DEF FinishRun
  <2>. QED
    BY <1>1, <1>10, <2>3 DEF TypeOK, FinishRun, scheduleVars, boundVars
<1>11. ASSUME NEW w \in Worker, Stops(w)
       PROVE  TypeOK'
  <2>1. worker[w].at = "claimed" => ScheduleOf(worker[w].run) \in Schedule
    BY <1>2, RunParts DEF Good
  <2>2. astray' \subseteq Schedule
    BY <1>11, <2>1 DEF TypeOK, Stops
  <2>. QED
    BY <1>1, <1>11, <2>2 DEF TypeOK, Stops, scheduleVars, runVars
<1>12. ASSUME NEW s \in Schedule, NEW times \in Cadences, Save(s, times)
       PROVE  TypeOK'
  <2>1. NextRun(times, now) \in Moment
    BY NextRunIsLater DEF TypeOK
  <2>. QED
    BY <1>1, <1>12, <2>1 DEF TypeOK, Save, Edits, runVars
<1>13. ASSUME NEW s \in Schedule, Pause(s)
       PROVE  TypeOK'
  BY <1>1, <1>13 DEF TypeOK, Pause, Edits, runVars
<1>14. ASSUME NEW s \in Schedule, Resume(s)
       PROVE  TypeOK'
  <2>1. NextRun(cadence[s], now) \in Moment
    BY NextRunIsLater DEF TypeOK
  <2>. QED
    BY <1>1, <1>14, <2>1 DEF TypeOK, Resume, Edits, runVars
<1>15. ASSUME NEW s \in Schedule, Delete(s)
       PROVE  TypeOK'
  <2>1. status' \in [Run -> RunStatus] /\ late' \subseteq Run
    BY <1>15 DEF TypeOK, Delete, RunStatus
  <2>. QED
    BY <1>1, <1>15, <2>1 DEF TypeOK, Delete, Edits
<1>16. ASSUME Tick
       PROVE  TypeOK'
  BY <1>1, <1>16 DEF TypeOK, Tick, scheduleVars, runVars, boundVars
<1>17. ASSUME NEW r \in Run, RunAges(r)
       PROVE  TypeOK'
  BY <1>1, <1>17 DEF TypeOK, RunAges, scheduleVars, boundVars
<1>. QED
  BY <1>3, <1>4, <1>5, <1>6, <1>7, <1>8, <1>9, <1>10, <1>11, <1>12, <1>13, <1>14, <1>15, <1>16, <1>17
  DEF Next, Going, Sweep, ReadDue, EndPass, CheckOwner, Raise, vars

-----------------------------------------------------------------------------
\* A step of a thread that takes nothing new in hand, under which no row goes, keeps one
\* thread to a run.
LEMMA HandsKeep ==
  ASSUME RowsInHand, OneDelivery, NEW w \in Worker, AllGood,
         \A v \in Worker \ {w} : worker'[v] = worker[v],
         InHand(w)' => InHand(w) /\ worker'[w].run = worker[w].run,
         UNCHANGED life, takenUp \subseteq takenUp',
         \A r \in Run : status[r] # "none" => status'[r] # "none"
  PROVE  RowsInHand' /\ OneDelivery'
<1>1. \A v \in Worker : InHand(v)' => InHand(v) /\ worker'[v].run = worker[v].run /\ worker[v].run \in Run
  BY DEF InHand, AllGood, Good
<1>2. RowsInHand'
  BY <1>1 DEF RowsInHand
<1>3. OneDelivery'
  BY <1>1 DEF OneDelivery, Working
<1>. QED
  BY <1>2, <1>3

\* So does a step that takes a run nobody has in hand: one whose row was not there, or one
\* that is taken up.
LEMMA HandsTake ==
  ASSUME RowsInHand, OneDelivery, AllGood, NEW w \in Worker, NEW r \in Run,
         \A v \in Worker \ {w} : worker'[v] = worker[v],
         worker'[w].run = r,
         UNCHANGED life, takenUp \subseteq takenUp',
         \A q \in Run : status[q] # "none" => status'[q] # "none",
         status'[r] # "none",
         status[r] = "none" \/ r \in takenUp'
  PROVE  RowsInHand' /\ OneDelivery'
<1>1. \A v \in Worker \ {w} : InHand(v)' => InHand(v) /\ worker'[v].run = worker[v].run /\ worker[v].run \in Run
  BY DEF InHand, AllGood, Good
<1>2. RowsInHand'
  BY <1>1 DEF RowsInHand
<1>3. ASSUME NEW q \in Run, NEW v \in Worker, NEW u \in Worker, Working(v, q)', Working(u, q)',
             q \notin takenUp', life'[ScheduleOf(q)] # "deleted"
      PROVE  v = u
  <2>1. CASE v # w /\ u # w
    BY <1>1, <1>3, <2>1 DEF OneDelivery, Working
  <2>2. CASE q = r
    <3>1. status[r] = "none"
      BY <1>3, <2>2
    <3>2. \A x \in Worker \ {w} : ~ Working(x, r)'
      BY <1>1, <1>3, <2>2, <3>1 DEF RowsInHand, Working
    <3>. QED
      BY <1>3, <2>2, <3>2
  <2>3. CASE q # r
    <3>1. v # w /\ u # w
      BY <1>3, <2>3 DEF Working
    <3>. QED
      BY <2>1, <3>1
  <2>. QED
    BY <2>2, <2>3
<1>4. OneDelivery'
  BY <1>3 DEF OneDelivery
<1>. QED
  BY <1>2, <1>4

\* Every step keeps one thread to a run, and its row under it.
LEMMA StepHands ==
  ASSUME TypeOK, AllGood, RowsInHand, OneDelivery, [Next]_vars
  PROVE  RowsInHand' /\ OneDelivery'
<1>. DEFINE Goal == RowsInHand' /\ OneDelivery'
<1>1. /\ worker \in [Worker -> WorkerState]
      /\ \A w \in Worker : worker[w] \in WorkerState /\ Good(worker[w])
  BY DEF TypeOK, AllGood
<1>2. Scheduler \subseteq Worker /\ Request \subseteq Worker
  BY DEF Worker
<1>3. \A w \in Worker, f \in WorkerState :
        Become(w, f) => worker'[w] = f /\ \A v \in Worker \ {w} : worker'[v] = worker[v]
  BY <1>1 DEF Become
<1>4. /\ NoWorker \in WorkerState /\ NoWorker.at = "idle"
      /\ worker' \in [Worker -> WorkerState]
  BY IdleIsGood, StepWorkers DEF NoWorker
<1>5. ASSUME NEW w \in Worker, NEW f, Become(w, f),
             f.at \in {"idle", "sweep", "due"} \/ (InHand(w) /\ f.run = worker[w].run),
             UNCHANGED <<life, status, takenUp>>
      PROVE  Goal
  <2>1. worker'[w] = f /\ \A v \in Worker \ {w} : worker'[v] = worker[v]
    BY <1>1, <1>5 DEF Become
  <2>. QED
    BY <1>5, <2>1, HandsKeep DEF InHand
<1>6. ASSUME UNCHANGED <<life, status, takenUp, worker>>
      PROVE  Goal
  BY <1>6 DEF RowsInHand, OneDelivery, InHand, Working
<1>7. ASSUME NEW w \in Scheduler, Sweep(w)
      PROVE  Goal
  <2>. DEFINE f == [NoWorker EXCEPT !.at = "sweep", !.now = now, !.stale = late]
  <2>1. f.at = "sweep"
    BY <1>4 DEF WorkerState
  <2>. QED
    BY <1>2, <1>5, <1>7, <2>1 DEF Sweep, scheduleVars, runVars
<1>8. ASSUME NEW w \in Worker, TakeUp(w)
      PROVE  Goal
  <2>1. PICK r \in worker[w].stale :
          LET rest == [worker[w] EXCEPT !.stale = worker[w].stale \ {r}] IN
          \/ /\ Restartable(r)
             /\ takenUp' = takenUp \cup {r}
             /\ Become(w, Delivering(rest, r, "sweep"))
          \/ /\ UNCHANGED takenUp
             /\ Become(w, rest)
    BY <1>8 DEF TakeUp
  <2>. DEFINE rest == [worker[w] EXCEPT !.stale = worker[w].stale \ {r}]
              f == Delivering(rest, r, "sweep")
  <2>2. r \in Run /\ worker[w].at = "sweep"
    BY <1>1, <1>8 DEF WorkerState, TakeUp
  <2>3. rest.at = "sweep"
    BY <1>1, <2>2 DEF WorkerState
  <2>4. UNCHANGED <<life, status>>
    BY <1>8 DEF TakeUp, scheduleVars
  <2>5. CASE UNCHANGED takenUp /\ Become(w, rest)
    BY <1>5, <2>3, <2>4, <2>5
  <2>6. CASE Restartable(r) /\ takenUp' = takenUp \cup {r} /\ Become(w, f)
    <3>1. f.run = r
      BY <1>1 DEF WorkerState, Delivering
    <3>2. worker'[w].run = r /\ \A v \in Worker \ {w} : worker'[v] = worker[v]
      BY <1>1, <2>6, <3>1 DEF Become
    <3>. QED
      BY <2>2, <2>4, <2>6, <3>2, HandsTake DEF Restartable
  <2>. QED
    BY <2>1, <2>5, <2>6
<1>9. ASSUME NEW w \in Worker, ReadDue(w)
      PROVE  Goal
  <2>1. PICK rows : Become(w, [worker[w] EXCEPT !.at = "due", !.rows = rows])
    BY <1>9 DEF ReadDue
  <2>. DEFINE f == [worker[w] EXCEPT !.at = "due", !.rows = rows]
  <2>2. f.at = "due"
    BY <1>1 DEF WorkerState
  <2>. QED
    BY <1>5, <1>9, <2>1, <2>2 DEF ReadDue, scheduleVars, runVars
<1>10. ASSUME NEW w \in Worker, ClaimDue(w)
       PROVE  Goal
  <2>1. PICK row \in worker[w].rows :
          LET r == <<row.schedule, <<"scheduled", row.due>>>> IN
          \/ ~Claimed(r) /\ InsertRun(r) /\ Become(w, [worker[w] EXCEPT !.at = "claimed", !.run = r])
          \/ Become(w, [worker[w] EXCEPT !.rows = worker[w].rows \ {row}]) /\ UNCHANGED runVars
    BY <1>10 DEF ClaimDue
  <2>. DEFINE r == <<row.schedule, <<"scheduled", row.due>>>>
              f == [worker[w] EXCEPT !.at = "claimed", !.run = r]
              g == [worker[w] EXCEPT !.rows = worker[w].rows \ {row}]
  <2>2. r \in Run /\ worker[w].at = "due"
    BY <1>1, <1>10, RunParts DEF WorkerState, DueRow, ClaimDue
  <2>. HIDE DEF r
  <2>3. f.run = r /\ g.at = "due"
    BY <1>1, <2>2 DEF WorkerState
  <2>4. UNCHANGED <<life, takenUp>>
    BY <1>10 DEF ClaimDue, scheduleVars
  <2>5. CASE ~Claimed(r) /\ InsertRun(r) /\ Become(w, f)
    <3>1. worker'[w].run = r /\ \A v \in Worker \ {w} : worker'[v] = worker[v]
      BY <1>1, <2>3, <2>5 DEF Become
    <3>2. status[r] = "none" /\ status'[r] = "running" /\ \A q \in Run \ {r} : status'[q] = status[q]
      BY <2>2, <2>5 DEF InsertRun, Claimed, TypeOK
    <3>. QED
      BY <2>2, <2>4, <3>1, <3>2, HandsTake
  <2>6. CASE Become(w, g) /\ UNCHANGED runVars
    BY <1>5, <2>3, <2>4, <2>6 DEF runVars
  <2>. QED
    BY <2>1, <2>5, <2>6 DEF r
<1>11. ASSUME NEW w \in Worker, Advance(w)
       PROVE  Goal
  <2>1. PICK row :
          Become(w, [Delivering(worker[w], worker[w].run, "due") EXCEPT !.rows = worker[w].rows \ {row}])
    BY <1>11 DEF Advance
  <2>. DEFINE f == [Delivering(worker[w], worker[w].run, "due") EXCEPT !.rows = worker[w].rows \ {row}]
  <2>2. f.run = worker[w].run /\ InHand(w)
    BY <1>1, <1>11 DEF WorkerState, Delivering, InHand, Advance
  <2>. QED
    BY <1>5, <1>11, <2>1, <2>2 DEF Advance, runVars
<1>12. ASSUME NEW w \in Worker, EndPass(w) \/ Stops(w)
       PROVE  Goal
  BY <1>4, <1>5, <1>12 DEF EndPass, Stops, scheduleVars, runVars
<1>13. ASSUME NEW w \in Request, NEW s \in Schedule, NEW kind \in Buttons, SendNow(w, s, kind)
       PROVE  Goal
  <2>1. PICK second \in 1 .. Presses :
          LET r == <<s, <<kind, second>>>> IN
          \/ ~Claimed(r) /\ InsertRun(r) /\ Become(w, Delivering(NoWorker, r, "due"))
          \/ UNCHANGED <<runVars, worker>>
    BY <1>13 DEF SendNow
  <2>. DEFINE r == <<s, <<kind, second>>>>
              f == Delivering(NoWorker, r, "due")
  <2>2. r \in Run
    BY RunParts, ScheduleConstants
  <2>. HIDE DEF r
  <2>3. f.run = r
    BY <1>4 DEF WorkerState, Delivering
  <2>4. UNCHANGED <<life, takenUp>>
    BY <1>13 DEF SendNow, scheduleVars
  <2>5. CASE ~Claimed(r) /\ InsertRun(r) /\ Become(w, f)
    <3>1. worker'[w].run = r /\ \A v \in Worker \ {w} : worker'[v] = worker[v]
      BY <1>1, <1>2, <2>3, <2>5 DEF Become
    <3>2. status[r] = "none" /\ status'[r] = "running" /\ \A q \in Run \ {r} : status'[q] = status[q]
      BY <2>2, <2>5 DEF InsertRun, Claimed, TypeOK
    <3>. QED
      BY <1>2, <2>2, <2>4, <3>1, <3>2, HandsTake
  <2>6. CASE UNCHANGED <<runVars, worker>>
    BY <1>6, <2>4, <2>6 DEF runVars
  <2>. QED
    BY <2>1, <2>5, <2>6 DEF r
<1>14. ASSUME NEW w \in Worker, CheckOwner(w)
       PROVE  Goal
  <2>1. PICK f : Become(w, f) /\ f.run = worker[w].run
    <3>1. [worker[w] EXCEPT !.at = "pausing"].run = worker[w].run
      BY <1>1 DEF WorkerState
    <3>2. \A S, c : [worker[w] EXCEPT !.at = "sending", !.left = S, !.counts = c,
                                      !.failed = FALSE].run = worker[w].run
      BY <1>1 DEF WorkerState
    <3>. QED
      BY <1>14, <3>1, <3>2 DEF CheckOwner
  <2>2. InHand(w)
    BY <1>14 DEF CheckOwner, InHand
  <2>. QED
    BY <1>5, <1>14, <2>1, <2>2 DEF CheckOwner, scheduleVars, runVars
<1>15. ASSUME NEW w \in Worker, PauseSchedule(w)
       PROVE  Goal
  <2>. DEFINE f == [worker[w] EXCEPT !.at = "failing"]
  <2>1. f.run = worker[w].run /\ InHand(w)
    BY <1>1, <1>15 DEF WorkerState, PauseSchedule, InHand
  <2>. QED
    BY <1>5, <1>15, <2>1 DEF PauseSchedule, runVars
<1>16. ASSUME NEW w \in Worker, SendOne(w)
       PROVE  Goal
  <2>1. PICK p, tally, fault : Done(w, p, tally, fault)
    BY <1>16 DEF SendOne, Skip, Fail, Queue
  <2>. DEFINE f == [worker[w] EXCEPT !.left = worker[w].left \ {p}, !.counts = tally, !.failed = fault]
  <2>2. f.run = worker[w].run /\ InHand(w)
    BY <1>1, <1>16 DEF WorkerState, SendOne, InHand
  <2>. QED
    BY <1>5, <1>16, <2>1, <2>2 DEF Done, SendOne, scheduleVars, runVars
<1>17. ASSUME NEW w \in Worker, FinishRun(w)
       PROVE  Goal
  <2>. DEFINE r == worker[w].run
  <2>1. PICK ending, tally : ending \in RunStatus \ {"none"} /\ Finish(r, ending, tally)
    BY <1>17, EndingType DEF FinishRun, RunStatus
  <2>2. \A q \in Run : status[q] # "none" => status'[q] # "none"
    BY <2>1 DEF Finish, runVars, TypeOK
  <2>. DEFINE f == [worker[w] EXCEPT !.at = worker[w].back]
  <2>3. f.at \in {"sweep", "due"}
    BY <1>1 DEF WorkerState
  <2>4. Resumed(w).at \in {"idle", "sweep", "due"}
    BY <1>4, <2>3 DEF Resumed
  <2>5. worker'[w] = Resumed(w) /\ \A v \in Worker \ {w} : worker'[v] = worker[v]
    BY <1>1, <1>17 DEF FinishRun, Become
  <2>6. UNCHANGED <<life, takenUp>>
    BY <1>17 DEF FinishRun, scheduleVars
  <2>7. ~ InHand(w)'
    BY <2>4, <2>5 DEF InHand
  <2>. QED
    BY <2>2, <2>5, <2>6, <2>7, HandsKeep
<1>18. ASSUME NEW w \in Worker, Raise(w)
       PROVE  Goal
  <2>. DEFINE f == [worker[w] EXCEPT !.at = "failing"]
  <2>1. f.run = worker[w].run /\ InHand(w)
    BY <1>1, <1>18 DEF WorkerState, Raise, InHand
  <2>. QED
    BY <1>4, <1>5, <1>18, <2>1 DEF Raise, scheduleVars, runVars
<1>19. ASSUME NEW s \in Schedule, NEW times \in Cadences, Save(s, times)
       PROVE  Goal
  <2>1. \A u \in Schedule : life'[u] = "deleted" <=> life[u] = "deleted"
    BY <1>19 DEF Save, TypeOK
  <2>2. UNCHANGED <<status, takenUp, worker>>
    BY <1>19 DEF Save, runVars
  <2>. QED
    BY <1>1, <2>1, <2>2, RunParts DEF RowsInHand, OneDelivery, InHand, Working, Good
<1>20. ASSUME NEW s \in Schedule, Delete(s)
       PROVE  Goal
  <2>1. /\ life'[s] = "deleted" /\ \A u \in Schedule \ {s} : life'[u] = life[u]
        /\ \A r \in Run : ScheduleOf(r) # s => status'[r] = status[r]
        /\ UNCHANGED <<takenUp, worker>>
    BY <1>20 DEF Delete, TypeOK
  <2>. QED
    BY <1>1, <2>1, RunParts DEF RowsInHand, OneDelivery, InHand, Working, Good
<1>. QED
  BY <1>6, <1>7, <1>8, <1>9, <1>10, <1>11, <1>12, <1>13, <1>14, <1>15, <1>16, <1>17, <1>18, <1>19, <1>20
  DEF Next, Going, Tick, RunAges, Pause, Resume, scheduleVars, runVars, vars

-----------------------------------------------------------------------------
\* Every step keeps everybody to one email of a run: the outbox is written by Queue only,
\* for a person whose email is not there, unless the run is a test.
LEMMA StepEmail ==
  ASSUME TypeOK, AllGood, OneEmailEach, [Next]_vars
  PROVE  OneEmailEach'
<1>1. CASE UNCHANGED outbox
  BY <1>1 DEF OneEmailEach
<1>2. ASSUME NEW w \in Worker, SendOne(w)
      PROVE  OneEmailEach'
  <2>1. PICK p \in worker[w].left : Skip(w, p) \/ Fail(w, p) \/ Queue(w, p)
    BY <1>2 DEF SendOne
  <2>2. CASE Skip(w, p) \/ Fail(w, p)
    BY <1>1, <2>2 DEF Skip, Fail
  <2>3. CASE Queue(w, p)
    <3>. DEFINE r == worker[w].run
    <3>1. r \in Run /\ p \in Person
      BY <1>2, <2>1 DEF SendOne, AllGood, Good, WorkerState
    <3>2. PICK what \in {"queued", "twice", "skipped", outbox[r][p]} :
            /\ ~ QueuedAlready(r, p)
            /\ Put(r, p, what)
            /\ outbox[r][p] = "none" => what # "twice"
      BY <2>3 DEF Queue
    <3>. HIDE DEF r
    <3>3. KindOf(r) # "test" => what # "twice"
      BY <3>2 DEF QueuedAlready
    <3>4. \A q \in Run, x \in Person :
            outbox'[q][x] = outbox[q][x] \/ (q = r /\ outbox'[q][x] = what)
      BY <3>1, <3>2 DEF Put, TypeOK
    <3>. QED
      BY <3>3, <3>4 DEF OneEmailEach
  <2>. QED
    BY <2>1, <2>2, <2>3
<1>. QED
  BY <1>1, <1>2
  DEF Next, Going, Sweep, TakeUp, ReadDue, ClaimDue, Advance, EndPass, SendNow, CheckOwner, PauseSchedule,
      FinishRun, Raise, Stops, RunAges, Pause, Resume, Delete, Save, Tick, vars

-----------------------------------------------------------------------------
(***************************************************************************)
(* What a run's report says.                                                *)
(***************************************************************************)

\* A thread on its way through a run's people has counted no more emails than were queued to
\* those it is done with, and, if none failed, everyone it is done with.
TallyTrue(w) ==
    worker[w].at = "sending" =>
        /\ worker[w].counts.queued <= Cardinality(Emailed(worker[w].run) \ worker[w].left)
        /\ ~ worker[w].failed =>
            worker[w].counts.queued + worker[w].counts.skipped + Cardinality(worker[w].left)
                = worker[w].counts.recipients

TalliesTrue == \A w \in Worker : TallyTrue(w)

\* Of two sets of people, one within the other has no more of them.
LEMMA FewerPeople ==
  ASSUME NEW S \in SUBSET Person, NEW T \in SUBSET Person, S \subseteq T
  PROVE  Cardinality(S) \in Nat /\ Cardinality(T) \in Nat /\ Cardinality(S) <= Cardinality(T)
<1>1. IsFiniteSet(S) /\ IsFiniteSet(T)
  BY PeopleCount
<1>. QED
  BY <1>1, FS_Subset, FS_CardinalityType

\* An email that is in the outbox stays there.
LEMMA EmailedGrows ==
  ASSUME TypeOK, AllGood, [Next]_vars
  PROVE  \A r \in Run : Emailed(r) \subseteq Emailed(r)'
<1>1. CASE UNCHANGED outbox
  BY <1>1 DEF Emailed
<1>2. ASSUME NEW w \in Worker, SendOne(w)
      PROVE  \A r \in Run : Emailed(r) \subseteq Emailed(r)'
  <2>1. PICK p \in worker[w].left : Skip(w, p) \/ Fail(w, p) \/ Queue(w, p)
    BY <1>2 DEF SendOne
  <2>2. CASE Skip(w, p) \/ Fail(w, p)
    BY <1>1, <2>2 DEF Skip, Fail
  <2>3. CASE Queue(w, p)
    <3>. DEFINE q == worker[w].run
    <3>1. q \in Run /\ p \in Person
      BY <1>2, <2>1 DEF SendOne, AllGood, Good, WorkerState
    <3>2. PICK what :
            /\ Put(q, p, what)
            /\ outbox[q][p] \in {"queued", "twice"} => what \in {"queued", "twice"}
      BY <2>3 DEF Queue
    <3>. HIDE DEF q
    <3>3. \A r \in Run, x \in Person :
            outbox'[r][x] = outbox[r][x] \/ (r = q /\ x = p /\ outbox'[r][x] = what)
      BY <3>1, <3>2 DEF Put, TypeOK
    <3>. QED
      BY <3>2, <3>3 DEF Emailed
  <2>. QED
    BY <2>1, <2>2, <2>3
<1>. QED
  BY <1>1, <1>2
  DEF Next, Going, Sweep, TakeUp, ReadDue, ClaimDue, Advance, EndPass, SendNow, CheckOwner, PauseSchedule,
      FinishRun, Raise, Stops, RunAges, Pause, Resume, Delete, Save, Tick, vars

\* Only CheckOwner and SendOne leave a thread among a run's people with another tally.
LEMMA SendingBy ==
  ASSUME TypeOK, AllGood, [Next]_vars, NEW v \in Worker, worker'[v].at = "sending"
  PROVE  worker'[v] = worker[v] \/ CheckOwner(v) \/ SendOne(v)
<1>. DEFINE Goal == worker'[v] = worker[v] \/ CheckOwner(v) \/ SendOne(v)
<1>1. /\ worker \in [Worker -> WorkerState]
      /\ \A w \in Worker : worker[w] \in WorkerState
      /\ Scheduler \subseteq Worker /\ Request \subseteq Worker
  BY DEF TypeOK, Worker
<1>2. CASE UNCHANGED worker
  BY <1>2
<1>3. ASSUME NEW w \in Worker, NEW x, Become(w, x), x.at # "sending"
      PROVE  Goal
  BY <1>1, <1>3 DEF Become
<1>4. NoWorker.at # "sending"
  BY DEF NoWorker
<1>5. ASSUME NEW w \in Worker, Sweep(w) \/ EndPass(w) \/ Stops(w)
      PROVE  Goal
  BY <1>1, <1>3, <1>4, <1>5 DEF Sweep, EndPass, Stops, NoWorker
<1>6. ASSUME NEW w \in Worker, TakeUp(w)
      PROVE  Goal
  <2>1. PICK r \in worker[w].stale :
          LET rest == [worker[w] EXCEPT !.stale = worker[w].stale \ {r}] IN
          Become(w, Delivering(rest, r, "sweep")) \/ Become(w, rest)
    BY <1>6 DEF TakeUp
  <2>. DEFINE rest == [worker[w] EXCEPT !.stale = worker[w].stale \ {r}]
  <2>2. rest.at # "sending" /\ Delivering(rest, r, "sweep").at # "sending"
    BY <1>1, <1>6 DEF TakeUp, WorkerState, Delivering
  <2>. QED
    BY <1>3, <2>1, <2>2
<1>7. ASSUME NEW w \in Worker, ReadDue(w)
      PROVE  Goal
  <2>1. PICK S : Become(w, [worker[w] EXCEPT !.at = "due", !.rows = S])
    BY <1>7 DEF ReadDue
  <2>2. [worker[w] EXCEPT !.at = "due", !.rows = S].at # "sending"
    BY <1>1 DEF WorkerState
  <2>. QED
    BY <1>3, <2>1, <2>2
<1>8. ASSUME NEW w \in Worker, ClaimDue(w)
      PROVE  Goal
  <2>1. PICK r, S : \/ Become(w, [worker[w] EXCEPT !.at = "claimed", !.run = r])
                    \/ Become(w, [worker[w] EXCEPT !.rows = S])
    BY <1>8 DEF ClaimDue
  <2>2. /\ [worker[w] EXCEPT !.at = "claimed", !.run = r].at # "sending"
        /\ [worker[w] EXCEPT !.rows = S].at # "sending"
    BY <1>1, <1>8 DEF ClaimDue, WorkerState
  <2>. QED
    BY <1>3, <2>1, <2>2
<1>9. ASSUME NEW w \in Worker, Advance(w)
      PROVE  Goal
  <2>1. PICK S : Become(w, [Delivering(worker[w], worker[w].run, "due") EXCEPT !.rows = S])
    BY <1>9 DEF Advance
  <2>2. [Delivering(worker[w], worker[w].run, "due") EXCEPT !.rows = S].at # "sending"
    BY <1>1 DEF WorkerState, Delivering
  <2>. QED
    BY <1>3, <2>1, <2>2
<1>10. ASSUME NEW w \in Request, NEW s \in Schedule, NEW kind \in Buttons, SendNow(w, s, kind)
       PROVE  Goal
  <2>1. PICK r : Become(w, Delivering(NoWorker, r, "due")) \/ UNCHANGED worker
    BY <1>10 DEF SendNow
  <2>2. Delivering(NoWorker, r, "due").at # "sending"
    BY DEF NoWorker, Delivering
  <2>. QED
    BY <1>1, <1>2, <1>3, <2>1, <2>2
<1>11. ASSUME NEW w \in Worker, PauseSchedule(w) \/ Raise(w)
       PROVE  Goal
  <2>1. [worker[w] EXCEPT !.at = "failing"].at # "sending"
    BY <1>1 DEF WorkerState
  <2>. QED
    BY <1>3, <1>4, <1>11, <2>1 DEF PauseSchedule, Raise
<1>12. ASSUME NEW w \in Worker, FinishRun(w)
       PROVE  Goal
  <2>1. [worker[w] EXCEPT !.at = worker[w].back].at # "sending"
    BY <1>1 DEF WorkerState
  <2>. QED
    BY <1>3, <1>4, <1>12, <2>1 DEF FinishRun, Resumed
<1>13. ASSUME NEW w \in Worker, CheckOwner(w) \/ SendOne(w)
       PROVE  Goal
  <2>1. w = v \/ worker'[v] = worker[v]
    BY <1>1, <1>13 DEF CheckOwner, SendOne, Skip, Fail, Queue, Done, Become
  <2>. QED
    BY <1>13, <2>1
<1>. QED
  BY <1>1, <1>2, <1>5, <1>6, <1>7, <1>8, <1>9, <1>10, <1>11, <1>12, <1>13
  DEF Next, Going, Tick, RunAges, Save, Pause, Resume, Delete, vars

\* Every step keeps the tallies true.
LEMMA StepTallies ==
  ASSUME TypeOK, AllGood, TalliesTrue, [Next]_vars
  PROVE  TalliesTrue'
<1>. SUFFICES ASSUME NEW v \in Worker, worker'[v].at = "sending"
              PROVE  TallyTrue(v)'
  BY DEF TalliesTrue, TallyTrue
<1>1. /\ worker \in [Worker -> WorkerState] /\ worker[v] \in WorkerState /\ Good(worker[v])
      /\ \A r \in Run : Emailed(r) \subseteq Emailed(r)' /\ Emailed(r)' \subseteq Person
  BY EmailedGrows DEF TypeOK, AllGood, Emailed
<1>2. CASE worker'[v] = worker[v]
  <2>. DEFINE S == worker[v].left
  <2>1. worker[v].run \in Run /\ TallyTrue(v) /\ worker[v].at = "sending" /\ worker[v].counts \in Counts
    BY <1>1, <1>2 DEF Good, TalliesTrue, WorkerState
  <2>0. PICK r \in Run : r = worker[v].run
    BY <2>1
  <2>2. /\ Cardinality(Emailed(r) \ S) <= Cardinality(Emailed(r)' \ S)
        /\ Cardinality(Emailed(r) \ S) \in Nat /\ Cardinality(Emailed(r)' \ S) \in Nat
    <3>1. /\ Emailed(r) \ S \in SUBSET Person /\ Emailed(r)' \ S \in SUBSET Person
          /\ Emailed(r) \ S \subseteq Emailed(r)' \ S
      BY <1>1, <2>1
    <3>. QED
      BY <3>1, FewerPeople
  <2>3. worker[v].counts.queued \in Nat
    BY <2>1, ScheduleConstants DEF Counts
  <2>4. worker[v].counts.queued <= Cardinality(Emailed(r) \ S)
    BY <2>0, <2>1 DEF TallyTrue
  <2>5. worker[v].counts.queued <= Cardinality(Emailed(r)' \ S)
    BY <2>2, <2>3, <2>4
  <2>. QED
    BY <1>2, <2>0, <2>1, <2>5 DEF TallyTrue, Emailed
<1>3. CASE CheckOwner(v)
  <2>1. PICK S \in SUBSET Person :
          worker'[v] = [worker[v] EXCEPT !.at = "sending", !.left = S,
                                         !.counts = [NoCounts EXCEPT !.recipients = Cardinality(S)],
                                         !.failed = FALSE]
    <3>0. 1 \in Person
      BY ScheduleConstants DEF Person
    <3>1. Audience(worker[v].run) \subseteq SUBSET Person
      BY <3>0 DEF Audience, Owner
    <3>2. [worker[v] EXCEPT !.at = "pausing"].at # "sending"
      BY <1>1 DEF WorkerState
    <3>. QED
      BY <1>1, <1>3, <3>1, <3>2 DEF CheckOwner, Become
  <2>. DEFINE c == [NoCounts EXCEPT !.recipients = Cardinality(S)]
  <2>2. c.recipients = Cardinality(S) /\ c.queued = 0 /\ c.skipped = 0 /\ Cardinality(S) \in Nat
    BY PeopleCount, ScheduleConstants DEF NoCounts
  <2>. HIDE DEF c
  <2>3. worker'[v].left = S /\ worker'[v].counts = c /\ worker'[v].run = worker[v].run
    BY <1>1, <2>1 DEF WorkerState, c
  <2>4. PICK r \in Run : r = worker[v].run
    BY <1>1, <1>3 DEF CheckOwner, Good
  <2>5. Cardinality(Emailed(r)' \ S) \in Nat
    <3>1. Emailed(r)' \ S \in SUBSET Person
      BY <1>1, <2>4
    <3>. QED
      BY <3>1, FewerPeople
  <2>. QED
    BY <2>2, <2>3, <2>4, <2>5 DEF TallyTrue, Emailed
<1>4. CASE SendOne(v)
  <2>1. PICK p \in worker[v].left : Skip(v, p) \/ Fail(v, p) \/ Queue(v, p)
    BY <1>4 DEF SendOne
  <2>. DEFINE S == worker[v].left
              c == worker[v].counts
  <2>0. PICK r \in Run : r = worker[v].run
    BY <1>1, <1>4 DEF SendOne, Good
  <2>2. /\ S \in SUBSET Person /\ c \in Counts /\ worker[v].failed \in BOOLEAN
        /\ worker[v].at = "sending" /\ r \in Run /\ p \in Person
        /\ c.queued <= Cardinality(Emailed(r) \ S)
        /\ ~ worker[v].failed => c.queued + c.skipped + Cardinality(S) = c.recipients
    BY <1>1, <1>4, <2>0, <2>1 DEF WorkerState, SendOne, Good, TalliesTrue, TallyTrue
  <2>3. PICK tally \in {c, Skipped(c), Queued(c)}, fault \in BOOLEAN :
          /\ Done(v, p, tally, fault)
          /\ tally = c => fault
          /\ ~ fault => ~ worker[v].failed
          /\ tally = Queued(c) => p \in Emailed(r)'
    <3>1. CASE Skip(v, p)
      <4>1. Skipped(c) # c /\ Skipped(c) # Queued(c)
        BY <2>2, ScheduleConstants DEF Skipped, Queued, Counts
      <4>. QED
        BY <2>2, <3>1, <4>1 DEF Skip
    <3>2. CASE Fail(v, p)
      <4>1. c # Queued(c)
        BY <2>2, ScheduleConstants DEF Queued, Counts
      <4>. QED
        BY <3>2, <4>1 DEF Fail
    <3>3. CASE Queue(v, p)
      <4>1. Skipped(c) # c /\ Skipped(c) # Queued(c) /\ c # Queued(c)
        BY <2>2, ScheduleConstants DEF Skipped, Queued, Counts
      <4>2. \/ Done(v, p, Skipped(c), worker[v].failed)
            \/ Done(v, p, Queued(c), worker[v].failed) /\ \E w \in {"queued", "twice"} : Put(r, p, w)
        BY <2>0, <3>3 DEF Queue
      <4>3. ASSUME NEW w \in {"queued", "twice"}, Put(r, p, w) PROVE p \in Emailed(r)'
        BY <2>2, <4>3 DEF Put, Emailed, TypeOK
      <4>. QED
        BY <2>2, <4>1, <4>2, <4>3
    <3>. QED
      BY <2>1, <3>1, <3>2, <3>3
  <2>4. /\ worker'[v].left = S \ {p} /\ worker'[v].counts = tally /\ worker'[v].failed = fault
        /\ worker'[v].run = r
    BY <1>1, <2>0, <2>3 DEF Done, Become, WorkerState
  <2>. HIDE DEF c, S
  <2>5. Cardinality(S) \in Nat /\ Cardinality(S \ {p}) = Cardinality(S) - 1
    BY <2>1, <2>2, PeopleCount, ScheduleConstants DEF S
  <2>6. /\ tally.recipients = c.recipients /\ tally.queued \in Nat /\ tally.skipped \in Nat
        /\ c.queued \in Nat /\ c.skipped \in Nat /\ c.recipients \in Nat
        /\ tally = c \/ tally.queued + tally.skipped = c.queued + c.skipped + 1
    BY <2>2, <2>3, ScheduleConstants DEF Counts, Skipped, Queued
  <2>7. ~ fault => tally.queued + tally.skipped + Cardinality(S \ {p}) = tally.recipients
    BY <2>2, <2>3, <2>5, <2>6
  <2>8. tally.queued <= Cardinality(Emailed(r)' \ (S \ {p}))
    <3>. DEFINE A == Emailed(r) \ S
                B == Emailed(r)' \ (S \ {p})
    <3>1. A \in SUBSET Person /\ B \in SUBSET Person /\ A \subseteq B /\ p \notin A
      BY <1>1, <2>1, <2>2 DEF S
    <3>2. Cardinality(A) \in Nat /\ Cardinality(B) \in Nat /\ Cardinality(A) <= Cardinality(B)
      BY <3>1, FewerPeople
    <3>3. CASE tally # Queued(c)
      <4>1. tally.queued = c.queued
        BY <2>2, <2>3, <3>3 DEF Skipped, Counts
      <4>. QED
        BY <2>2, <2>6, <3>2, <4>1
    <3>4. CASE tally = Queued(c)
      <4>1. tally.queued = c.queued + 1
        BY <2>2, <3>4 DEF Queued, Counts
      <4>2. A \subseteq B \ {p} /\ p \in B /\ B \ {p} \in SUBSET Person
        BY <2>1, <2>3, <3>1, <3>4
      <4>3. Cardinality(A) <= Cardinality(B \ {p}) /\ Cardinality(B \ {p}) \in Nat
        BY <3>1, <4>2, FewerPeople
      <4>4. Cardinality(B \ {p}) = Cardinality(B) - 1
        BY <3>1, <4>2, PeopleCount
      <4>. HIDE DEF A, B
      <4>5. c.queued <= Cardinality(A)
        BY <2>2 DEF A
      <4>6. tally.queued <= Cardinality(B)
        BY <2>6, <3>2, <4>1, <4>3, <4>4, <4>5
      <4>. QED
        BY <4>6 DEF B
    <3>. QED
      BY <3>3, <3>4
  <2>. QED
    BY <2>4, <2>7, <2>8 DEF TallyTrue, Emailed
<1>. QED
  BY <1>2, <1>3, <1>4, SendingBy

\* A report is written when a run is claimed, empty, and when it is finished, from the tally.
LEMMA StepReports ==
  ASSUME TypeOK, AllGood, TalliesTrue, ReportTrue, [Next]_vars
  PROVE  ReportTrue'
<1>. DEFINE Fit(r, tally) ==
            tally.queued <= Cardinality(Emailed(r)')
            Full(tally) == tally.queued = tally.recipients /\ tally.recipients > 0
<1>1. \A r \in Run : Emailed(r) \in SUBSET Person /\ Emailed(r)' \in SUBSET Person
                     /\ Emailed(r) \subseteq Emailed(r)'
  BY EmailedGrows DEF Emailed
<1>2. \A r \in Run : /\ Cardinality(Emailed(r)) \in Nat /\ Cardinality(Emailed(r)') \in Nat
                     /\ Cardinality(Emailed(r)) <= Cardinality(Emailed(r)')
  BY <1>1, FewerPeople
<1>3. ASSUME NEW r \in Run, status[r] # "none"
      PROVE  Fit(r, counts[r]) /\ (status[r] = "sent" => Full(counts[r]))
  <2>1. counts[r].queued \in Nat /\ counts[r].queued <= Cardinality(Emailed(r))
    BY <1>3, ScheduleConstants DEF ReportTrue, TypeOK, Counts
  <2>2. counts[r].queued <= Cardinality(Emailed(r)')
    BY <1>2, <2>1
  <2>. QED
    BY <1>3, <2>2 DEF ReportTrue
<1>4. ASSUME \A r \in Run : status'[r] = "none" \/ (status'[r] = status[r] /\ counts'[r] = counts[r])
      PROVE  ReportTrue'
  BY <1>3, <1>4 DEF ReportTrue, Emailed
<1>5. ASSUME NEW q \in Run, NEW ending, NEW tally \in Counts,
             status' = [status EXCEPT ![q] = ending], counts' = [counts EXCEPT ![q] = tally],
             Fit(q, tally), ending = "sent" => Full(tally)
      PROVE  ReportTrue'
  <2>1. \A r \in Run \ {q} : status'[r] = status[r] /\ counts'[r] = counts[r]
    BY <1>5 DEF TypeOK
  <2>2. status'[q] = ending /\ counts'[q] = tally
    BY <1>5 DEF TypeOK
  <2>. QED
    BY <1>3, <1>5, <2>1, <2>2 DEF ReportTrue, Emailed
<1>6. NoCounts \in Counts /\ \A r \in Run : Fit(r, NoCounts)
  BY <1>2, ScheduleConstants DEF Counts, NoCounts
<1>7. ASSUME NEW w \in Worker, ClaimDue(w)
      PROVE  ReportTrue'
  <2>1. PICK row \in worker[w].rows :
          InsertRun(<<row.schedule, <<"scheduled", row.due>>>>) \/ UNCHANGED runVars
    BY <1>7 DEF ClaimDue
  <2>2. <<row.schedule, <<"scheduled", row.due>>>> \in Run
    BY RunParts DEF AllGood, Good, WorkerState, DueRow
  <2>. QED
    BY <1>4, <1>5, <1>6, <2>1, <2>2 DEF InsertRun, runVars
<1>8. ASSUME NEW w \in Request, NEW s \in Schedule, NEW kind \in Buttons, SendNow(w, s, kind)
      PROVE  ReportTrue'
  <2>1. PICK second \in 1 .. Presses : InsertRun(<<s, <<kind, second>>>>) \/ UNCHANGED runVars
    BY <1>8 DEF SendNow
  <2>2. <<s, <<kind, second>>>> \in Run
    BY RunParts, ScheduleConstants
  <2>. QED
    BY <1>4, <1>5, <1>6, <2>1, <2>2 DEF InsertRun, runVars
<1>9. ASSUME NEW w \in Worker, FinishRun(w)
      PROVE  ReportTrue'
  <2>. DEFINE c == worker[w].counts
  <2>1. worker[w].run \in Run /\ worker[w] \in WorkerState /\ c \in Counts /\ worker[w].left \in SUBSET Person
    BY <1>9 DEF FinishRun, AllGood, Good, WorkerState
  <2>0. PICK q \in Run : q = worker[w].run
    BY <2>1
  <2>2. CASE worker[w].at = "sending" /\ worker[w].left = {} /\ Finish(q, Ending(w), c)
    <3>1. Cardinality(worker[w].left) = 0
      BY <2>2, FS_EmptySet
    <3>2. c.queued <= Cardinality(Emailed(q) \ worker[w].left)
      BY <2>0, <2>2 DEF TalliesTrue, TallyTrue
    <3>3. Emailed(q) \ worker[w].left = Emailed(q)
      BY <2>2
    <3>4. c.queued \in Nat /\ c.skipped \in Nat /\ c.recipients \in Nat
      BY <2>1, ScheduleConstants DEF Counts
    <3>5. Fit(q, c)
      BY <1>2, <2>1, <3>2, <3>3, <3>4
    <3>6. Ending(w) = "sent" => Full(c)
      <4>1. ~ worker[w].failed => c.queued + c.skipped + Cardinality(worker[w].left) = c.recipients
        BY <2>2 DEF TalliesTrue, TallyTrue
      <4>2. Ending(w) = "sent" => c.recipients # 0 /\ c.skipped = 0 /\ ~ worker[w].failed
        BY DEF Ending
      <4>. QED
        BY <3>1, <3>4, <4>1, <4>2
    <3>. QED
      BY <1>4, <1>5, <2>1, <2>2, <3>5, <3>6 DEF Finish, runVars
  <2>3. CASE Finish(q, "failed", NoCounts)
    BY <1>4, <1>5, <1>6, <2>1, <2>3 DEF Finish, runVars
  <2>. QED
    BY <1>9, <2>0, <2>2, <2>3 DEF FinishRun
<1>10. ASSUME NEW s \in Schedule, Delete(s)
       PROVE  ReportTrue'
  BY <1>4, <1>10 DEF Delete, TypeOK
<1>11. CASE UNCHANGED <<status, counts>>
  BY <1>4, <1>11
<1>. QED
  BY <1>7, <1>8, <1>9, <1>10, <1>11
  DEF Next, Going, Sweep, TakeUp, ReadDue, Advance, EndPass, CheckOwner, PauseSchedule, SendOne,
      Raise, Stops, RunAges, Pause, Resume, Save, Tick, runVars, vars

-----------------------------------------------------------------------------
(***************************************************************************)
(* NeverLeftDue: a time that is claimed has come, and unless its schedule   *)
(* went astray it is not after the schedule's next time; nor is the time of *)
(* a row that a pass has read.  A thread that claimed a time moves the      *)
(* schedule past it.                                                        *)
(***************************************************************************)

ClaimOf(s, t) == <<s, <<"scheduled", t>>>>

\* The schedule's next time is not before t.
MovedOn(s, t) == life[s] = "live" /\ s \notin astray => t <= next[s]

RowsAreOld ==
    \A w \in Worker :
        /\ worker[w].now <= now
        /\ \A row \in worker[w].rows :
              row.due <= worker[w].now /\ life[row.schedule] # "unmade" /\ MovedOn(row.schedule, row.due)

ClaimsAreOld ==
    \A s \in Schedule, t \in Moment :
        Claimed(ClaimOf(s, t)) => t <= now /\ life[s] # "unmade" /\ MovedOn(s, t)

ClaimedIsFirst ==
    \A w \in Worker :
        worker[w].at = "claimed" =>
            \E row \in worker[w].rows : IsFirst(w, row) /\ worker[w].run = ClaimOf(row.schedule, row.due)

TimesInOrder ==
    /\ RowsAreOld
    /\ ClaimsAreOld
    /\ ClaimedIsFirst
    /\ NeverLeftDue

\* At first there is no schedule, and no row is in hand.
LEMMA TimesBegin == Init => TimesInOrder
<1>. SUFFICES ASSUME Init PROVE TimesInOrder
  OBVIOUS
<1>1. \A s \in Schedule, t \in Moment : ClaimOf(s, t) \in Run
  BY RunParts DEF ClaimOf
<1>2. \A w \in Worker : worker[w].at = "idle" /\ worker[w].rows = {} /\ worker[w].now = 0
  BY DEF Init, NoWorker
<1>3. RowsAreOld /\ ClaimedIsFirst
  BY <1>2 DEF Init, RowsAreOld, ClaimedIsFirst
<1>4. ClaimsAreOld
  BY <1>1 DEF Init, ClaimsAreOld, Claimed
<1>5. NeverLeftDue
  BY DEF Init, NeverLeftDue
<1>. QED
  BY <1>3, <1>4, <1>5 DEF TimesInOrder

\* A thread that neither claims, advances nor reads new rows leaves the times in order.
LEMMA TimesLeft ==
  ASSUME TypeOK, TimesInOrder, NEW w \in Worker,
         UNCHANGED <<now, life, next, astray>>,
         \A s \in Schedule, t \in Moment : Claimed(ClaimOf(s, t))' => Claimed(ClaimOf(s, t)),
         \A v \in Worker \ {w} : worker'[v] = worker[v],
         worker[w].at # "claimed", worker'[w].at # "claimed", worker'[w].now <= now,
         \A row \in worker'[w].rows : row \in worker[w].rows /\ worker'[w].now = worker[w].now
  PROVE  TimesInOrder'
<1>1. \A v \in Worker : worker'[v].at = "claimed" <=> worker[v].at = "claimed"
  OBVIOUS
<1>2. \A v \in Worker : worker'[v].at = "claimed" => worker'[v] = worker[v]
  OBVIOUS
<1>3. RowsAreOld'
  BY DEF TimesInOrder, RowsAreOld, MovedOn
<1>4. ClaimsAreOld'
  BY DEF TimesInOrder, ClaimsAreOld, MovedOn
<1>5. ClaimedIsFirst'
  BY <1>1, <1>2 DEF TimesInOrder, ClaimedIsFirst, IsFirst
<1>6. NeverLeftDue'
  <2>. SUFFICES ASSUME NEW s \in Schedule, life[s] = "live", Claimed(Due(s))', s \notin astray
                PROVE  \E v \in Worker : worker'[v].at = "claimed" /\ worker'[v].run = Due(s)
    BY DEF NeverLeftDue, Due
  <2>1. Claimed(Due(s))
    BY DEF TypeOK, Due, ClaimOf
  <2>. QED
    BY <1>1, <1>2, <2>1 DEF TimesInOrder, NeverLeftDue
<1>. QED
  BY <1>3, <1>4, <1>5, <1>6 DEF TimesInOrder

\* The rows a pass reads are of schedules whose time had come as it began.
LEMMA ReadDueTimes ==
  ASSUME TypeOK, TimesInOrder, NEW w \in Worker, ReadDue(w)
  PROVE  TimesInOrder'
<1>. DEFINE rows == {[schedule |-> s, due |-> next[s], cadence |-> cadence[s]] : s \in FirstDue(worker[w].now)}
            f == [worker[w] EXCEPT !.at = "due", !.rows = rows]
<1>1. worker \in [Worker -> WorkerState] /\ worker[w] \in WorkerState /\ worker[w].at = "sweep"
  BY DEF TypeOK, ReadDue
<1>2. \A row \in rows : /\ row.due <= worker[w].now /\ life[row.schedule] # "unmade"
                        /\ row.due = next[row.schedule] /\ row.due \in Nat
  <2>1. \A s \in FirstDue(worker[w].now) : s \in Schedule /\ life[s] = "live" /\ next[s] <= worker[w].now
    BY DEF FirstDue, IsDue
  <2>2. \A s \in Schedule : next[s] \in Nat
    BY ScheduleConstants DEF TypeOK, Moment, Never
  <2>. QED
    BY <2>1, <2>2
<1>. HIDE DEF rows
<1>3. f.at = "due" /\ f.rows = rows /\ f.now = worker[w].now
  BY <1>1 DEF WorkerState
<1>4. worker'[w] = f /\ \A v \in Worker \ {w} : worker'[v] = worker[v]
  BY <1>1 DEF ReadDue, Become, rows
<1>5. UNCHANGED <<now, life, next, status, astray>>
  BY DEF ReadDue, scheduleVars, runVars
<1>6. \A v \in Worker : /\ worker'[v].at = "claimed" <=> worker[v].at = "claimed"
                        /\ worker'[v].at = "claimed" => worker'[v] = worker[v]
  BY <1>1, <1>3, <1>4
<1>7. RowsAreOld'
  <2>1. \A v \in Worker \ {w} : RowsAreOld => worker'[v].now <= now' /\ \A row \in worker'[v].rows :
           row.due <= worker'[v].now /\ life'[row.schedule] # "unmade" /\ MovedOn(row.schedule, row.due)'
    BY <1>4, <1>5 DEF RowsAreOld, MovedOn
  <2>2. worker'[w].now <= now' /\ \A row \in worker'[w].rows :
           row.due <= worker'[w].now /\ life'[row.schedule] # "unmade" /\ MovedOn(row.schedule, row.due)'
    BY <1>2, <1>3, <1>4, <1>5 DEF TimesInOrder, RowsAreOld, MovedOn
  <2>. QED
    BY <2>1, <2>2 DEF TimesInOrder, RowsAreOld
<1>8. ClaimsAreOld' /\ NeverLeftDue'
  BY <1>5, <1>6 DEF TimesInOrder, ClaimsAreOld, NeverLeftDue, MovedOn, Claimed, Due
<1>9. ClaimedIsFirst'
  BY <1>6 DEF TimesInOrder, ClaimedIsFirst, IsFirst
<1>. QED
  BY <1>7, <1>8, <1>9 DEF TimesInOrder

\* A run that is inserted has its thread about to move the schedule on.
LEMMA ClaimDueTimes ==
  ASSUME TypeOK, TimesInOrder, NEW w \in Worker, ClaimDue(w)
  PROVE  TimesInOrder'
<1>1. worker \in [Worker -> WorkerState] /\ worker[w] \in WorkerState /\ worker[w].at = "due"
  BY DEF TypeOK, ClaimDue
<1>2. UNCHANGED <<now, life, next, astray>>
  BY DEF ClaimDue, scheduleVars
<1>3. PICK row \in worker[w].rows :
        /\ IsFirst(w, row)
        /\ \/ /\ InsertRun(ClaimOf(row.schedule, row.due))
              /\ Become(w, [worker[w] EXCEPT !.at = "claimed", !.run = ClaimOf(row.schedule, row.due)])
           \/ /\ Become(w, [worker[w] EXCEPT !.rows = worker[w].rows \ {row}])
              /\ UNCHANGED runVars
  BY DEF ClaimDue, ClaimOf
<1>4. /\ row \in DueRow /\ row.schedule \in Schedule /\ row.due \in Moment
      /\ worker[w].now \in Nat /\ worker[w].now <= now /\ now \in Nat
      /\ row.due <= worker[w].now /\ life[row.schedule] # "unmade" /\ MovedOn(row.schedule, row.due)
  BY <1>1, <1>3 DEF WorkerState, DueRow, TimesInOrder, RowsAreOld, TypeOK
<1>5. row.due \in Nat
  BY <1>4, ScheduleConstants DEF Moment, Never
<1>6. CASE Become(w, [worker[w] EXCEPT !.rows = worker[w].rows \ {row}]) /\ UNCHANGED runVars
  <2>. DEFINE f == [worker[w] EXCEPT !.rows = worker[w].rows \ {row}]
  <2>1. f.at = "due" /\ f.rows \subseteq worker[w].rows /\ f.now = worker[w].now
    BY <1>1 DEF WorkerState
  <2>2. worker'[w] = f /\ \A v \in Worker \ {w} : worker'[v] = worker[v]
    BY <1>1, <1>6 DEF Become
  <2>3. status' = status
    BY <1>6 DEF runVars
  <2>. QED
    BY <1>1, <1>2, <1>4, <2>1, <2>2, <2>3, TimesLeft DEF Claimed
<1>7. CASE /\ InsertRun(ClaimOf(row.schedule, row.due))
           /\ Become(w, [worker[w] EXCEPT !.at = "claimed", !.run = ClaimOf(row.schedule, row.due)])
  <2>. DEFINE f == [worker[w] EXCEPT !.at = "claimed", !.run = ClaimOf(row.schedule, row.due)]
  <2>1. /\ f.at = "claimed" /\ f.rows = worker[w].rows /\ f.now = worker[w].now
        /\ f.run = ClaimOf(row.schedule, row.due)
    BY <1>1 DEF WorkerState
  <2>2. worker'[w] = f /\ \A v \in Worker \ {w} : worker'[v] = worker[v]
    BY <1>1, <1>7 DEF Become
  <2>. HIDE DEF f
  <2>3. \A v \in Worker : worker'[v].rows = worker[v].rows /\ worker'[v].now = worker[v].now
    BY <2>1, <2>2
  <2>4. \A s \in Schedule, t \in Moment :
          Claimed(ClaimOf(s, t))' => Claimed(ClaimOf(s, t)) \/ (s = row.schedule /\ t = row.due)
    <3>1. \A s \in Schedule, t \in Moment :
            ClaimOf(s, t) = ClaimOf(row.schedule, row.due) => s = row.schedule /\ t = row.due
      BY DEF ClaimOf
    <3>2. \A s \in Schedule, t \in Moment : ClaimOf(s, t) \in Run
      BY RunParts DEF ClaimOf
    <3>3. status' = [status EXCEPT ![ClaimOf(row.schedule, row.due)] = "running"]
      BY <1>7 DEF InsertRun
    <3>. QED
      BY <3>1, <3>2, <3>3 DEF Claimed, TypeOK
  <2>5. RowsAreOld'
    BY <1>2, <2>3 DEF TimesInOrder, RowsAreOld, MovedOn
  <2>6. ClaimsAreOld'
    <3>1. row.due <= now
      BY <1>4, <1>5
    <3>. QED
      BY <1>2, <1>4, <2>4, <3>1 DEF TimesInOrder, ClaimsAreOld, MovedOn
  <2>7. ClaimedIsFirst'
    <3>1. IsFirst(w, row)' /\ row \in worker'[w].rows /\ worker'[w].run = ClaimOf(row.schedule, row.due)
      BY <1>3, <2>1, <2>2 DEF IsFirst
    <3>2. \A v \in Worker \ {w} : \A other : IsFirst(v, other)' = IsFirst(v, other)
      BY <2>2 DEF IsFirst
    <3>. QED
      BY <2>2, <3>1, <3>2 DEF TimesInOrder, ClaimedIsFirst
  <2>8. NeverLeftDue'
    <3>. SUFFICES ASSUME NEW s \in Schedule, life[s] = "live", Claimed(Due(s))', s \notin astray
                  PROVE  \E v \in Worker : worker'[v].at = "claimed" /\ worker'[v].run = Due(s)
      BY <1>2 DEF NeverLeftDue, Due
    <3>1. Due(s) = ClaimOf(s, next[s]) /\ Due(s)' = ClaimOf(s, next[s]) /\ next[s] \in Moment
      BY <1>2 DEF Due, ClaimOf, TypeOK
    <3>2. CASE s = row.schedule /\ next[s] = row.due
      BY <2>1, <2>2, <3>1, <3>2
    <3>3. CASE ~(s = row.schedule /\ next[s] = row.due)
      <4>1. Claimed(Due(s))
        BY <2>4, <3>1, <3>3
      <4>2. PICK v \in Worker : worker[v].at = "claimed" /\ worker[v].run = Due(s)
        BY <4>1 DEF TimesInOrder, NeverLeftDue
      <4>. QED
        BY <1>1, <2>2, <4>2
    <3>. QED
      BY <3>2, <3>3
  <2>. QED
    BY <2>5, <2>6, <2>7, <2>8 DEF TimesInOrder
<1>. QED
  BY <1>3, <1>6, <1>7

\* A thread moves the schedule past the time it claimed, or the schedule goes astray.
LEMMA AdvanceTimes ==
  ASSUME TypeOK, TimesInOrder, NEW w \in Worker, Advance(w)
  PROVE  TimesInOrder'
<1>1. worker \in [Worker -> WorkerState] /\ worker[w] \in WorkerState /\ worker[w].at = "claimed"
  BY DEF TypeOK, Advance
<1>2. UNCHANGED <<now, life, status>>
  BY DEF Advance, runVars
<1>3. PICK row \in worker[w].rows :
        /\ IsFirst(w, row)
        /\ next' = IF life[row.schedule] = "live"
                   THEN [next EXCEPT ![row.schedule] = NextRun(row.cadence, Later(worker[w].now, row.due))]
                   ELSE next
        /\ astray' = IF NextRun(row.cadence, Later(worker[w].now, row.due)) < next[row.schedule]
                     THEN astray \cup {row.schedule} ELSE astray
        /\ Become(w, [Delivering(worker[w], worker[w].run, "due") EXCEPT !.rows = worker[w].rows \ {row}])
  BY DEF Advance
<1>. DEFINE f == [Delivering(worker[w], worker[w].run, "due") EXCEPT !.rows = worker[w].rows \ {row}]
            up == NextRun(row.cadence, Later(worker[w].now, row.due))
<1>4. /\ row.schedule \in Schedule /\ row.due \in Nat /\ row.cadence \in SUBSET (1 .. LastTime)
      /\ worker[w].now \in Nat /\ now \in 0 .. LastTime /\ \A s \in Schedule : next[s] \in Moment /\ next[s] \in Nat
  BY <1>1, ScheduleConstants DEF WorkerState, DueRow, Moment, Never, TypeOK
<1>5. up \in Moment /\ up \in Nat /\ (up = Never \/ up > row.due)
  <2>1. Later(worker[w].now, row.due) \in Nat /\ Later(worker[w].now, row.due) >= row.due
    BY <1>4 DEF Later
  <2>2. up \in Moment /\ (up # Never => up > Later(worker[w].now, row.due))
    BY <1>4, <2>1, NextRunIsLater
  <2>3. up \in Nat
    BY <2>2, ScheduleConstants DEF Moment, Never
  <2>. QED
    BY <1>4, <2>1, <2>2, <2>3
<1>6. worker[w].run = ClaimOf(row.schedule, row.due)
  <2>1. PICK other \in worker[w].rows : IsFirst(w, other) /\ worker[w].run = ClaimOf(other.schedule, other.due)
    BY <1>1 DEF TimesInOrder, ClaimedIsFirst
  <2>2. /\ other.schedule \in Nat /\ other.due \in Nat
        /\ row.schedule \in Nat
    BY <1>1, <1>4, ScheduleConstants DEF WorkerState, DueRow, Moment, Never, Schedule
  <2>3. RowBefore(row, other) /\ RowBefore(other, row)
    BY <1>3, <2>1 DEF IsFirst
  <2>. QED
    BY <1>4, <2>1, <2>2, <2>3 DEF RowBefore
<1>7. f.at = "deliver" /\ f.rows \subseteq worker[w].rows /\ f.now = worker[w].now
  <2>1. Delivering(worker[w], worker[w].run, "due") \in WorkerState
    BY <1>1 DEF WorkerState, Delivering
  <2>2. /\ Delivering(worker[w], worker[w].run, "due").at = "deliver"
        /\ Delivering(worker[w], worker[w].run, "due").now = worker[w].now
    BY <1>1 DEF WorkerState, Delivering
  <2>. QED
    BY <2>1, <2>2 DEF WorkerState
<1>8. worker'[w] = f /\ \A v \in Worker \ {w} : worker'[v] = worker[v]
  BY <1>1, <1>3 DEF Become
<1>. HIDE DEF f
<1>9. /\ next' \in [Schedule -> Moment]
      /\ \A s \in Schedule : s # row.schedule => next'[s] = next[s]
      /\ life[row.schedule] = "live" => next'[row.schedule] = up
      /\ astray \subseteq astray'
      /\ row.schedule \notin astray' => up >= next[row.schedule]
  BY <1>3, <1>4, <1>5 DEF TypeOK
<1>. HIDE DEF up
<1>10. \A s \in Schedule : life[s] = "live" /\ s \notin astray' => s \notin astray /\ next[s] <= next'[s]
  BY <1>4, <1>5, <1>9
<1>11. \A s \in Schedule, t \in Nat : MovedOn(s, t) => MovedOn(s, t)'
  BY <1>2, <1>4, <1>9, <1>10 DEF MovedOn, Moment
<1>12. RowsAreOld'
  <2>1. \A v \in Worker : worker'[v].rows \subseteq worker[v].rows /\ worker'[v].now = worker[v].now
    BY <1>7, <1>8
  <2>2. \A v \in Worker : \A other \in worker[v].rows : other.schedule \in Schedule /\ other.due \in Nat
    BY <1>1, ScheduleConstants DEF WorkerState, DueRow, Moment, Never
  <2>. QED
    BY <1>2, <1>11, <2>1, <2>2 DEF TimesInOrder, RowsAreOld
<1>13. ClaimsAreOld'
  <2>1. \A t \in Moment : t \in Nat
    BY ScheduleConstants DEF Moment, Never
  <2>. QED
    BY <1>2, <1>11, <2>1 DEF TimesInOrder, ClaimsAreOld, Claimed
<1>14. ClaimedIsFirst'
  <2>1. \A v \in Worker : worker'[v].at = "claimed" => v # w /\ worker'[v] = worker[v]
    BY <1>7, <1>8
  <2>. QED
    BY <2>1 DEF TimesInOrder, ClaimedIsFirst, IsFirst
<1>15. NeverLeftDue'
  <2>. SUFFICES ASSUME NEW s \in Schedule, life[s] = "live", Claimed(Due(s))', s \notin astray'
                PROVE  \E v \in Worker : worker'[v].at = "claimed" /\ worker'[v].run = Due(s)'
    BY <1>2 DEF NeverLeftDue
  <2>1. Due(s)' = ClaimOf(s, next'[s]) /\ Due(s) = ClaimOf(s, next[s]) /\ Claimed(ClaimOf(s, next'[s]))
        /\ next'[s] \in Moment
    BY <1>2, <1>9 DEF Due, ClaimOf, Claimed
  <2>2. next'[s] <= now /\ next'[s] <= next[s]
    BY <1>10, <2>1 DEF TimesInOrder, ClaimsAreOld, MovedOn
  <2>3. next'[s] = next[s]
    BY <1>4, <1>9, <1>10, <2>2 DEF Moment, Never
  <2>4. PICK v \in Worker : worker[v].at = "claimed" /\ worker[v].run = ClaimOf(s, next[s])
    BY <1>10, <2>1, <2>3 DEF TimesInOrder, NeverLeftDue
  <2>5. v # w
    <3>1. CASE s = row.schedule
      <4>1. next[s] = up
        BY <1>9, <2>3, <3>1
      <4>2. up # Never
        BY <1>4, <1>5, <2>2, <2>3, <4>1, ScheduleConstants DEF Never
      <4>3. next[s] # row.due
        BY <1>4, <1>5, <4>1, <4>2
      <4>. QED
        BY <1>6, <2>4, <4>3 DEF ClaimOf
    <3>2. CASE s # row.schedule
      BY <1>6, <2>4, <3>2 DEF ClaimOf
    <3>. QED
      BY <3>1, <3>2
  <2>. QED
    BY <1>8, <2>1, <2>3, <2>4, <2>5
<1>. QED
  BY <1>12, <1>13, <1>14, <1>15 DEF TimesInOrder

\* A thread that stops leaves astray what it had claimed.
LEMMA StopsTimes ==
  ASSUME TypeOK, TimesInOrder, NEW w \in Worker, Stops(w)
  PROVE  TimesInOrder'
<1>1. worker \in [Worker -> WorkerState]
  BY DEF TypeOK
<1>2. UNCHANGED <<now, life, next, status>>
  BY DEF Stops, scheduleVars, runVars
<1>3. worker'[w] = NoWorker /\ \A v \in Worker \ {w} : worker'[v] = worker[v]
  BY <1>1 DEF Stops, Become
<1>4. NoWorker.at = "idle" /\ NoWorker.rows = {} /\ NoWorker.now = 0 /\ now >= 0
  BY DEF NoWorker, TypeOK
<1>5. CASE worker[w].at # "claimed"
  BY <1>2, <1>3, <1>4, <1>5, TimesLeft DEF Stops, Claimed
<1>6. CASE worker[w].at = "claimed"
  <2>1. astray' = astray \cup {ScheduleOf(worker[w].run)}
    BY <1>6 DEF Stops
  <2>2. RowsAreOld'
    BY <1>2, <1>3, <1>4, <2>1 DEF TimesInOrder, RowsAreOld, MovedOn
  <2>3. ClaimsAreOld'
    BY <1>2, <2>1 DEF TimesInOrder, ClaimsAreOld, MovedOn, Claimed
  <2>4. ClaimedIsFirst'
    BY <1>3, <1>4 DEF TimesInOrder, ClaimedIsFirst, IsFirst
  <2>5. NeverLeftDue'
    <3>. SUFFICES ASSUME NEW s \in Schedule, life[s] = "live", Claimed(Due(s)), s \notin astray'
                  PROVE  \E v \in Worker : worker'[v].at = "claimed" /\ worker'[v].run = Due(s)
      BY <1>2 DEF NeverLeftDue, Due, Claimed
    <3>1. PICK v \in Worker : worker[v].at = "claimed" /\ worker[v].run = Due(s)
      BY <2>1 DEF TimesInOrder, NeverLeftDue
    <3>2. v # w
      BY <2>1, <3>1 DEF ScheduleOf, Due
    <3>. QED
      BY <1>3, <3>1, <3>2
  <2>. QED
    BY <2>2, <2>3, <2>4, <2>5 DEF TimesInOrder
<1>. QED
  BY <1>5, <1>6

\* A next time the owner sets is still to come, and a deleted schedule has no runs.
LEMMA OwnerTimes ==
  ASSUME TypeOK, TimesInOrder, NEW s \in Schedule,
         Pause(s) \/ Resume(s) \/ Delete(s) \/ \E times \in Cadences : Save(s, times)
  PROVE  TimesInOrder'
<1>1. UNCHANGED <<now, worker, astray>> /\ worker \in [Worker -> WorkerState] /\ now \in 0 .. LastTime
  BY DEF Pause, Resume, Delete, Save, TypeOK
<1>2. \A r \in Run : Claimed(r)' => Claimed(r)
  BY DEF Pause, Resume, Delete, Save, Claimed, runVars
<1>3. \A u \in Schedule : u # s => life'[u] = life[u] /\ next'[u] = next[u]
  BY DEF Pause, Resume, Delete, Save, TypeOK
<1>4. life[s] # "unmade" => life'[s] # "unmade"
  BY DEF Pause, Resume, Delete, Save, TypeOK
<1>5. life'[s] = "live" => (life[s] = "live" /\ next'[s] = next[s]) \/ (next'[s] \in Moment /\ next'[s] > now)
  <2>1. CASE Pause(s) \/ Delete(s)
    BY <2>1 DEF Pause, Delete, TypeOK
  <2>2. CASE Resume(s)
    BY <1>1, <2>2, NextRunIsLater DEF Resume, Goes, TypeOK
  <2>3. ASSUME NEW times \in Cadences, Save(s, times)
        PROVE  next'[s] \in Moment /\ next'[s] > now
    BY <1>1, <2>3, NextRunIsLater, ScheduleConstants DEF Save, Goes, TypeOK
  <2>. QED
    BY <2>1, <2>2, <2>3
<1>6. \A u \in Schedule, t \in Nat :
        t <= now /\ life[u] # "unmade" /\ MovedOn(u, t) => life'[u] # "unmade" /\ MovedOn(u, t)'
  BY <1>1, <1>3, <1>4, <1>5 DEF MovedOn, Moment
<1>7. RowsAreOld'
  <2>1. \A w \in Worker : /\ worker[w].now \in Nat
                          /\ \A row \in worker[w].rows : row.schedule \in Schedule /\ row.due \in Nat
    BY <1>1, ScheduleConstants DEF WorkerState, DueRow, Moment, Never
  <2>2. now \in Nat
    BY <1>1
  <2>3. \A w \in Worker : \A row \in worker[w].rows : row.due <= now
    BY <2>1, <2>2 DEF TimesInOrder, RowsAreOld
  <2>. QED
    BY <1>1, <1>6, <2>1, <2>3 DEF TimesInOrder, RowsAreOld
<1>8. ClaimsAreOld'
  <2>1. \A t \in Moment : t \in Nat
    BY ScheduleConstants DEF Moment, Never
  <2>2. \A u \in Schedule, t \in Moment : ClaimOf(u, t) \in Run
    BY RunParts DEF ClaimOf
  <2>. QED
    BY <1>1, <1>2, <1>6, <2>1, <2>2 DEF TimesInOrder, ClaimsAreOld
<1>9. ClaimedIsFirst'
  BY <1>1 DEF TimesInOrder, ClaimedIsFirst, IsFirst
<1>10. NeverLeftDue'
  <2>. SUFFICES ASSUME NEW u \in Schedule, life'[u] = "live", Claimed(Due(u))', u \notin astray
                PROVE  \E w \in Worker : worker[w].at = "claimed" /\ worker[w].run = Due(u)'
    BY <1>1 DEF NeverLeftDue
  <2>1. CASE life[u] = "live" /\ next'[u] = next[u]
    <3>1. Due(u)' = Due(u) /\ Due(u) \in Run
      BY <2>1, RunParts DEF Due, TypeOK
    <3>2. Claimed(Due(u))
      BY <1>2, <3>1 DEF Claimed
    <3>. QED
      BY <2>1, <3>1, <3>2 DEF TimesInOrder, NeverLeftDue
  <2>2. CASE u = s /\ next'[s] \in Moment /\ next'[s] > now
    <3>1. Due(s)' = ClaimOf(s, next'[s])
      BY DEF Due, ClaimOf
    <3>2. next'[s] <= now
      BY <1>8, <1>1, <2>2, <3>1 DEF ClaimsAreOld
    <3>. QED
      BY <1>1, <2>2, <3>2 DEF Moment
  <2>. QED
    BY <1>3, <1>5, <2>1, <2>2
<1>. QED
  BY <1>7, <1>8, <1>9, <1>10 DEF TimesInOrder

\* Every step keeps the times in order.
LEMMA StepTimes ==
  ASSUME TypeOK, AllGood, TimesInOrder, [Next]_vars
  PROVE  TimesInOrder'
<1>1. /\ worker \in [Worker -> WorkerState]
      /\ \A w \in Worker : worker[w] \in WorkerState /\ Good(worker[w]) /\ worker[w].now <= now
  BY DEF TypeOK, AllGood, TimesInOrder, RowsAreOld
<1>2. NoWorker.at = "idle" /\ NoWorker.rows = {} /\ NoWorker.now = 0 /\ NoWorker \in WorkerState /\ now \in Nat
  <2>1. NoWorker.at = "idle" /\ NoWorker.rows = {} /\ NoWorker.now = 0
    BY DEF NoWorker
  <2>2. now \in Nat
    BY ScheduleConstants DEF TypeOK
  <2>. QED
    BY <2>1, <2>2, IdleIsGood
<1>3. ASSUME NEW w \in Scheduler, Sweep(w)
      PROVE  TimesInOrder'
  <2>. DEFINE f == [NoWorker EXCEPT !.at = "sweep", !.now = now, !.stale = late]
  <2>1. f.at = "sweep" /\ f.rows = {} /\ f.now = now
    BY <1>2 DEF WorkerState
  <2>2. worker'[w] = f /\ \A v \in Worker \ {w} : worker'[v] = worker[v]
    BY <1>1, <1>3 DEF Sweep, Become, Worker
  <2>3. UNCHANGED <<now, life, next, astray, status>> /\ worker[w].at = "idle" /\ w \in Worker
    BY <1>3 DEF Sweep, scheduleVars, runVars, Worker
  <2>. HIDE DEF f
  <2>4. worker'[w].at = "sweep" /\ worker'[w].rows = {} /\ worker'[w].now <= now
    BY <1>2, <2>1, <2>2
  <2>5. \A s \in Schedule, t \in Moment : Claimed(ClaimOf(s, t))' => Claimed(ClaimOf(s, t))
    BY <2>3 DEF Claimed
  <2>. QED
    BY <2>2, <2>3, <2>4, <2>5, TimesLeft
<1>4. ASSUME NEW w \in Worker, NEW f, Become(w, f), UNCHANGED <<now, life, next, astray>>,
             \A r \in Run : Claimed(r)' => Claimed(r) \/ KindOf(r) # "scheduled",
             worker[w].at # "claimed", f.at # "claimed", f.rows \subseteq worker[w].rows,
             f.now = worker[w].now \/ (f.now = 0 /\ f.rows = {})
      PROVE  TimesInOrder'
  <2>1. worker'[w] = f /\ \A v \in Worker \ {w} : worker'[v] = worker[v]
    BY <1>1, <1>4 DEF Become
  <2>2. \A s \in Schedule, t \in Moment : ClaimOf(s, t) \in Run /\ KindOf(ClaimOf(s, t)) = "scheduled"
    BY RunParts DEF ClaimOf, KindOf
  <2>3. \A s \in Schedule, t \in Moment : Claimed(ClaimOf(s, t))' => Claimed(ClaimOf(s, t))
    BY <1>4, <2>2 DEF Claimed
  <2>4. /\ worker'[w].at # "claimed" /\ worker'[w].now <= now
        /\ \A row \in worker'[w].rows : row \in worker[w].rows /\ worker'[w].now = worker[w].now
    BY <1>1, <1>2, <1>4, <2>1
  <2>. QED
    BY <1>4, <2>1, <2>3, <2>4, TimesLeft
<1>5. ASSUME NEW w \in Worker, TakeUp(w)
      PROVE  TimesInOrder'
  <2>1. PICK r \in worker[w].stale :
          LET rest == [worker[w] EXCEPT !.stale = worker[w].stale \ {r}] IN
          Become(w, Delivering(rest, r, "sweep")) \/ Become(w, rest)
    BY <1>5 DEF TakeUp
  <2>. DEFINE rest == [worker[w] EXCEPT !.stale = worker[w].stale \ {r}]
  <2>2. rest \in WorkerState /\ rest.at = "sweep" /\ rest.rows = worker[w].rows /\ rest.now = worker[w].now
    BY <1>1, <1>5 DEF WorkerState, TakeUp
  <2>. HIDE DEF rest
  <2>3. /\ Delivering(rest, r, "sweep").at = "deliver" /\ Delivering(rest, r, "sweep").rows = worker[w].rows
        /\ Delivering(rest, r, "sweep").now = worker[w].now
    BY <2>2 DEF WorkerState, Delivering
  <2>4. UNCHANGED <<now, life, next, astray, status>> /\ worker[w].at = "sweep"
    BY <1>5 DEF TakeUp, scheduleVars
  <2>. QED
    BY <1>4, <2>1, <2>2, <2>3, <2>4 DEF Claimed, rest
<1>6. ASSUME NEW w \in Worker, EndPass(w)
      PROVE  TimesInOrder'
  BY <1>2, <1>4, <1>6 DEF EndPass, scheduleVars, runVars, Claimed
<1>7. ASSUME NEW w \in Request, NEW s \in Schedule, NEW kind \in Buttons, SendNow(w, s, kind)
      PROVE  TimesInOrder'
  <2>1. PICK second \in 1 .. Presses :
          \/ /\ InsertRun(<<s, <<kind, second>>>>)
             /\ Become(w, Delivering(NoWorker, <<s, <<kind, second>>>>, "due"))
          \/ UNCHANGED <<runVars, worker>>
    BY <1>7 DEF SendNow
  <2>2. UNCHANGED <<now, life, next, astray>> /\ worker[w].at = "idle" /\ w \in Worker
    BY <1>7 DEF SendNow, scheduleVars, Worker
  <2>3. CASE UNCHANGED <<runVars, worker>>
    BY <2>2, <2>3 DEF TimesInOrder, RowsAreOld, ClaimsAreOld, ClaimedIsFirst, NeverLeftDue, MovedOn, Claimed,
       runVars, IsFirst, Due
  <2>4. CASE /\ InsertRun(<<s, <<kind, second>>>>)
             /\ Become(w, Delivering(NoWorker, <<s, <<kind, second>>>>, "due"))
    <3>. DEFINE r == <<s, <<kind, second>>>>
    <3>1. Delivering(NoWorker, r, "due").at = "deliver" /\ Delivering(NoWorker, r, "due").rows = {}
          /\ Delivering(NoWorker, r, "due").now = 0
      BY <1>2 DEF WorkerState, Delivering
    <3>2. KindOf(r) # "scheduled" /\ r \in Run
      BY ScheduleConstants, RunParts DEF KindOf
    <3>3. \A q \in Run : Claimed(q)' => Claimed(q) \/ KindOf(q) # "scheduled"
      <4>1. status' = [status EXCEPT ![r] = "running"]
        BY <2>4 DEF InsertRun
      <4>. HIDE DEF r
      <4>. QED
        BY <3>2, <4>1 DEF Claimed, TypeOK
    <3>. QED
      BY <1>4, <2>2, <2>4, <3>1, <3>3
  <2>. QED
    BY <2>1, <2>3, <2>4
<1>8. ASSUME NEW w \in Worker, CheckOwner(w) \/ PauseSchedule(w) \/ SendOne(w)
      PROVE  TimesInOrder'
  <2>1. UNCHANGED <<now, life, next, astray, status>> /\ worker[w].at # "claimed"
    BY <1>8 DEF CheckOwner, PauseSchedule, SendOne, scheduleVars, runVars
  <2>2. ASSUME NEW f, Become(w, f), f.at # "claimed", f.rows = worker[w].rows, f.now = worker[w].now
        PROVE  TimesInOrder'
    BY <1>4, <2>1, <2>2 DEF Claimed
  <2>3. ASSUME NEW at \in {"pausing", "failing"}, Become(w, [worker[w] EXCEPT !.at = at])
        PROVE  TimesInOrder'
    <3>. DEFINE f == [worker[w] EXCEPT !.at = at]
    <3>1. f.at # "claimed" /\ f.rows = worker[w].rows /\ f.now = worker[w].now
      BY <1>1 DEF WorkerState
    <3>. QED
      BY <2>2, <2>3, <3>1
  <2>4. CASE CheckOwner(w)
    <3>1. ASSUME NEW people, NEW tally,
                 Become(w, [worker[w] EXCEPT !.at = "sending", !.left = people, !.counts = tally, !.failed = FALSE])
          PROVE  TimesInOrder'
      <4>. DEFINE f == [worker[w] EXCEPT !.at = "sending", !.left = people, !.counts = tally, !.failed = FALSE]
      <4>1. f.at # "claimed" /\ f.rows = worker[w].rows /\ f.now = worker[w].now
        BY <1>1 DEF WorkerState
      <4>. QED
        BY <2>2, <3>1, <4>1
    <3>. QED
      BY <2>3, <2>4, <3>1 DEF CheckOwner
  <2>5. CASE SendOne(w)
    <3>1. PICK p \in worker[w].left : Skip(w, p) \/ Fail(w, p) \/ Queue(w, p)
      BY <2>5 DEF SendOne
    <3>2. PICK tally, fault : Done(w, p, tally, fault)
      BY <3>1 DEF Skip, Fail, Queue
    <3>. DEFINE f == [worker[w] EXCEPT !.left = worker[w].left \ {p}, !.counts = tally, !.failed = fault]
    <3>3. f.at # "claimed" /\ f.rows = worker[w].rows /\ f.now = worker[w].now
      BY <1>1, <2>5 DEF WorkerState, SendOne
    <3>. QED
      BY <2>2, <3>2, <3>3 DEF Done
  <2>. QED
    BY <1>8, <2>3, <2>4, <2>5 DEF PauseSchedule
<1>9. ASSUME NEW w \in Worker, FinishRun(w)
      PROVE  TimesInOrder'
  <2>1. Become(w, Resumed(w)) /\ UNCHANGED <<now, life, next, astray>> /\ worker[w].at # "claimed"
    BY <1>9 DEF FinishRun, scheduleVars
  <2>2. Resumed(w).at # "claimed" /\ Resumed(w).rows \subseteq worker[w].rows
        /\ (Resumed(w).now = worker[w].now \/ (Resumed(w).now = 0 /\ Resumed(w).rows = {}))
    BY <1>1, <1>2 DEF Resumed, WorkerState
  <2>3. \A r \in Run : Claimed(r)' => Claimed(r)
    BY <1>9, EndingType DEF FinishRun, Finish, Claimed, runVars, TypeOK
  <2>. QED
    BY <1>4, <2>1, <2>2, <2>3
<1>10. ASSUME NEW w \in Worker, Raise(w)
       PROVE  TimesInOrder'
  <2>. DEFINE f == [worker[w] EXCEPT !.at = "failing"]
  <2>1. f.at = "failing" /\ f.rows = worker[w].rows /\ f.now = worker[w].now
    BY <1>1 DEF WorkerState
  <2>2. Become(w, NoWorker) \/ Become(w, f)
    BY <1>10 DEF Raise
  <2>3. UNCHANGED <<now, life, next, astray, status>> /\ worker[w].at # "claimed"
    BY <1>10 DEF Raise, scheduleVars, runVars
  <2>. QED
    BY <1>2, <1>4, <2>1, <2>2, <2>3 DEF Claimed
<1>11. ASSUME Tick
       PROVE  TimesInOrder'
  <2>1. UNCHANGED <<life, next, astray, status, worker>> /\ now' = now + 1
    BY <1>11 DEF Tick, scheduleVars, runVars
  <2>2. RowsAreOld'
    <3>1. \A w \in Worker : worker[w].now \in Nat
      BY <1>1 DEF WorkerState
    <3>. QED
      BY <1>2, <2>1, <3>1 DEF TimesInOrder, RowsAreOld, MovedOn
  <2>3. ClaimsAreOld'
    <3>1. \A t \in Moment : t \in Nat
      BY ScheduleConstants DEF Moment, Never
    <3>. QED
      BY <1>2, <2>1, <3>1 DEF TimesInOrder, ClaimsAreOld, MovedOn, Claimed
  <2>. QED
    BY <2>1, <2>2, <2>3 DEF TimesInOrder, ClaimedIsFirst, NeverLeftDue, Claimed, IsFirst, Due
<1>12. CASE (\E r \in Run : RunAges(r)) \/ UNCHANGED vars
  <2>1. UNCHANGED <<now, life, next, astray, status, worker>>
    BY <1>12 DEF RunAges, scheduleVars, runVars, vars
  <2>. QED
    BY <2>1 DEF TimesInOrder, RowsAreOld, ClaimsAreOld, ClaimedIsFirst, NeverLeftDue, MovedOn, Claimed, IsFirst, Due
<1>. QED
  BY <1>3, <1>5, <1>6, <1>7, <1>8, <1>9, <1>10, <1>11, <1>12, ReadDueTimes, ClaimDueTimes, AdvanceTimes, StopsTimes,
     OwnerTimes
  DEF Next, Going

-----------------------------------------------------------------------------
\* The tables are empty and the threads idle at first.
LEMMA InitSound == Init => RunsSound
<1>1. ASSUME Init
      PROVE  TypeOK
  <2>1. worker \in [Worker -> WorkerState]
    BY <1>1, IdleIsGood DEF Init
  <2>2. next \in [Schedule -> Moment]
    BY <1>1, ScheduleConstants DEF Init, Moment, Never
  <2>3. counts \in [Run -> Counts]
    BY <1>1, ScheduleConstants DEF Init, Counts, NoCounts
  <2>. QED
    BY <1>1, <2>1, <2>2, <2>3, ScheduleConstants DEF Init, TypeOK, RunStatus
<1>2. ASSUME Init
      PROVE  \A w \in Worker : worker[w].at = "idle"
  BY <1>2 DEF Init, NoWorker
<1>3. ASSUME Init
      PROVE  OneEmailEach
  BY <1>3 DEF Init, OneEmailEach
<1>. QED
  BY <1>1, <1>2, <1>3 DEF RunsSound, InHandIsRun, RowsInHand, CountsFit, OneDelivery, InHand, Working

\* Every step keeps the invariant.
LEMMA StepSound == RunsSound /\ [Next]_vars => RunsSound'
<1>1. ASSUME RunsSound
      PROVE  AllGood
  BY <1>1, GoodMeans DEF RunsSound, TypeOK
<1>2. ASSUME RunsSound, [Next]_vars
      PROVE  TypeOK' /\ AllGood' /\ RowsInHand' /\ OneDelivery' /\ OneEmailEach'
  BY <1>1, <1>2, StepTypes, StepWorkers, StepHands, StepEmail DEF RunsSound
<1>3. ASSUME AllGood'
      PROVE  InHandIsRun' /\ CountsFit'
  BY <1>3 DEF AllGood, Good, InHandIsRun, CountsFit, InHand
<1>. QED
  BY <1>2, <1>3 DEF RunsSound

\* The inductive invariant: whatever the threads, the owner and the restarts do, a thread
\* that delivers has a run with a row in hand, and nobody is counted twice.
THEOREM RunsAreSound == Spec => []RunsSound
BY InitSound, StepSound, PTL DEF Spec

\* The tables and the threads' locals keep their types.
THEOREM ScheduleTypes == Spec => []TypeOK
<1>1. RunsSound => TypeOK
  BY DEF RunsSound
<1>. QED
  BY <1>1, RunsAreSound, PTL

\* A run has one thread to deliver it, unless it was taken up again or its schedule deleted.
THEOREM ScheduleOneDelivery == Spec => []OneDelivery
<1>1. RunsSound => OneDelivery
  BY DEF RunsSound
<1>. QED
  BY <1>1, RunsAreSound, PTL

\* A person is queued at most one email of a run that is not a test, whoever delivers it.
THEOREM ScheduleOneEmail == Spec => []OneEmailEach
<1>1. RunsSound => OneEmailEach
  BY DEF RunsSound
<1>. QED
  BY <1>1, RunsAreSound, PTL

\* A run's report never claims more than went, and "sent" says that everyone it named was
\* sent one, whichever thread finished the run and whatever failed before (finish_run).
THEOREM ScheduleReportsTrue == Spec => []ReportTrue
<1>1. Init => TalliesTrue /\ ReportTrue
  BY DEF Init, TalliesTrue, TallyTrue, ReportTrue, NoWorker
<1>2. RunsSound /\ TalliesTrue /\ ReportTrue /\ [Next]_vars => TalliesTrue' /\ ReportTrue'
  <2>1. ASSUME RunsSound
        PROVE  TypeOK /\ AllGood
    BY <2>1, GoodMeans DEF RunsSound, TypeOK
  <2>. QED
    BY <2>1, StepTallies, StepReports
<1>. QED
  BY <1>1, <1>2, RunsAreSound, PTL DEF Spec
\* A schedule whose time is claimed is about to be moved past it, unless the thread that claimed it
\* stopped first or one that lagged put its time back (dashboard_schedule.py: run_due_schedules).
THEOREM ScheduleNeverLeftDue == Spec => []NeverLeftDue
<1>1. RunsSound /\ TimesInOrder /\ [Next]_vars => TimesInOrder'
  <2>1. ASSUME RunsSound
        PROVE  TypeOK /\ AllGood
    BY <2>1, GoodMeans DEF RunsSound, TypeOK
  <2>. QED
    BY <2>1, StepTimes
<1>2. TimesInOrder => NeverLeftDue
  BY DEF TimesInOrder
<1>. QED
  BY <1>1, <1>2, TimesBegin, RunsAreSound, PTL DEF Spec
=============================================================================
