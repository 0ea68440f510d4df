---------------------------- MODULE ScheduleRuns ----------------------------
(***************************************************************************)
(* Dashboards emailed on a schedule: core/dashboard_schedule.py over        *)
(* store/schedule_store.py.                                                 *)
(*                                                                          *)
(* Schedulers are threads that run run_due_schedules every minute; requests *)
(* are threads that run send_now ("Send now", "Send a test").  Both deliver *)
(* a run to its people, one email at a time, through the outbox, and record *)
(* how it went.  Every `with get_db()` block is one step.  A thread may     *)
(* stop for good between two of its steps, or raise while it delivers.      *)
(* Meanwhile the owner saves, pauses, resumes and deletes the schedule.     *)
(*                                                                          *)
(* Who a run goes to, whether its owner may still send it and whether one   *)
(* person can be sent it are read from the workspace as it is at that       *)
(* moment: they are chosen anew at every read.                              *)
(*                                                                          *)
(* A definition X_Something is X with a plausible bug.  Nothing uses it:    *)
(* put in the place of X, it makes a property fail (README, Mutants).       *)
(***************************************************************************)
EXTENDS Naturals, FiniteSets

CONSTANTS
    Schedules,    \* bound: schedules 1 .. Schedules, by id
    People,       \* bound: portal users 1 .. People, by id; a schedule's owner is user 1
    Scheduler,    \* threads that run run_due_schedules() every minute
    Request,      \* request threads that run send_now()
    LastTime,     \* bound: the clock stops here
    Cadences,     \* the cadences a schedule may have, each the set of times it is due
    Limit,        \* how many due schedules one pass takes (5 in the source)
    Buttons,      \* the buttons of send_now: "now" sends to everyone, "test" to the owner
    Presses,      \* bound: seconds at which a button of send_now is pressed
    MaxEdits,     \* bound: times an owner saves, pauses, resumes or deletes
    MaxCrashes    \* bound: threads that stop half way

ASSUME ScheduleConstants ==
    /\ Schedules \in Nat
    /\ People \in Nat \ {0}
    /\ Scheduler \cap Request = {}
    /\ LastTime \in Nat
    /\ Cadences \subseteq SUBSET (1 .. LastTime)
    /\ Limit \in Nat \ {0}
    /\ Buttons \subseteq {"now", "test"}
    /\ Presses \in Nat
    /\ MaxEdits \in Nat
    /\ MaxCrashes \in Nat

Schedule == 1 .. Schedules
Person == 1 .. People
Owner == 1
Worker == Scheduler \cup Request

\* next_run_at: a time, or Never (NULL).
Never == LastTime + 1
Moment == 1 .. Never

\* (schedule_id, due_at): the time a run was due, or the button and the second it was pressed.
Run == Schedule \X (({"scheduled"} \X Moment) \cup (Buttons \X (0 .. Presses)))
ScheduleOf(r) == r[1]
KindOf(r) == r[2][1]

\* dashboard_schedule_run.status; a run that was not claimed, or is deleted, is "none".
RunStatus == {"none", "running", "sent", "partial", "failed", "nothing"}
Counts == [recipients : 0 .. People, queued : 0 .. People, skipped : 0 .. People]
NoCounts == [recipients |-> 0, queued |-> 0, skipped |-> 0]

\* A row due_schedules returned, as it was when it was read.
DueRow == [schedule : Schedule, due : Moment, cadence : SUBSET (1 .. LastTime)]

VARIABLES
    now,       \* the clock, which every cadence is read on
    life,      \* schedules: not made yet, live, or deleted
    active,    \* schedules that are not paused
    cadence,   \* each schedule's cadence
    next,      \* each schedule's next_run_at
    status,    \* each run's status
    counts,    \* each run's recipients, queued and skipped
    late,      \* running runs that started more than STALE_MINUTES ago
    outbox,    \* the emails of each run and person: none, queued, skipped, or queued twice
    worker,    \* where each thread is
    takenUp,   \* history: runs that were taken up again
    astray,    \* history: schedules that a thread claimed and never advanced, or put back in time
    pressed, edits, crashes

scheduleVars == <<life, active, cadence, next>>
runVars == <<status, counts, late>>
boundVars == <<pressed, edits, crashes>>
vars == <<now, scheduleVars, runVars, outbox, worker, takenUp, astray, boundVars>>

NoRun == <<1, <<"now", 0>>>>
NoWorker == [at |-> "idle", back |-> "sweep", now |-> 0, stale |-> {}, rows |-> {}, run |-> NoRun,
             left |-> {}, counts |-> NoCounts, failed |-> FALSE]

WorkerState ==
    [at : {"idle", "sweep", "due", "claimed", "deliver", "pausing", "sending", "failing"},
     back : {"sweep", "due"}, now : 0 .. LastTime, stale : SUBSET Run, rows : SUBSET DueRow, run : Run \cup {NoRun},
     left : SUBSET Person, counts : Counts, failed : BOOLEAN]

Init ==
    /\ now = 0
    /\ life = [s \in Schedule |-> "unmade"]
    /\ active = {}
    /\ cadence = [s \in Schedule |-> {}]
    /\ next = [s \in Schedule |-> Never]
    /\ status = [r \in Run |-> "none"]
    /\ counts = [r \in Run |-> NoCounts]
    /\ late = {}
    /\ outbox = [r \in Run |-> [p \in Person |-> "none"]]
    /\ worker = [w \in Worker |-> NoWorker]
    /\ takenUp = {}
    /\ astray = {}
    /\ pressed = 0
    /\ edits = 0
    /\ crashes = 0

-----------------------------------------------------------------------------
(***************************************************************************)
(* A pass of run_due_schedules                                              *)
(***************************************************************************)

NextRun_NotAfter(times, t) ==
    IF \E u \in times : u >= t
    THEN CHOOSE u \in times : u >= t /\ \A v \in times : v >= t => u <= v
    ELSE Never

\* next_run: the first time of a cadence after t.
NextRun(times, t) ==
    IF \E u \in times : u > t
    THEN CHOOSE u \in times : u > t /\ \A v \in times : v > t => u <= v
    ELSE Never

Later(t, u) == IF t > u THEN t ELSE u

Become(w, fields) == worker' = [worker EXCEPT ![w] = fields]

\* The pass begins: its time is taken, and the runs that were cut short are read.
Sweep(w) ==
    /\ worker[w].at = "idle"
    /\ Become(w, [NoWorker EXCEPT !.at = "sweep", !.now = now, !.stale = late])
    /\ UNCHANGED <<now, scheduleVars, runVars, outbox, takenUp, astray, boundVars>>

Restartable_Active(r) ==
    life[ScheduleOf(r)] = "live" /\ ScheduleOf(r) \in active /\ status[r] = "running"

\* restart_run lets a run that is still marked running be taken up.
Restartable(r) == life[ScheduleOf(r)] = "live" /\ status[r] = "running"

\* A run to deliver, and where the pass goes on after it.
Delivering(fields, r, back) == [fields EXCEPT !.at = "deliver", !.run = r, !.back = back]

TakeUp(w) ==
    /\ worker[w].at = "sweep"
    /\ \E r \in worker[w].stale :
        LET rest == [worker[w] EXCEPT !.stale = worker[w].stale \ {r}] IN
        \/ /\ Restartable(r)
           /\ late' = late \ {r}
           /\ takenUp' = takenUp \cup {r}
           /\ Become(w, Delivering(rest, r, "sweep"))
        \/ /\ ~Restartable(r)
           /\ Become(w, rest)
           /\ UNCHANGED <<late, takenUp>>
    /\ UNCHANGED <<now, scheduleVars, status, counts, outbox, astray, boundVars>>

\* due_schedules: the live, active schedules whose time has come, the longest due first.
IsDue(s, t) == life[s] = "live" /\ s \in active /\ next[s] <= t
Before(s, u) == next[s] < next[u] \/ (next[s] = next[u] /\ s < u)
FirstDue(t) ==
    {s \in Schedule : IsDue(s, t) /\ Cardinality({u \in Schedule : IsDue(u, t) /\ Before(u, s)}) < Limit}

ReadDue(w) ==
    /\ worker[w].at = "sweep"
    /\ worker[w].stale = {}
    /\ Become(w, [worker[w] EXCEPT
                    !.at = "due",
                    !.rows = {[schedule |-> s, due |-> next[s], cadence |-> cadence[s]] :
                              s \in FirstDue(worker[w].now)}])
    /\ UNCHANGED <<now, scheduleVars, runVars, outbox, takenUp, astray, boundVars>>

RowBefore(a, b) == a.due < b.due \/ (a.due = b.due /\ a.schedule <= b.schedule)
IsFirst(w, row) == row \in worker[w].rows /\ \A other \in worker[w].rows : RowBefore(row, other)

Claimed_NotLooked(r) == FALSE

\* claim_run: the run is inserted unless one of that schedule and time is there.
Claimed(r) == status[r] # "none"
InsertRun(r) ==
    /\ status' = [status EXCEPT ![r] = "running"]
    /\ counts' = [counts EXCEPT ![r] = NoCounts]
    /\ late' = late \ {r}

ClaimDue(w) ==
    /\ worker[w].at = "due"
    /\ \E row \in worker[w].rows :
        LET r == <<row.schedule, <<"scheduled", row.due>>>> IN
        /\ IsFirst(w, row)
        /\ \/ /\ ~Claimed(r)
              /\ InsertRun(r)
              /\ Become(w, [worker[w] EXCEPT !.at = "claimed", !.run = r])
           \/ /\ Claimed(r)
              /\ Become(w, [worker[w] EXCEPT !.rows = worker[w].rows \ {row}])
              /\ UNCHANGED runVars
    /\ UNCHANGED <<now, scheduleVars, outbox, takenUp, astray, boundVars>>

\* advance_schedule, from the row as it was read and the time the pass began.
Advance(w) ==
    /\ worker[w].at = "claimed"
    /\ \E row \in worker[w].rows :
        LET s == row.schedule
            upcoming == NextRun(row.cadence, Later(worker[w].now, row.due)) IN
        /\ IsFirst(w, row)
        /\ next' = IF life[s] = "live" THEN [next EXCEPT ![s] = upcoming] ELSE next
        /\ astray' = IF upcoming < next[s] THEN astray \cup {s} ELSE astray
        /\ Become(w, [Delivering(worker[w], worker[w].run, "due") EXCEPT !.rows = worker[w].rows \ {row}])
    /\ UNCHANGED <<now, life, active, cadence, runVars, outbox, takenUp, boundVars>>

EndPass(w) ==
    /\ worker[w].at = "due"
    /\ worker[w].rows = {}
    /\ Become(w, NoWorker)
    /\ UNCHANGED <<now, scheduleVars, runVars, outbox, takenUp, astray, boundVars>>

-----------------------------------------------------------------------------
(***************************************************************************)
(* send_now, and the delivery of one run                                    *)
(***************************************************************************)

\* A button pressed, in a new second or in the second of the press before it.
SendNow(w, s, kind) ==
    /\ worker[w].at = "idle"
    /\ life[s] = "live"
    /\ \E second \in {pressed, pressed + 1} :
        LET r == <<s, <<kind, second>>>> IN
        /\ second \in 1 .. Presses
        /\ pressed' = second
        /\ \/ /\ ~Claimed(r)
              /\ InsertRun(r)
              /\ Become(w, Delivering(NoWorker, r, "due"))
           \/ /\ Claimed(r)
              /\ UNCHANGED <<runVars, worker>>
    /\ UNCHANGED <<now, scheduleVars, outbox, takenUp, astray, edits, crashes>>

\* deliver: its owner may send it, to the people it names now; a test goes to its owner.
Audience(r) == IF KindOf(r) = "test" THEN {{Owner}} ELSE SUBSET Person

CheckOwner(w) ==
    /\ worker[w].at = "deliver"
    /\ \/ Become(w, [worker[w] EXCEPT !.at = "pausing"])
       \/ \E people \in Audience(worker[w].run) :
            Become(w, [worker[w] EXCEPT !.at = "sending", !.left = people,
                                        !.counts = [NoCounts EXCEPT !.recipients = Cardinality(people)],
                                        !.failed = FALSE])
    /\ UNCHANGED <<now, scheduleVars, runVars, outbox, takenUp, astray, boundVars>>

\* The owner can no longer send it: the schedule is paused; the run is failed next.
PauseSchedule(w) ==
    /\ worker[w].at = "pausing"
    /\ active' = active \ {ScheduleOf(worker[w].run)}
    /\ Become(w, [worker[w] EXCEPT !.at = "failing"])
    /\ UNCHANGED <<now, life, cadence, next, runVars, outbox, takenUp, astray, boundVars>>

QueuedAlready_NoKey(r, p) == FALSE

\* outbox.queue finds the email's dedupe key; a test has none.
QueuedAlready(r, p) == KindOf(r) # "test" /\ outbox[r][p] # "none"

\* One person: no address or no access, an email that could not be made, one that was
\* queued already, or one in the outbox, which may record it as skipped.
Put(r, p, what) == outbox' = [outbox EXCEPT ![r][p] = what]

Skipped(c) == [c EXCEPT !.skipped = c.skipped + 1]
Queued(c) == [c EXCEPT !.queued = c.queued + 1]

Skip_Stays(w, p) ==
    /\ Become(w, [worker[w] EXCEPT !.counts = Skipped(worker[w].counts)])
    /\ UNCHANGED outbox

Done(w, p, tally, fault) ==
    Become(w, [worker[w] EXCEPT !.left = worker[w].left \ {p}, !.counts = tally, !.failed = fault])

Skip(w, p) ==
    /\ Done(w, p, Skipped(worker[w].counts), worker[w].failed)
    /\ UNCHANGED outbox

Fail(w, p) ==
    /\ Done(w, p, worker[w].counts, TRUE)
    /\ UNCHANGED outbox

Queue(w, p) ==
    LET r == worker[w].run IN
    /\ ~QueuedAlready(r, p)
    /\ \/ /\ Put(r, p, IF outbox[r][p] \in {"queued", "twice"} THEN "twice" ELSE "queued")
          /\ Done(w, p, Queued(worker[w].counts), worker[w].failed)
       \/ /\ Put(r, p, IF outbox[r][p] = "none" THEN "skipped" ELSE outbox[r][p])
          /\ Done(w, p, Skipped(worker[w].counts), worker[w].failed)

SendOne(w) ==
    /\ worker[w].at = "sending"
    /\ \E p \in worker[w].left :
        /\ \A q \in worker[w].left : p <= q
        /\ Skip(w, p) \/ Fail(w, p) \/ Queue(w, p)
    /\ UNCHANGED <<now, scheduleVars, runVars, takenUp, astray, boundVars>>

Ending_FailedIgnored(w) ==
    LET c == worker[w].counts IN
    IF c.recipients = 0 THEN "nothing"
    ELSE IF c.queued = 0 THEN "failed"
    ELSE IF c.skipped = 0 THEN "sent" ELSE "partial"

\* How a run that went to everyone it could ended.
Ending(w) ==
    LET c == worker[w].counts IN
    IF c.recipients = 0 THEN "nothing"
    ELSE IF c.queued = 0 THEN "failed"
    ELSE IF c.skipped = 0 /\ ~worker[w].failed THEN "sent" ELSE "partial"

\* After a delivery: the pass goes on where it was, a request is over.
Resumed(w) == IF w \in Request THEN NoWorker ELSE [worker[w] EXCEPT !.at = worker[w].back]

\* finish_run writes the run by its id; a run that was deleted stays deleted.  (Runs claimed
\* again after their schedule was deleted are not told apart: nobody reads them.)
Finish(r, ending, tally) ==
    IF status[r] = "none" THEN UNCHANGED runVars
    ELSE /\ status' = [status EXCEPT ![r] = ending]
         /\ counts' = [counts EXCEPT ![r] = tally]
         /\ late' = late \ {r}

FinishRun(w) ==
    /\ \/ /\ worker[w].at = "sending"
          /\ worker[w].left = {}
          /\ Finish(worker[w].run, Ending(w), worker[w].counts)
       \/ /\ worker[w].at = "failing"
          /\ Finish(worker[w].run, "failed", NoCounts)
    /\ Become(w, Resumed(w))
    /\ UNCHANGED <<now, scheduleVars, outbox, takenUp, astray, boundVars>>

\* An exception of deliver: a scheduler fails the run, a request leaves it running.
Raise(w) ==
    /\ worker[w].at \in {"deliver", "sending"}
    /\ Become(w, IF w \in Request THEN NoWorker ELSE [worker[w] EXCEPT !.at = "failing"])
    /\ UNCHANGED <<now, scheduleVars, runVars, outbox, takenUp, astray, boundVars>>

-----------------------------------------------------------------------------
(***************************************************************************)
(* The owner, the clock and the restarts                                    *)
(***************************************************************************)
Edits == edits < MaxEdits /\ edits' = edits + 1

\* Every cadence has a next time; on this clock, one before its end.
Goes(times) == NextRun(times, now) # Never

\* save, of a new schedule or a changed one: its next time is worked out from now, and a
\* changed one is active again.
Save(s, times) ==
    /\ life[s] \in {"unmade", "live"}
    /\ Goes(times)
    /\ Edits
    /\ life' = [life EXCEPT ![s] = "live"]
    /\ cadence' = [cadence EXCEPT ![s] = times]
    /\ next' = [next EXCEPT ![s] = NextRun(times, now)]
    /\ active' = active \cup {s}
    /\ UNCHANGED <<now, runVars, outbox, worker, takenUp, astray, pressed, crashes>>

\* set_schedule_active, by the owner.
Pause(s) ==
    /\ life[s] = "live"
    /\ Edits
    /\ active' = active \ {s}
    /\ UNCHANGED <<now, life, cadence, next, runVars, outbox, worker, takenUp, astray, pressed, crashes>>

Resume(s) ==
    /\ life[s] = "live"
    /\ Goes(cadence[s])
    /\ Edits
    /\ active' = active \cup {s}
    /\ next' = [next EXCEPT ![s] = NextRun(cadence[s], now)]
    /\ UNCHANGED <<now, life, cadence, runVars, outbox, worker, takenUp, astray, pressed, crashes>>

\* delete_schedule: the schedule and its runs; what is in the outbox stays.
Delete(s) ==
    /\ life[s] = "live"
    /\ Edits
    /\ life' = [life EXCEPT ![s] = "deleted"]
    /\ active' = active \ {s}
    /\ status' = [r \in Run |-> IF ScheduleOf(r) = s THEN "none" ELSE status[r]]
    /\ late' = {r \in late : ScheduleOf(r) # s}
    /\ UNCHANGED <<now, cadence, next, counts, outbox, worker, takenUp, astray, pressed, crashes>>

Tick ==
    /\ now < LastTime
    /\ now' = now + 1
    /\ UNCHANGED <<scheduleVars, runVars, outbox, worker, takenUp, astray, boundVars>>

\* Thirty minutes since a run started, its thread alive or not.
RunAges(r) ==
    /\ status[r] = "running"
    /\ r \notin late
    /\ late' = late \cup {r}
    /\ UNCHANGED <<now, scheduleVars, status, counts, outbox, worker, takenUp, astray, boundVars>>

\* A thread stops where it is.
Stops(w) ==
    /\ worker[w].at # "idle"
    /\ crashes < MaxCrashes
    /\ crashes' = crashes + 1
    /\ astray' = IF worker[w].at = "claimed" THEN astray \cup {ScheduleOf(worker[w].run)} ELSE astray
    /\ Become(w, NoWorker)
    /\ UNCHANGED <<now, scheduleVars, runVars, outbox, takenUp, pressed, edits>>

-----------------------------------------------------------------------------
\* The steps a running thread takes on its own.
Going(w) ==
    \/ TakeUp(w) \/ ReadDue(w) \/ ClaimDue(w) \/ Advance(w) \/ EndPass(w)
    \/ CheckOwner(w) \/ PauseSchedule(w) \/ SendOne(w) \/ FinishRun(w)

Next ==
    \/ Tick
    \/ \E w \in Scheduler : Sweep(w)
    \/ \E w \in Request, s \in Schedule, kind \in Buttons : SendNow(w, s, kind)
    \/ \E w \in Worker : Going(w) \/ Raise(w) \/ Stops(w)
    \/ \E r \in Run : RunAges(r)
    \/ \E s \in Schedule : Pause(s) \/ Resume(s) \/ Delete(s)
    \/ \E s \in Schedule, times \in Cadences : Save(s, times)

Spec == Init /\ [][Next]_vars

(***************************************************************************)
(* Fairness: the scheduler's loop starts a pass every minute, a thread that *)
(* runs goes on, and a run ages.  Nothing makes the owner or a request act, *)
(* a delivery raise or a thread stop.                                       *)
(***************************************************************************)
FairSpec ==
    /\ Spec
    /\ \A w \in Scheduler : WF_vars(Sweep(w))
    /\ \A w \in Worker : WF_vars(Going(w))
    /\ \A r \in Run : WF_vars(RunAges(r))

-----------------------------------------------------------------------------
(***************************************************************************)
(* Properties                                                               *)
(***************************************************************************)

\* Every variable holds what the tables and the threads' locals can hold.
TypeOK ==
    /\ now \in 0 .. LastTime
    /\ life \in [Schedule -> {"unmade", "live", "deleted"}]
    /\ active \subseteq Schedule
    /\ cadence \in [Schedule -> SUBSET (1 .. LastTime)]
    /\ next \in [Schedule -> Moment]
    /\ status \in [Run -> RunStatus]
    /\ counts \in [Run -> Counts]
    /\ late \subseteq Run
    /\ outbox \in [Run -> [Person -> {"none", "queued", "skipped", "twice"}]]
    /\ worker \in [Worker -> WorkerState]
    /\ takenUp \subseteq Run
    /\ astray \subseteq Schedule
    /\ pressed \in 0 .. Presses
    /\ edits \in 0 .. MaxEdits
    /\ crashes \in 0 .. MaxCrashes

InHand(w) == worker[w].at \notin {"idle", "sweep", "due"}
Working(w, r) == InHand(w) /\ worker[w].run = r

\* A run is claimed by one thread before anything is sent: unless it was taken up again
\* after thirty minutes, or its schedule was deleted under it, no two threads, a scheduler
\* that read the same due row or a second press of a button included, deliver it.
OneDelivery ==
    \A r \in Run : \A w, v \in Worker :
        /\ Working(w, r) /\ Working(v, r)
        /\ r \notin takenUp
        /\ life[ScheduleOf(r)] # "deleted"
        => w = v

\* "never twice, even after a restart mid-run": a person is queued at most one email of a
\* run, whoever delivers it, restarts or takes it up again.  (A test's email has no key.)
OneEmailEach ==
    \A r \in Run, p \in Person : KindOf(r) # "test" => outbox[r][p] # "twice"

Emailed(r) == {p \in Person : outbox[r][p] \in {"queued", "twice"}}

\* A run's report never claims more than went: it counts no email that was not queued, and
\* "sent" says that everyone it named was sent one.
ReportTrue ==
    \A r \in Run :
        status[r] # "none" =>
            /\ counts[r].queued <= Cardinality(Emailed(r))
            /\ status[r] = "sent" => counts[r].queued = counts[r].recipients /\ counts[r].recipients > 0

\* A run that began ends, or is deleted, whichever thread stops or raises in the middle.
RunsEnd ==
    \A r \in Run : status[r] = "running" ~> status[r] # "running" \/ life[ScheduleOf(r)] = "deleted"

\* core/dashboard_schedule.py:20 "a server that was down sends the run it missed once,
\* late, then keeps to the schedule": a schedule that is due does not stay due.
KeepsToSchedule == \A s \in Schedule : IsDue(s, now) ~> ~IsDue(s, now)

Due(s) == <<s, <<"scheduled", next[s]>>>>

\* What KeepsToSchedule rests on: a schedule whose time is claimed is about to be moved past it, by
\* the thread that claimed it; were it not, every pass would find it claimed and go past, and it
\* would stay due for ever.  It goes astray only when that thread stops before it has advanced it,
\* or when a scheduler that lagged puts its time back, which the owner or another scheduler had
\* moved on since its row was read.
NeverLeftDue ==
    \A s \in Schedule : life[s] = "live" /\ Claimed(Due(s)) =>
        (\E w \in Worker : worker[w].at = "claimed" /\ worker[w].run = Due(s)) \/ s \in astray

\* core/dashboard_schedule.py:193 "Its next time is worked out from now": a schedule that
\* was saved is due at a time of the cadence it was saved with.
NextOnCadence ==
    \A s \in Schedule : life[s] = "live" => next[s] \in cadence[s] \cup {Never}

-----------------------------------------------------------------------------
(***************************************************************************)
(* The inductive invariant behind OneDelivery and OneEmailEach.             *)
(***************************************************************************)

\* A thread that delivers has a run of the table in hand.
InHandIsRun == \A w \in Worker : InHand(w) => worker[w].run \in Run

\* While its schedule is there, a run that is delivered has its row: claim_run refuses it.
RowsInHand ==
    \A w \in Worker :
        InHand(w) /\ life[ScheduleOf(worker[w].run)] # "deleted" => status[worker[w].run] # "none"

\* A person is counted once at most.
CountsFit ==
    \A w \in Worker :
        worker[w].at = "sending" =>
            worker[w].counts.queued + worker[w].counts.skipped + Cardinality(worker[w].left)
                <= worker[w].counts.recipients

RunsSound ==
    /\ TypeOK
    /\ InHandIsRun
    /\ RowsInHand
    /\ CountsFit
    /\ OneDelivery
    /\ OneEmailEach
=============================================================================
