# TLA+ models of QueryBot

QueryBot (Solviz) answers questions about a company's database in its own words, and keeps
dashboards of the answers. This directory holds TLA+ models of the parts of it that are hard to
test: what several threads and servers do to the same tables, what a restart in the middle leaves
behind, and what must happen in the end. TLC checks the models on small instances; TLAPS proves the
main invariants for every instance.

Every definition is translated from the Python source, and PROJECT.json maps each to its lines.
Where the code does something its own comments or docstrings deny, a run shows it (*Findings*).

## Running it

    tlc -config MailSenders.cfg MCMailOutbox      # one run
    tlapm MailOutboxProofs.tla                    # one module of proofs

    tlc -config ServerParts.cfg MCServer          # nine parts in one run
    tlapm ServerProofs.tla

A cfg sets constants and names what is checked, `ScheduleThreads.cfg` one constraint besides (*Bounds*). A run takes at most four minutes
with two workers, a module of proofs about as long.

## Inventory

| Part | Source | State it keeps | Operations | Hard behaviour | What makes it correct |
|---|---|---|---|---|---|
| Mail outbox | core/mail, store/email_store.py | email_outbox rows (status, attempts, claim), attachments, opt-outs, settings | queue, send due, send now, retry by an admin, release lapsed claims | two senders of a row, a restart around the SMTP call, lost answers, back-off | a message goes once unless the server lost track of it; the log is true; every message settles |
| Dashboard schedules | core/dashboard_schedule.py, store/schedule_store.py | schedules (cadence, next time, paused), runs (status, counts) | save, pause, resume, delete, send now, the scheduler's pass | two schedulers, restarts mid-run, edits under a pass | a run has one thread; nobody is sent two emails; a run ends; the schedule keeps to its times |
| Kept dashboard rows | core/dashboard_refresh.py, store/dashboard_store.py | encrypted rows of a source with the policy and contract versions, expiry, failures, the claim of the owner's notice | view, refresh, forget on a change of access, failure and back-off, tell the owner | access that changes while a refresh runs; access that ends by itself; failures in two threads | rows served are rows the owner may see; the owner is told once |
| Notification scheduler | core/notification_scheduler.py | none | runs eight kinds of work every minute, mail last | one kind failing must not stop the others | fairness of the passes it starts |
| Decision log | store/compliance_store.py, core/compliance/proof_pack.py, governed_query.py | records chained by hash, attestations | append, verify; run, release, mask, unmask | the tiles of a dashboard append at once; a write that fails; an attestation that ends between two reads | unmasked rows have their record; a log nobody edited is not called broken |
| Copies of metrics | core2/copies.py, core2/precompute.py, store/core2_store.py | a row and files per copy, who makes it and since when | make on schedule, make now, take out, change database, answer from it | a making taken over after two hours, a copy taken out while it is made, a file deleted under an answer | a ready copy has its file, an answer's file stays, nothing of a removed copy stays |
| Tile alerts | core/tile_alerts.py, store/tile_alert_store.py | the alert, its next check, its state for each person | claim a check, check at once, tell, write the state, pause, resume, delete | telling comes before writing; a check at once claims nothing | told once each time the line is crossed; the bell is true |
| Dashboard follows | core/dashboard_follow.py, store/dashboard_store.py | the follow, its last update | list, claim, tell, email, give back | two schedulers, a delivery that fails late | each period told once, none lost |
| Chat turns | core/webhook_dedup.py, gateway/webhooks.py, core/dispatcher.py | deliveries remembered, a lock per user | take in, dispatch, answer, clean up | a retry racing the first delivery, a lock dropped while somebody is woken for it | one turn of a user at a time, each comes to its end |
| Readers' requests | core2/request_service.py, store/core2_store.py | requests, their lists of what stood before, decisions | accept, reject, withdraw, undo, edit | a setup check's thread beside the page, an acceptance that stops half way | applied by one, undone as a whole |
| Sign-in | store/sign_in_throttle.py, portal, admin | failures, the last, the wait | ask, check the password, count, clear | logins of one identity at once | guesses are spaced, few mistakes are free, nobody is shut out for long |
| The model answers are drawn from | core2/bootstrap/service.py, store/core2_store.py | the kept model and its stamp | ask, load, keep, forget | reads of three things that change in between | an answer is of the model as it is |
| Answers check | core2/answers_check.py, store/core2_store.py, admin/core2_answers_check.py | the client's questions, runs, results | due, claim, ask and store, let go | a run lost to a restart, decisions that change during it | what is not due is checked; all gets checked |
| Governed query | core/compliance | policies, classifications, attestations | check, rewrite, run, mask, log | policy that changes during the query | order: in the decision log and the kept rows; the rest is data |
| Learn | core2/bootstrap | build versions, proposals | build, propose | what it finds is data | its versions are a step of two modules |
| Core 2 engine | core2/plan, resolve, compile, answer | none between requests | question to plan to SQL to answer | ambiguity, clarification | data, not interleaving |
| Core 1 pipeline | core/query_pipeline.py, core/dispatcher.py | result cache, conversation state | dispatch, validate, answer | as Core 2 | as Core 2 |
| Gateway | gateway | conversations | each channel's format | retries and order: chat turns | as chat turns |
| Semantic contract | core/semantic_contract.py, store/semantic_compile_store.py | drafts, published versions | compile, publish, roll back | publishing racing a query: kept rows | rows are kept under the version they were given |
| Reports and threshold alerts | core/report_engine.py, core/alert_engine.py | files of reports and alerts, last sent | run due | a file written back whole by whoever changes it | told below, not modelled |
| Agent runtime, admin and portal pages, deployment, evaluations | core/agent_runtime.py, admin, portal, deploy, evals | | | sequential, or not the program's logic | |

### How the parts interact

One process serves the pages and, on a thread of its own, runs `core/notification_scheduler.py`:
every minute it calls the passes of the reports, alerts, refreshes (`run_due_dashboard_refreshes`),
tile alerts, follows, copies and schedules (`run_due_schedules`), and last of all the outbox
(`deliver_due`). Each pass has its own `try`, so a pass that raises costs the others nothing. Two
server processes on one database are two schedulers. Parts meet in tables only:

- a schedule's run *queues* its emails (`core/mail/outbox.queue`) under a key of the run and the
  person, and the outbox sends them; `send_now` of a page does the same from a request thread;
- the admin's and the compliance pages change people, rules, policies and contracts, and forget kept
  rows in the same transaction (`forget_kept_rows`);
- a refresh that keeps failing puts a notice on the owner's page (`core/notices`), as do a tile alert
  and a follow, which queue an email besides;
- an accepted request and a setup check write decisions (core2_override); the decisions are part of the
  stamp of the model that answers are drawn from, and make the answers check due.

Every model takes a `with get_db()` block as one step: SQLite has one writer, and the blocks modelled
write before they read or write conditionally (`UPDATE ... WHERE`, `INSERT ... ON CONFLICT`). Between
two blocks anything may happen, and a thread may stop for good.

## The modules

| Module | What it is |
|---|---|
| MailOutbox | the outbox: callers that queue, senders that send, admins that retry |
| MailContract | what one row of the outbox promises; MailOutbox implements it |
| ScheduleRuns | schedules, their runs and the emails of each person |
| KeptRows | the rows kept for a dashboard's owner, and what ends them |
| DecisionLog | governed queries that append to a workspace's chain, and the proof pack's check of it |
| MetricCopies | one copy of a metric: its row, files, makers and readers |
| TileAlerts | one alert on a tile, for one person |
| DashboardFollows | one reader's follow of a dashboard |
| UserTurns | deliveries of chat messages, and the locks of their users |
| ReaderRequests | requests, the decisions they write, and undoing |
| SignIn | the throttle of one identity |
| KeptModel | the model kept between questions, under its stamp |
| AnswersCheck | when a client's own questions are asked again |
| MC* | instances of these for TLC |
| *Proofs | theorems about these, and the lemmas they rest on |

### MailOutbox

`status`, `content`, `attempts`, `due`, `aged`, `filed` are columns of email_outbox (`due` holds rows
whose next_attempt_at has come, `aged` those claimed over fifteen minutes ago, `filed` those with
their attachments written). `caller` and `sender` are the locals of threads between two
transactions; `configured`, `outside`, `optedOut` are the settings and opt-outs. `copies`, `bare` and
`disturbed` are history: how often the service took the message, whether a copy left without its
files, and whether the server lost track of it (a claim that lapsed, a lost answer).

| Action | Code |
|---|---|
| QueueDecide, QueueLookup, QueueInsert, QueueRefused, QueueAttach | `outbox.queue`, `email_store.queue_email`: whether it is skipped, the key that is looked up, the insert, its UNIQUE refusal, the files of the second transaction |
| ReleaseStuck, ReadDue, ClaimNext, EndPass | `deliver_due`: lapsed claims go back, what is due is read once, each row is claimed in turn |
| SendNow | `outbox.send_now`, on a request thread |
| Attempt | the transport: accepted, refused for good, refused for now, or an answer that is lost |
| Record | `mark_sent`, `mark_failed`, `mark_retry`, which look at nothing but the id |
| Requeue, SaveSettings, OptOut, OptBackIn | the admin's Retry, the settings, the link in an email |
| ClaimAges, BackoffEnds | the clock |
| SenderStops, CallerStops | a restart |

`MailContract` says what the outbox promises of one row: it is open, then delivered, refused or, once
the server lost track of it, unsure; a delivered row is never open again, a refused one only when an
admin retries it. `KeepsContract` is the refinement, with `RowOutcome` as its mapping.

### ScheduleRuns

`life`, `active`, `cadence`, `next` are dashboard_schedule; `status`, `counts`, `late` are
dashboard_schedule_run (`late`: started over thirty minutes ago). `outbox` is what of each run and
person the outbox holds; `worker` the locals of a thread. `takenUp` and `astray` are history:
the runs that were taken up again, and the schedules that a thread claimed and never advanced, or put
back in time.

| Action | Code |
|---|---|
| Sweep, TakeUp | `run_due_schedules` restarts the runs that were cut short |
| ReadDue, ClaimDue, Advance, EndPass | the due rows are read once; each is claimed (INSERT of its run), then advanced along the cadence that was read, then delivered |
| SendNow | `send_now`: a run of its own, keyed by the second |
| CheckOwner, PauseSchedule | `deliver`: who it goes to, and what stops it |
| SendOne, FinishRun | `_deliver_all`: one person at a time is skipped, failed or queued; then the run's status |
| Raise, Stops | an exception out of `deliver`; a restart |
| Save, Pause, Resume, Delete | the owner's page |
| Tick, RunAges | the clock |

People, their standing and their access are read anew whenever the code reads them, so the model
chooses them anew. A cadence is the set of times it is due.

### KeptRows

`kept` is dashboard_source_cache: for each source None, or what its rows were released under, the two
versions they are labelled with, when they were refreshed, when they expire, the failures since, and
the claim of the owner's notice. `person`, `active`, `rules`, `ends` are the owner's access: the first
and third count its changes, `ends` holds when attestations and grants end. `policy`, `made`, `saving`
are the compliance profile, `contract` the published meaning. `job` holds a thread's locals.
`notices`, `cut`, `wentBack` and two fields of a row (`asked`, `raced`) are history.

| Action | Code |
|---|---|
| StartPass, TakeSource | `run_due_dashboard_refreshes`, `refresh_dashboard_source`: what is due is read once, the owner for each source |
| View, LookUp, Serve | the owner's page: the kept rows, if their labels and time allow |
| ReadLabels, ResolveContext, QueryWorks, QueryFails, AskHowLong, SaveRows | `execute_dashboard_source`, in its order: the labels, the policy and the query, how long (`_kept_for`), the save |
| MarkError, Claim, AddNotice, NoticeFails, ReleaseNotice | a refresh that failed, and `_tell_the_owner` |
| ChangePerson, ChangeRules, Grant, Revoke | the writes that call `forget_kept_rows` |
| Publish | a new contract version, which forgets nothing: its label does |
| ReadProfile, WriteProfile | `save_compliance_profile`, which reads the profile in one transaction and writes all of it in another |
| Stop, Tick | a restart; the clock |

### DecisionLog

`records` is policy_decision_log of one workspace: a record's hash stands for it and is written as its
place (seq, then created_at and a random id). `attestation` is what the reader's valid attestations
cover; `query` where each query is. `atOnce`, and a query's `covered`, are history.

| Action | Code |
|---|---|
| Begin, Run | `execute_governed_query`: may it run; the rows are read, may they be released, what is masked |
| ReadLast, ReadSeq, Insert, InsertFails | `log_policy_decision`: the last record, the highest seq, the INSERT that begins the transaction |
| AskAttested, ReadScope | `user_attestation_valid`, then what it covers, in another read |
| Sign | an attestation is signed, ends or is revoked |

`Verdict` is `integrity_section` of the proof pack.

### MetricCopies

`row` is core2_copies, its times told apart only as the code compares them; `files` the copy's files,
each named by the making that wrote it; `maker`, `remover`, `answer` the locals of threads; `process`
this service process. `noted` is history.

| Action | Code |
|---|---|
| RunDue, MakeNow | `run_due_copies`, the admin's button: `copy_making` claims the row |
| ReadRows, WriteFile, SeeOld, Swap, LookAgain, Tidy | `make`: the query, the file in its place, the row's file, `copy_made`, the second look, the files it deletes |
| Fail | an exception out of any of these, the second look and the tidying included: `copy_failed`, whoever holds the row then |
| RemoveRow, RemoveFiles, SwitchDatabase | taking a copy out; another database |
| RestartService, TimePasses | the service; the clock |
| ListReady, EndAnswer | an answer that reads the file |

### TileAlerts

`alert` and `state` are tile_alert and tile_alert_state; `check` the locals of a checker; `told` the last
event. `marked` is history.

| Action | Code |
|---|---|
| ListDue, ClaimCheck | `run_due_tile_alerts`, `claim_check` |
| CheckAtOnce | the maker's "check now" |
| MakerGone, NothingToSay, Draw, GetState, Tell, PutState | `check`, `_draw`, `get_state`, `_tell`, `put_state`, in their order |
| Cut | an exception, or the process ends |
| Pause, Resume, DeleteAlert, ClockTicks | the maker; the clock |

### UserTurns

`turn` is a delivery between two awaits; `locks` is `_LOCKS`, `waiting` the waiters of asyncio's locks,
`seen` is `_SEEN`. `late` and `dropped` are history.

| Action | Code |
|---|---|
| Deliver, Expire | `is_duplicate_event`, `remember_event`; a message's time to live |
| TakeDispatch, TakeAnswer | `get_user_serialization_lock` with its clean-up, and `async with`: taken at once or waited for |
| WakeDispatch, WakeAnswer | the first that waits for a lock that was released runs |
| EndDispatch, EndTurn | the dispatch leaves an answer to the background, or is over, or raised; the answer is over |

### DashboardFollows

`follow` is dashboard_follow; `sender` the locals of a scheduler; `notices` and `emails` what was told,
by the period. `upset` is history.

| Action | Code |
|---|---|
| ListFollows, ClaimFollow | `list_active_follows`, `claim_follow` (a conditional UPDATE of the last update) |
| Open, GiveNotice, QueueEmail | `_deliver`, `_email`: may the reader still open it, the notice, the email under its key |
| ReleaseFollow, Stop | the delivery raised, and `release_follow` gives its claim back; the process ends |
| PauseFollow, LoseAccess, Unfollow, Later | the reader, the owner; the clock |

### ReaderRequests

`request` is core2_request with what stood before each decision (`applied`); `override` is core2_override;
`doing` the locals of the page and of a setup check's thread. `cut` and `back` are history.

| Action | Code |
|---|---|
| ClaimRequest, ReadBefore, WriteDecision, RecordApplied | `accept`: a conditional UPDATE, then decision after decision, then the list |
| BeginUndo, ClaimUndo, ReadNow, PutBack | `undo`: from the last decision to the first, each only if it still stands |
| Refuse | `reject`, `withdraw` |
| Edit | an admin's or a setup check's own decision |
| CutShort | a write raises, or a restart |

### SignIn

`attempts` is the row of sign_in_attempt; `login` the locals of a request; `minute` the clock; `tally` is
history: what was typed wrong, and what that should cost.

| Action | Code |
|---|---|
| AskWait, Verify | `sign_in_wait_seconds`, `verify_password` |
| ReadFailures, WriteFailure | `record_sign_in_failure`: the read before the transaction, the write |
| ClearFailures, NewPassword | `clear_sign_in_failures` after the right password; a change of it, `clear_sign_in_scope` |
| CutOff, MinutePasses | a request that ends early; the clock |

### KeptModel

`current` is what a model is made of now (version, decisions, discovery's file); `answering` is
`_ANSWERING`; `learned` the masking the latest version was learned with; `asking` the locals of a
question. `saw` is history.

| Action | Code |
|---|---|
| Ask, StampDecisions, LookUpKept | `answering_model`: the two reads of the stamp, the file's time, the kept model |
| LoadRow, LoadDecisions, Keep | `load_model`, `mask_as_discovered`, and keeping it under the stamp read first |
| MaskingFails | `mask_as_discovered` raises: the question is answered with the model masked as it was learned, and nothing is kept |
| Learned, Decide, Discovered, ForgetModel | what changes it; a restart |

### AnswersCheck

`questions`, `result`, `running`, `whole` are the tables (`running`: the run of the unique index; `whole`: the
stamp of the last finished run of every question); `noticed` is `_SEEN`, `busy` is `_RUNNING`.
`shaken` is history.

| Action | Code |
|---|---|
| Due, Settles | `run_due_answer_checks`, `due`: what is due, and decisions that have stopped changing |
| AskNow | the admin's page: every question, or one |
| ReadStamp, ClaimRun, BeginRun | `start`: with no question nothing is claimed, the stamp, the INSERT, the questions listed anew |
| Answer, StoreResult, FinishRun, FailRun, LoseRun | the run's thread, which may end before its `try` |
| RunGrowsOld, LostRunGrowsOld, Restart | two hours; a restart |
| ChangeDecisions, StartLearn, EndLearn, AddQuestion, DeleteQuestion | what makes it due |

### MCServer

These nine share no table and call none of each other's code: all that passes between them is that a
decision changes, which each module that minds has as an action. One run checks them: `moving`
names the part that goes on, chosen once, and the others stand still. What a part may do depends on
nothing of the others, so what holds of each alone holds of all together, and the states of one run are
the sum, not the product, of theirs. ServerStaysSound proves that the parts' invariants hold together,
and uses of MCServer only that each of its steps is to each part one of its own or none.

## The runs

| Run | Instance | What it checks |
|---|---|---|
| mail_senders | two callers of one keyed report, a scheduler, an admin's send; one stop, one retry, answers lost; two rows | OneRowPerKey, OncePerMessage, LogIsTrue, GivesUp, OutboxSound |
| mail_rows | two rows, one scheduler, files; fair | Settles, KeepsContract |
| mail_skipped | one report its owner can stop, one caller, a scheduler, an admin's send, one retry; nothing stops, no answer is lost; fair | SkippedNeverSent fails |
| mail_bare | two schedulers, files | NeverSentBare fails |
| schedule_threads | one schedule to two people, two schedulers, one of which may stop; it is saved, then saved again, paused, resumed or deleted; a clock of two ticks | OneDelivery, OneEmailEach, ReportTrue, RunsSound, NeverLeftDue |
| schedule_ends | one schedule, saved once (a delivery may pause it), one scheduler, a test's request, one stop; fair | RunsEnd |
| schedule_stuck | one scheduler, one stop; fair | KeepsToSchedule fails |
| schedule_edit | one scheduler, two edits | NextOnCadence fails |
| kept_access | one source, a refresher, a page, an admin who saves the profile; two changes, one failure | KeptUnderAccess, EndsWithItsGrant, ServedNoOlderPolicy, KeptSound |
| kept_notice | two sources, two refreshers, a page; four failures, one stop | ToldOnce, ClaimIsKept |
| kept_stale | one source, a refresher, a page, one change | NextViewUnderAccess fails |
| server_parts | the nine parts, one at a time (below) | the twenty properties below |

`kept_access` also checks TypeOK; OutboxSound, RunsSound and ServerSound contain theirs.

| Part in server_parts | Instance | Properties |
|---|---|---|
| DecisionLog | two queries at once, one change of the attestation | UnmaskedIsLogged, VerdictIsSound |
| MetricCopies | three makings, any of which may fail at any step, one restart; fair | NothingStays, ReadyHasItsFile, StillReadable, MakingEnds |
| TileAlerts | two schedulers, one check at once, two moments of the clock and a check due at each | FiresOnce, BellIsTrue |
| UserTurns | two deliveries of a message, another of the same user, one of another; one lock kept before a clean-up; fair | OneTurnAtATime, TurnsEnd |
| DashboardFollows | two schedulers, four moments, one a period | OneNoticePerPeriod, NoUpdateLost |
| ReaderRequests | two requests that meet in one field, one edit, one setup check | CanBeUndone, UndoneGoesBack |
| SignIn | two logins at once, one free failure, waits of one, two and three minutes, five minutes | GuessesAreSpaced, FewMistakesAreFree |
| KeptModel | two questions at once, two changes | AnsweredAsOfNow |
| AnswersCheck | two threads, two questions, two digests, two events; fair | NothingDueIsChecked, AnswersGetChecked |

ServerSound gathers what is smaller: the types, OneMaking, OneCheckPerDue, NoRetryMeanwhile,
EmailsAreOfNotices, AppliedByOne, NothingOfTheRefused and NeverShutOutForLong, each stated in its
module.

**Bounds, and why they are enough.** Each bound is a constant named for what it bounds. What goes
wrong in these parts goes wrong between two threads at one row, so two of each kind of thread that can
collide and one or two rows show every collision; a third repeats what the second did, and the
theorems hold for any number. One stop is enough because a thread that stopped is like one that never
comes back. Back-off is one step, not six: `GivesUp` looks at the last, and every other is like the
first. The clock of a schedule is one tick where one due time is all that matters, two in `schedule_threads`,
where a scheduler lags while another moves the schedule on, and four where its cadence does. At the
last time of `schedule_threads` nothing is explored past an email or a stop (QuietAtTheEnd): that time
is there for the scheduler that lags, and delivering once more then would show nothing new. The clock
of the kept rows is three, in which a grant can end before, within and after the least life of a cache (two ticks; a life the policy decides on is one or three). Two changes are a change and a
change back, or a policy and a grant. Runs that check invariants only use symmetry of threads;
those with liveness do not. `kept_access` does not ask for freedom from deadlock: an inactive owner,
nothing due, the clock at its bound and no change left is where it stops by construction. Nor does
`server_parts`: each part comes to its bounds and stops. All other passing runs do ask.

In `server_parts`, three makings are one whose last steps fail, the next, which had claimed the row, and
one that finds it free (the last takes over none that is still at work, and time goes on until it has
claimed the row); the service restarts only while a making or a removal is under way (at other
times a restart ends an answer and nothing else); two deliveries and
one of the same user are the least in which one holds a lock, one waits and a third makes it anew; the
throttle needs one free failure (a second is like it) and three waits to tell doubling from the
longest; two questions' answers are the least in which a change falls between them. What a bound
leaves out of the invariants the theorems cover, for every part; what it leaves out of the liveness
properties they do not. A larger instance of AnswersCheck (three events, 2.2 million states) was
checked once by hand, with no error.

**Fairness.** Only in the runs that check liveness, and only what the code's own scheduling gives: the
loop of the notification scheduler starts a pass every minute (`WF` of ReleaseStuck and Sweep, the
first step of a pass), a thread that runs goes on (`WF` of its own steps), and time passes (`WF` of
ClaimAges, BackoffEnds, RunAges). Nothing makes a caller queue, an owner or an admin act, a button be
pressed, a service accept, a thread stop or an exception be raised. Weak fairness is enough because
each of these stays enabled until it is taken.
In `server_parts`: a making's thread goes on, its clock runs and the minute's pass makes what is due
(MakerStep, TimePasses, RunDue), but no answer, admin or restart need come; turns go on
(GoesOn: the event loop runs what is ready, and a lock wakes who waits for it), but no message need
come; a run of the answers check goes on, the pass claims what is due, decisions left alone settle,
two hours pass for a run nobody does any more, and a Learn ends. Each is asked for only while its part is
the one that moves. MakingEnds and TurnsEnd say that something is so again and again: for what
begins only finitely often that is that it ends.

## Mutants

A definition named X_Something is X with a bug somebody could write: a guard that looks at one row instead
of all, a claim that is not given back, a comparison off by one. No other definition uses it. Each
property of each passing run names in PROJECT.json one such bug which, put in place of X, makes TLC
find the property violated in that very run. So no property holds merely because of the model's shape.

## Findings

Four disagreements of the mail and the schedules and one of the kept rows, each a run whose property
quotes the code:

1. **A skipped message can be sent** (`mail_skipped`). A message is "recorded as skipped, never
   sent" when its owner stopped this kind of email (core/mail/outbox.py:8), and "an admin can retry a
   failed message" (15). Retry takes a skipped row back too (store/email_store.py:152), and neither it
   nor the sender looks again at the opt-out or the allowed domains: the run's message is sent to
   somebody who is still opted out, with email set up all along.
2. **A report can leave without its PDF** (`mail_bare`). The row is committed as queued before its
   attachments are recorded (core/dashboard_schedule.py:13).
3. **A restart can leave a schedule due for ever** (`schedule_stuck`). It is claimed in one transaction and
   advanced in a later one; afterwards every pass finds it claimed, and goes on before advancing
   (core/dashboard_schedule.py:20).
4. **An edit can be overwritten** (`schedule_edit`). A pass advances a schedule along the cadence it read
   before the save (core/dashboard_schedule.py:193).
5. **Rows of a refresh in flight survive the change that should end them** (`kept_stale`). The change
   forgets what is kept; the refresh that ran its query before it saves afterwards
   (store/dashboard_store.py:1205).

Seen while modelling, and covered by no run of their own:

- A claim is released after fifteen minutes whether or not its sender is alive. A sender that is merely
  slow then sends a second copy. (`disturbed` in MailOutbox; store/email_store.py says a message is
  never sent twice.)
- A run that is taken up counts the people whose email is in the outbox already as skipped, so a run
  that reached everyone can be recorded as failed (core/dashboard_schedule.py:296). ReportTrue is
  therefore stated one way only.
- The email of a test has no key: a test run that is taken up sends it again (OneEmailEach leaves
  tests out).
- A scheduler that lags between claiming and advancing can put next_run_at back to a time that has been
  claimed since, after the owner's edit or when another scheduler moved it on: the effect of
  finding 3, and no restart. NeverLeftDue excepts the schedule then (`astray`), and nothing else.
- Access that ends *while a query runs* is no longer in force when `access_ends_at` is asked; nothing
  limits the rows then, and they are kept for the whole cache life, past an end the docstring says they
  are not kept past (store/compliance_store.py:1024). EndsWithItsGrant excepts the case (`asked < e`).
- A save of the compliance profile that overlaps an activation writes the older policy version back,
  and, seeing no difference to what it read, forgets nothing (`wentBack`).
- A refresher that was told the owner is due a notice claims it even if the failures ended meanwhile;
  the next run of failures finds the claim taken. A restart between claim and notice has the same
  effect (`cut`).
- A slow refresh may overwrite the rows of a later one: no run compares when their queries ran.

And in the nine parts, where the properties except what the code does (each exception is a history variable
with its name):

- *Decision log.* Appends at once fork the chain, though the comment says seq is assigned inside the
  transaction (store/compliance_store.py:848): sqlite3 begins one at the INSERT. Two records
  both written as the first are reported as a break, not a fork. That the last record was removed
  does not show.
- *Copies.* What a making that failed or stopped left as `.making` is never deleted. Makers that overlap
  can leave a ready row whose file the other deleted. `copy_failed` does not ask whose the row is: a
  making that fails in its second look or its tidying frees the row that the next has claimed, and
  a third starts beside that (`freed`). A making that fails after it wrote its file, its row not
  updated or its second look raising, leaves that file of a copy removed meanwhile, as does a
  stop between the row and the files (`cut`).
- *Tile alerts.* People are told before the state is written, and a check at once claims nothing: they can
  be told twice. The claim does not ask whether the alert is active: one more check after a pause.
  A check that ends after the alert was deleted leaves its state behind, and may tell.
- *Chat turns.* The clean-up takes a lock that was released and has woken a waiter for a free one, against
  core/webhook_dedup.py:177; the next turn then makes another and both run. A message is
  remembered before it is dispatched: the retry of one whose dispatch raised is dropped. Answers are not
  in the order of the messages.
- *Follows.* A restart after the claim loses that summary. Leaving a group does not end the follow until
  the next delivery looks.
- *Requests.* An acceptance that raises part way keeps no list, and what it wrote cannot be undone.
  Undoing a request that a setup check still applies puts nothing back. Undoing a later request brings
  back the decision of an earlier one that was undone already. Undoing compares values, not who
  wrote them.
- *Sign-in.* The window is as long as the longest wait: after it the count starts afresh, with its free
  failures. Two failures counted at once count as one. One that was being counted when the password
  changed puts its wait back.
- *Kept model.* A model read while decisions changed is kept under the stamp read before; taken back,
  they find it. The version and the decisions of a stamp are two reads. While discovery's file cannot
  be read, each question is answered with the masking its version was learned with, which may be
  older than what the question before it was answered with (`unread`).
- *Answers check.* Decisions that change and come back during a run leave answers of the others, with
  nothing due. A run let go after two hours whose thread lives stores old answers, and its end clears
  the mark of the newer. A thread that cannot list its questions holds the workspace's checks for
  two hours.
- *Threshold alerts* (not modelled). `_save` of core/alert_engine.py truncates the file and writes it, so a
  read in between finds no alerts (`_load` answers [] then) and a change made of that saves a list
  without the others. The scheduler's and the gateway's load, change and save overlap. A report's
  last_sent is written after its delivery, with no claim.

## The proofs

TLAPS proves each listed theorem for every value of the constants: any number of rows, threads,
schedules, people, sources, stops and changes. The assumptions on the constants are the modules'
own ASSUMEs: bounds are natural numbers, sets of threads of different kinds are disjoint, None is no
value of the sets it is added to. TLC evaluates them in every run. The shape is one everywhere: the
invariant holds at the start, one lemma per action or group of actions shows that a step keeps it, and
the properties follow from it.

- **MailOutboxProofs** (OutboxSound). OncePerMessage is not inductive: that a second copy never
  leaves rests on a row having one holder, on that holder having sent nothing before its answer, and
  on the row being "sending" while it is held. RowSound states this of the rows that were never
  *disturbed*; of the others nothing is claimed. From it follow OncePerMessage, LogIsTrue, GivesUp
  and, action by action, that each step of the outbox is a step of MailContract or none
  (OutboxKeepsContract).
- **ScheduleRunsProofs** (RunsSound). Two threads cannot both deliver a run since claiming one needs
  that it has no row: so whoever delivers must be known to have the row (RowsInHand). The counts of
  a run stay in their type since nobody is counted twice (CountsFit). NeverLeftDue rests on the order of
  times (TimesInOrder): no thread has read a time later than its schedule's is now, unless the time
  was put back, and none that is claimed lies past it; so whoever advances a schedule moves it past
  every time that is claimed, or has put it back (ScheduleNeverLeftDue).
- **KeptRowsProofs** (KeptSound). What a row holds was read long before it was written, so the
  invariant speaks of the threads: ReadsBoundWrites says that a label is no newer than the policy at
  the query, and that the time a thread was given ends with the access it read, unless rules changed
  since. LabelsAreOld carries the first over to rows, whence ServedNoOlderPolicy. ClaimSound says
  that a claim is the only one of its dashboard and, until the owner is told, in its thread's hand;
  whence ToldOnce and ClaimIsKept. Two lemmas find the least end in force (the CHOOSE of KeptFor) by
  well-foundedness of the naturals.
- **ReaderRequestsProofs** (RequestsAreSound). Who writes holds the request alone (OneWriter); what
  is listed is a prefix of what it writes (ListsAreSound); an undoing has the whole list in hand and
  goes through it backwards, so what it has passed is not in force (PutBackInTurn). Whence
  AppliedByOne, NothingOfTheRefused, CanBeUndone and UndoneGoesBack.
- **DeliveryProofs**. Follows (FollowsAreSound): each sender has the span from the last update it
  read to its own; spans do not overlap (SpansApart), for the claim is conditional on what was read,
  and what was told lies behind (ToldLiesBehind). Turns (TurnsAreSound): until a clean-up drops a lock
  somebody was woken for, every turn that has a lock has the one that is kept for its user
  (LocksAreCurrent); of one lock one turn works, and each that waits stands in line once (InLine).
  Alerts (AlertsAreSound): a moment that was claimed lies behind the next check (ClaimedLieBehind);
  with one check at a time, the state is what was told last (PutsWhatWasTold, TellsNews).
- **AnsweringProofs**. KeptModel (ModelIsSound): a version, a masking and decisions in a question's
  hand are no older than the question, and the kept model is no older than its stamp; where discovery's
  file could not be read, the masking is that of a version in force since the question began
  (`learned` in `saw`), and it stays in that question's hand. MetricCopies
  (CopyIsSound): until a takeover or a late failure the row is claimed by the one making at work
  (ClaimedByOne); while
  no two makings overlapped, nobody deletes the row's file or the one a making is about to put there
  (FilesAreKept), and an answer's file is the row's or the one before it (AnswerIsKept); of a copy
  that was removed only a making that will look again has a file (RemovedInOrder). AnswersCheck
  (AnswersAreSound): a run has checked every question it has passed
  against its stamp, as long as that is the model (RunChecks); no stamp is of a version to come
  (NoneIsNewer), so a Learn makes them all old; and an answer in a run's hand is of the model
  wherever the run's stamp or the last whole check's is (DrawsAsOfNow).
- **AccessProofs**. SignIn: the failures in a row or about to be written, with those not yet read, are
  no more than were typed wrong (CountIsSound), by counting the logins that failed. As long as one
  login is under way at a time, the row, or the count about to be written, is no less than the
  wrong passwords counted one by one (RowKeepsUp, WriteKeepsUp), and a login that got past the question was late
  enough (CheckedInTime); since a wait grows with the failures (WaitsGrow) and never passes MAX_WAIT
  (WaitIsBounded), ThrottleIsSound gives GuessesAreSpaced and NeverShutOutForLong. DecisionLog:
  whoever gets as far as appending "unmasked" was covered (ShownIsSound); while appends come one
  after another the last record is of the highest seq and each names the one before (LogIsSound), so
  none is a fork or a break. However they interleave, each record names one of a lower seq, or none
  (ChainIsSound): the first record that does not name the one before it therefore either names a
  record another has named already, and is a fork, or is a second first one
  (SoundChainForks); and where all is well the one after a missing record names what is not there
  (SoundChainShowsGaps).
- **ServerProofs**. The parts together: a step of MCServer is to each part a step of its own or none
  (PartsMove), so all the invariants hold at once (PartsStaySound), and ServerSound with them. Hence
  MCServer's specification implies that of each part, fairness aside (ServerRunsItsParts), and what
  is proved of a part alone holds of the server the run checks (ServerKeepsItsPromises).

Least numbers (LeastNumber) stand in for induction, which the provers cannot instantiate: the least
exponent at which a wait would shrink, the first wrong record of a log, the next making are found as
the least of a set by well-foundedness of the naturals. Powers of two need a fact that is in no
library, what `^` is on the exponents in use: the assumption PowersOfTwo of SignIn says it, and TLC
evaluates it.

OneRowPerKey, ReportTrue and NeverLeftDue are among the theorems of the first two. Every invariant that a run checks
is stated by a theorem. What stays with TLC is liveness (Settles, RunsEnd, MakingEnds,
TurnsEnd, AnswersGetChecked), since fairness and ENABLED are out of the prover's reach.

## Simplifications

- Text, amounts, pictures, templates and languages are left out; an address is its message.
- The many reads of one governed query are one step. The owner's role and values are read before it,
  groups and tables during it: `person` stands for all of them and is read first. A row whose refresh a
  change of any of them fell into is `raced`, and no property but NextViewUnderAccess speaks of it.
- The policy's and the contract's labels are two reads, and one step. Creating a version and activating
  it are one step before the save of the profile.
- A claim of the owner's notice is named by its thread, in the code by its second: two claims of one
  second are not told apart by `release_owner_notice`.
- `schedule_store`'s last_status and last_detail are written and shown, and left out. The two transactions
  of saving a schedule are one. Stale runs of a sweep are taken in any order.
- On PostgreSQL a block is not one step: two conditional writes may both see the table as it was. The
  models are of SQLite, the default.
- A copy's making lists and deletes files in one step. An alert is checked for one person. A dispatch that
  takes no lock (Zoom, the portal) is left out. One setup check runs at a time. The other names a
  request adds are one value. A workspace is alone: that only so many models are kept costs one
  its place, as a restart does. The reads of one pass of the answers check are one step.
- Deleting dashboards, sources and people is left out; people and their standing vary in the schedules
  all the same, since they are chosen anew.

## Plan

Of the plan this project began with, in the order of what would hurt most if it were wrong, these parts
are there: mail, schedules, kept rows, the decision log and the order of a governed query, tile
alerts, follows, copies, sign-in, chat turns, requests, the kept model, the answers check. What is left:

1. ScheduleRuns composed with MailOutbox, in place of the former's `outbox`: the rows a run queues are
   those the other sends.
2. ReaderRequests composed with KeptModel and AnswersCheck: that a decision is in the next answer and
   in the next check.
3. Reports and threshold alerts, once their files are written whole: now there is little to promise of them.

## Not modelled

Core 1 and Core 2 answer one question at a time from text and a language model: what could be wrong in
them is in data this method does not enumerate; by lines they and the pages are most of the
repository. A Learn's findings, the question map, the meaning a contract publishes and the policies'
columns are data too; where their versions matter to others they are actions of those modules.
Pages, permissions of forms, the agent's tool loop, migrations, deployment scripts, packs and
evaluations hold no protocol. Each is listed in PROJECT.json with its reason.
