----------------------------- MODULE MailOutbox -----------------------------
(***************************************************************************)
(* The outbox of the product's email: core/mail/outbox.py over              *)
(* store/email_store.py, with core/mail/transport.py handing a message to   *)
(* the mail service.                                                        *)
(*                                                                          *)
(* Callers (schedules, follows, alerts, invitations, tests) queue messages. *)
(* Senders are threads: the scheduler's pass deliver_due, and the request   *)
(* threads that send one message at once (send_now).  Every `with get_db()` *)
(* block of the source is one transaction, hence one step here.  A caller   *)
(* or a sender may stop for good between any two of its steps (a restart of *)
(* the server), and the answer of the mail service may be lost after it has *)
(* taken the message.                                                       *)
(*                                                                          *)
(* Time is abstract: `aged` says that a claim is older than the 15 minutes  *)
(* of release_stuck_emails, `due` that next_attempt_at has come.            *)
(*                                                                          *)
(* A definition X_Something is X with a plausible bug.  Nothing uses it:    *)
(* put in the place of X, it makes a property fail (README, Mutants).       *)
(***************************************************************************)
EXTENDS Naturals, FiniteSets

CONSTANTS
    Message,      \* what callers ask to send: an address, a kind and a content
    Keyed,        \* the messages queued with a dedupe_key (the message is its own key)
    WithFiles,    \* the messages that carry attachments
    Stoppable,    \* the messages of a kind their owner can stop (opt_out_kind)
    Caller,       \* threads that call queue()
    Scheduler,    \* threads that run deliver_due() every minute
    Request,      \* request threads that run send_now()
    DomainRules,  \* bound: the allowed-domain settings saved, as the messages outside them
    LastEmail,    \* bound: the outbox holds at most this many rows
    Batch,        \* BATCH, how many messages one pass takes
    Backoffs,     \* len(BACKOFF_MINUTES), the tries put off before giving up
    MaxCrashes,   \* bound: threads that stop half way
    MaxRetries,   \* bound: times an admin presses Retry
    AnswersLost   \* whether the service's answer may be lost after it took a message

ASSUME OutboxConstants ==
    /\ Message # {}
    /\ Scheduler \cap Request = {}
    /\ Keyed \subseteq Message
    /\ WithFiles \subseteq Message
    /\ Stoppable \subseteq Message
    /\ DomainRules \subseteq SUBSET Message
    /\ LastEmail \in Nat
    /\ Batch \in Nat \ {0}
    /\ Backoffs \in Nat
    /\ MaxCrashes \in Nat
    /\ MaxRetries \in Nat
    /\ AnswersLost \in BOOLEAN

Email == 1 .. LastEmail         \* email_outbox.id, given out in order
Sender == Scheduler \cup Request

\* A row that was never inserted is "none"; the others are STATUSES of the source.
Status == {"none", "queued", "sending", "sent", "failed", "skipped"}

\* What transport.send answers: an id, Permanent, Transient, or any other exception.
Answer == {"accepted", "permanent", "transient", "fault"}

VARIABLES
    status,      \* email_outbox.status of each row
    content,     \* the message each row holds
    attempts,    \* email_outbox.attempts, counted no further than it is compared
    due,         \* rows whose next_attempt_at has come
    aged,        \* rows being sent whose claimed_at is older than 15 minutes
    filed,       \* rows whose attachments_json is written
    caller,      \* where each caller is
    sender,      \* where each sender is
    configured,  \* mail_settings.load().configured
    outside,     \* messages whose address is outside the allowed domains
    optedOut,    \* messages whose owner stopped them (email_opt_out)
    copies,      \* the mail service: copies it took of each row (0, 1 or Many)
    bare,        \* the mail service: rows it took without their attachments
    disturbed,   \* history: rows whose claim lapsed or whose answer was lost
    crashes, retries

rowVars == <<status, content, attempts, due, aged, filed>>
worldVars == <<configured, outside, optedOut>>
mailVars == <<copies, bare, disturbed>>
countVars == <<crashes, retries>>
vars == <<rowVars, caller, sender, worldVars, mailVars, countVars>>

Many == 2

NoCaller == [at |-> "idle", message |-> CHOOSE m \in Message : TRUE, skip |-> FALSE, email |-> 1]
NoSender == [at |-> "idle", todo |-> {}, email |-> 1, ready |-> FALSE,
             tries |-> 0, answer |-> "fault"]

CallerState == [at : {"idle", "decided", "looked", "inserted"}, message : Message,
                skip : BOOLEAN, email : 1 .. LastEmail + 1]
SenderState == [at : {"idle", "released", "batch", "claimed", "answered"}, todo : SUBSET Email,
                email : 1 .. LastEmail + 1, ready : BOOLEAN, tries : 0 .. Backoffs + 1, answer : Answer]

Init ==
    /\ status = [e \in Email |-> "none"]
    /\ content = [e \in Email |-> CHOOSE m \in Message : TRUE]
    /\ attempts = [e \in Email |-> 0]
    /\ due = {}
    /\ aged = {}
    /\ filed = {}
    /\ caller = [c \in Caller |-> NoCaller]
    /\ sender = [s \in Sender |-> NoSender]
    /\ configured \in BOOLEAN
    /\ outside = {}
    /\ optedOut = {}
    /\ copies = [e \in Email |-> 0]
    /\ bare = {}
    /\ disturbed = {}
    /\ crashes = 0
    /\ retries = 0

-----------------------------------------------------------------------------
(***************************************************************************)
(* Queueing a message                                                       *)
(***************************************************************************)

\* Its address is outside the allowed domains, or its owner has stopped it.
Unwelcome(m) == m \in outside \/ (m \in Stoppable /\ m \in optedOut)

\* The skip decided by outbox.queue, from the settings and the opt-outs as they are now.
Refused(m) == ~configured \/ Unwelcome(m)

\* The rows that hold dedupe_key m.
RowsOfKey(m) == {e \in Email : status[e] # "none" /\ content[e] = m /\ m \in Keyed}

\* outbox.queue reads the settings and the opt-out before it writes anything.
QueueDecide(c, m) ==
    /\ caller[c].at = "idle"
    /\ \E e \in Email : status[e] = "none"
    /\ caller' = [caller EXCEPT ![c] = [@ EXCEPT !.at = "decided", !.message = m,
                                                 !.skip = Refused(m)]]
    /\ UNCHANGED <<rowVars, sender, worldVars, mailVars, countVars>>

\* queue_email's SELECT on dedupe_key: a key that is there already ends the call.
QueueLookup(c) ==
    /\ caller[c].at = "decided"
    /\ caller' = [caller EXCEPT ![c] = IF RowsOfKey(caller[c].message) # {}
                                       THEN NoCaller ELSE [@ EXCEPT !.at = "looked"]]
    /\ UNCHANGED <<rowVars, sender, worldVars, mailVars, countVars>>

\* email_outbox.dedupe_key is UNIQUE: the INSERT of a key that came in between raises.
KeyTaken_NotUnique(c) == FALSE
KeyTaken(c) == RowsOfKey(caller[c].message) # {}

NextEmail(e) == status[e] = "none" /\ \A f \in Email : f < e => status[f] # "none"

\* queue_email's INSERT, committed before any attachment is written.
QueueInsert(c) ==
    /\ caller[c].at = "looked"
    /\ ~KeyTaken(c)
    /\ LET m == caller[c].message IN
       \E e \in Email :
        /\ NextEmail(e)
        /\ status' = [status EXCEPT ![e] = IF caller[c].skip THEN "skipped" ELSE "queued"]
        /\ content' = [content EXCEPT ![e] = m]
        /\ attempts' = [attempts EXCEPT ![e] = 0]
        /\ due' = due \cup {e}
        /\ caller' = [caller EXCEPT ![c] = IF m \in WithFiles
                                           THEN [@ EXCEPT !.at = "inserted", !.email = e]
                                           ELSE NoCaller]
    /\ UNCHANGED <<aged, filed, sender, worldVars, mailVars, countVars>>

\* The INSERT refused by the UNIQUE key (the exception reaches the caller), or, for the
\* bound on rows only, an outbox that is full.
QueueRefused(c) ==
    /\ caller[c].at = "looked"
    /\ KeyTaken(c) \/ \A e \in Email : status[e] # "none"
    /\ caller' = [caller EXCEPT ![c] = NoCaller]
    /\ UNCHANGED <<rowVars, sender, worldVars, mailVars, countVars>>

\* The files written, then attachments_json in a transaction of its own.
QueueAttach(c) ==
    /\ caller[c].at = "inserted"
    /\ filed' = filed \cup {caller[c].email}
    /\ caller' = [caller EXCEPT ![c] = NoCaller]
    /\ UNCHANGED <<status, content, attempts, due, aged, sender, worldVars, mailVars, countVars>>

-----------------------------------------------------------------------------
(***************************************************************************)
(* Sending                                                                  *)
(***************************************************************************)

\* release_stuck_emails, the first statement of a pass: every aged claim is put back.
Stuck_Never == {}
Stuck == {e \in aged : status[e] = "sending"}

ReleaseStuck(s) ==
    /\ sender[s].at = "idle"
    /\ status' = [e \in Email |-> IF e \in Stuck THEN "queued" ELSE status[e]]
    /\ disturbed' = disturbed \cup Stuck
    /\ aged' = {}
    /\ sender' = [sender EXCEPT ![s].at = "released"]
    /\ UNCHANGED <<content, attempts, due, filed, caller, worldVars, copies, bare, countVars>>

\* due_emails, oldest first, then the settings for the whole pass.
Waiting == {e \in Email : status[e] = "queued" /\ e \in due}
DueEmails == {e \in Waiting : Cardinality({f \in Waiting : f < e}) < Batch}

ReadDue(s) ==
    /\ sender[s].at = "released"
    /\ sender' = [sender EXCEPT ![s] = [@ EXCEPT !.at = "batch", !.todo = DueEmails,
                                                 !.ready = configured]]
    /\ UNCHANGED <<rowVars, caller, worldVars, mailVars, countVars>>

\* claim_email: an UPDATE that only a queued row lets through.
Claim(e) ==
    /\ status' = [status EXCEPT ![e] = "sending"]
    /\ attempts' = [attempts EXCEPT ![e] = IF @ > Backoffs THEN @ ELSE @ + 1]
    /\ aged' = aged \ {e}
    /\ UNCHANGED <<content, due, filed>>

Claimable_WhoeverHasIt(e) == status[e] \in {"queued", "sending"}
Claimable(e) == status[e] = "queued"

\* The pass with one message fewer to go.
Without(s, e) == [sender[s] EXCEPT !.todo = sender[s].todo \ {e}]

\* The next message of the pass is claimed, or left to whoever took it first.
ClaimNext(s) ==
    /\ sender[s].at = "batch"
    /\ sender[s].ready
    /\ \E e \in sender[s].todo :
        /\ \A f \in sender[s].todo : e <= f
        /\ \/ /\ Claimable(e)
              /\ Claim(e)
              /\ sender' = [sender EXCEPT ![s] = [Without(s, e) EXCEPT !.at = "claimed",
                                                                      !.email = e]]
           \/ /\ ~Claimable(e)
              /\ sender' = [sender EXCEPT ![s] = Without(s, e)]
              /\ UNCHANGED rowVars
    /\ UNCHANGED <<caller, worldVars, mailVars, countVars>>

\* The pass is over, or email is not set up and what is due waits in the queue.
EndPass(s) ==
    /\ sender[s].at = "batch"
    /\ sender[s].todo = {} \/ ~sender[s].ready
    /\ sender' = [sender EXCEPT ![s] = NoSender]
    /\ UNCHANGED <<rowVars, caller, worldVars, mailVars, countVars>>

\* send_now: the claim of one queued message, due or not, and the settings as they are.
SendNow(s, e) ==
    /\ sender[s].at = "idle"
    /\ Claimable(e)
    /\ Claim(e)
    /\ sender' = [sender EXCEPT ![s] = [NoSender EXCEPT !.at = "claimed", !.email = e,
                                                        !.ready = configured]]
    /\ UNCHANGED <<caller, worldVars, mailVars, countVars>>

\* What the service may answer: without settings transport.send refuses before it connects.
Answers(s) == IF sender[s].ready THEN Answer ELSE {"permanent"}

\* Whether the service took the message.  An accepted one it did; any other answer may
\* reach the sender after it did (a timeout after the data, a failing QUIT).
Arrival(s, answer) ==
    IF answer = "accepted" THEN {TRUE}
    ELSE IF AnswersLost /\ sender[s].ready THEN BOOLEAN ELSE {FALSE}

\* _attempt up to transport.send's return: the row read again, the files there are, the call.
Attempt(s) ==
    /\ sender[s].at = "claimed"
    /\ LET e == sender[s].email IN
       \E answer \in Answers(s) : \E arrived \in Arrival(s, answer) :
        /\ sender' = [sender EXCEPT ![s] = [@ EXCEPT !.at = "answered", !.answer = answer,
                                                     !.tries = attempts[e]]]
        /\ copies' = [copies EXCEPT ![e] = IF arrived /\ @ < Many THEN @ + 1 ELSE @]
        /\ bare' = IF arrived /\ content[e] \in WithFiles /\ e \notin filed
                   THEN bare \cup {e} ELSE bare
        /\ disturbed' = IF arrived /\ answer # "accepted" THEN disturbed \cup {e} ELSE disturbed
    /\ UNCHANGED <<rowVars, caller, worldVars, countVars>>

\* mark_sent, mark_failed and mark_retry write the row by its id, whoever holds it now.
PutOff_OneMore(s) == sender[s].answer = "transient" /\ ~(sender[s].tries > Backoffs + 1)
PutOff(s) == sender[s].answer = "transient" /\ ~(sender[s].tries > Backoffs)

Outcome_FaultIsSent(s) == IF sender[s].answer \in {"accepted", "fault"} THEN "sent"
                          ELSE IF PutOff(s) THEN "queued" ELSE "failed"

Outcome(s) == IF sender[s].answer = "accepted" THEN "sent"
              ELSE IF PutOff(s) THEN "queued" ELSE "failed"

NextOfPass(s) == [NoSender EXCEPT !.at = "batch", !.todo = sender[s].todo,
                                  !.ready = sender[s].ready]

Record(s) ==
    /\ sender[s].at = "answered"
    /\ LET e == sender[s].email IN
        /\ status' = [status EXCEPT ![e] = Outcome(s)]
        /\ due' = IF PutOff(s) THEN due \ {e} ELSE due
        /\ aged' = aged \ {e}
    /\ sender' = [sender EXCEPT ![s] = IF s \in Scheduler THEN NextOfPass(s) ELSE NoSender]
    /\ UNCHANGED <<content, attempts, filed, caller, worldVars, mailVars, countVars>>

-----------------------------------------------------------------------------
(***************************************************************************)
(* The admin, the settings, the clock and the restarts                      *)
(***************************************************************************)

\* requeue_email, an admin's Retry: nothing of queue()'s decision is looked at again.
Requeue_AnyRow(e) ==
    /\ status[e] # "none"
    /\ retries < MaxRetries
    /\ retries' = retries + 1
    /\ status' = [status EXCEPT ![e] = "queued"]
    /\ attempts' = [attempts EXCEPT ![e] = 0]
    /\ due' = due \cup {e}
    /\ UNCHANGED <<content, aged, filed, caller, sender, worldVars, mailVars, crashes>>

Requeue(e) ==
    /\ status[e] \in {"failed", "skipped"}
    /\ retries < MaxRetries
    /\ retries' = retries + 1
    /\ status' = [status EXCEPT ![e] = "queued"]
    /\ attempts' = [attempts EXCEPT ![e] = 0]
    /\ due' = due \cup {e}
    /\ UNCHANGED <<content, aged, filed, caller, sender, worldVars, mailVars, crashes>>

\* mail_settings.save: email set up or taken down, the allowed domains changed.
SaveSettings(on, out) ==
    /\ configured' = on
    /\ outside' = out
    /\ UNCHANGED <<rowVars, caller, sender, optedOut, mailVars, countVars>>

OptOut(m) ==
    /\ optedOut' = optedOut \cup {m}
    /\ UNCHANGED <<rowVars, caller, sender, configured, outside, mailVars, countVars>>

OptBackIn(m) ==
    /\ optedOut' = optedOut \ {m}
    /\ UNCHANGED <<rowVars, caller, sender, configured, outside, mailVars, countVars>>

\* Fifteen minutes since a claim, its sender alive or not.
ClaimAges(e) ==
    /\ status[e] = "sending"
    /\ e \notin aged
    /\ aged' = aged \cup {e}
    /\ UNCHANGED <<status, content, attempts, due, filed, caller, sender, worldVars, mailVars,
                   countVars>>

\* The pause after a try that was put off is over.
BackoffEnds(e) ==
    /\ status[e] = "queued"
    /\ e \notin due
    /\ due' = due \cup {e}
    /\ UNCHANGED <<status, content, attempts, aged, filed, caller, sender, worldVars, mailVars,
                   countVars>>

\* A thread stops where it is: what it had not written is lost.
SenderStops(s) ==
    /\ sender[s].at # "idle"
    /\ crashes < MaxCrashes
    /\ crashes' = crashes + 1
    /\ sender' = [sender EXCEPT ![s] = NoSender]
    /\ UNCHANGED <<rowVars, caller, worldVars, mailVars, retries>>

CallerStops(c) ==
    /\ caller[c].at # "idle"
    /\ crashes < MaxCrashes
    /\ crashes' = crashes + 1
    /\ caller' = [caller EXCEPT ![c] = NoCaller]
    /\ UNCHANGED <<rowVars, sender, worldVars, mailVars, retries>>

-----------------------------------------------------------------------------
Queueing(c) == QueueLookup(c) \/ QueueInsert(c) \/ QueueRefused(c) \/ QueueAttach(c)

Sending(s) == ReadDue(s) \/ ClaimNext(s) \/ EndPass(s) \/ Attempt(s) \/ Record(s)

Next ==
    \/ \E c \in Caller, m \in Message : QueueDecide(c, m)
    \/ \E c \in Caller : Queueing(c) \/ CallerStops(c)
    \/ \E s \in Scheduler : ReleaseStuck(s)
    \/ \E s \in Request, e \in Email : SendNow(s, e)
    \/ \E s \in Sender : Sending(s) \/ SenderStops(s)
    \/ \E e \in Email : Requeue(e) \/ ClaimAges(e) \/ BackoffEnds(e)
    \/ \E on \in BOOLEAN, out \in DomainRules : SaveSettings(on, out)
    \/ \E m \in Stoppable : OptOut(m) \/ OptBackIn(m)

Spec == Init /\ [][Next]_vars

(***************************************************************************)
(* Fairness: the scheduler's loop starts a pass every minute, a thread that *)
(* runs goes on, and the clock moves.  Nothing makes a caller queue, an     *)
(* admin retry, or a request thread send.                                   *)
(***************************************************************************)
FairSpec ==
    /\ Spec
    /\ \A s \in Scheduler : WF_vars(ReleaseStuck(s))
    /\ \A s \in Sender : WF_vars(Sending(s))
    /\ \A e \in Email : WF_vars(ClaimAges(e)) /\ WF_vars(BackoffEnds(e))

-----------------------------------------------------------------------------
(***************************************************************************)
(* Properties                                                               *)
(***************************************************************************)

\* Every variable holds what the tables and the threads' locals can hold.
TypeOK ==
    /\ status \in [Email -> Status]
    /\ content \in [Email -> Message]
    /\ attempts \in [Email -> 0 .. Backoffs + 1]
    /\ due \subseteq Email
    /\ aged \subseteq Email
    /\ filed \subseteq Email
    /\ caller \in [Caller -> CallerState]
    /\ sender \in [Sender -> SenderState]
    /\ configured \in BOOLEAN
    /\ outside \subseteq Message
    /\ optedOut \subseteq Message
    /\ copies \in [Email -> 0 .. Many]
    /\ bare \subseteq Email
    /\ disturbed \subseteq Email
    /\ crashes \in 0 .. MaxCrashes
    /\ retries \in 0 .. MaxRetries

\* A dedupe key is one row of the outbox, however many callers queue it at once
\* (store/email_store.py: "keeps a message that is queued twice to one row").
OneRowPerKey ==
    \A e, f \in Email :
        /\ status[e] # "none" /\ status[f] # "none"
        /\ content[e] = content[f] /\ content[e] \in Keyed
        => e = f

\* The mail service takes a message more than once only when a claim of it lapsed
\* or an answer about it was lost: threads that race for a row, crash before sending,
\* give up or are retried by an admin never make a second copy.
OncePerMessage == \A e \in Email : copies[e] > 1 => e \in disturbed

\* The delivery log tells what happened: "sent" only when the service took the message,
\* and, unless a claim lapsed or an answer was lost, a message that is waiting, failed or
\* skipped has not gone.
LogIsTrue ==
    \A e \in Email :
        /\ status[e] = "sent" => copies[e] > 0
        /\ status[e] \in {"none", "queued", "failed", "skipped"} /\ e \notin disturbed
           => copies[e] = 0

\* A message that has used up its tries is given up, never queued for one more, as
\* long as no second sender came to hold it.
GivesUp ==
    \A e \in Email : status[e] = "queued" /\ attempts[e] > Backoffs => e \in disturbed

\* While email is set up, a message that waits or is being sent ends sent, failed or
\* skipped, whichever threads stop on the way.
Settles ==
    \A e \in Email :
        status[e] \in {"queued", "sending"}
            ~> status[e] \in {"sent", "failed", "skipped"} \/ ~configured

\* core/mail/outbox.py:8 "recorded as skipped, never sent, when ... the address is outside the
\* allowed domains, or its owner stopped this kind of email": while email stays set up, a message
\* that was skipped is not sent, an admin's Retry or not, as long as what it was skipped for holds.
SkippedNeverSent ==
    []configured => \A e \in Email : [](status[e] = "skipped" /\ []Unwelcome(content[e]) => [](copies[e] = 0))

\* core/dashboard_schedule.py:13 "The email carries the dashboard itself ... with the PDF
\* attached, through the outbox".
NeverSentBare == bare = {}

-----------------------------------------------------------------------------
(***************************************************************************)
(* The inductive invariant behind the properties.                           *)
(***************************************************************************)
Holds(s, e) == sender[s].at \in {"claimed", "answered"} /\ sender[s].email = e

\* A thread works on rows that exist, and an accepted answer means a copy that left.
ThreadsOnRows ==
    /\ \A c \in Caller :
        caller[c].at = "inserted" => caller[c].email \in Email /\ status[caller[c].email] # "none"
    /\ \A s \in Sender :
        sender[s].at \in {"claimed", "answered"}
            => sender[s].email \in Email /\ status[sender[s].email] # "none"
    /\ \A s \in Sender :
        sender[s].at = "answered" /\ sender[s].answer = "accepted" => copies[sender[s].email] > 0

\* What is logged as sent has gone.
SentHasGone == \A e \in Email : status[e] = "sent" => copies[e] > 0

\* Only a row that exists can be disturbed.
DisturbedExist == \A e \in disturbed : status[e] # "none"

\* A row has one sender at most, which holds it while it is "sending", has sent nothing
\* before its answer, and knows how often the row was tried.
RowSound(e) ==
    /\ \A s, t \in Sender : Holds(s, e) /\ Holds(t, e) => s = t
    /\ \A s \in Sender : Holds(s, e) => status[e] = "sending"
    /\ \A s \in Sender : Holds(s, e) /\ sender[s].at = "claimed" => copies[e] = 0
    /\ \A s \in Sender : Holds(s, e) /\ sender[s].at = "answered"
            => /\ sender[s].answer # "accepted" => copies[e] = 0
               /\ sender[s].tries = attempts[e]
    /\ status[e] \in {"none", "queued", "failed", "skipped"} => copies[e] = 0
    /\ status[e] = "queued" => attempts[e] <= Backoffs
    /\ copies[e] <= 1

\* Every row that was never disturbed is sound; with the types, this is inductive.
OutboxSound ==
    /\ TypeOK
    /\ ThreadsOnRows
    /\ SentHasGone
    /\ DisturbedExist
    /\ \A e \in Email \ disturbed : RowSound(e)

-----------------------------------------------------------------------------
(***************************************************************************)
(* What the outbox promises of each row, as MailContract states it.         *)
(***************************************************************************)
RowOutcome(e) ==
    IF status[e] = "none" THEN "none"
    ELSE IF e \in disturbed THEN "unsure"
    ELSE IF copies[e] = 1 THEN "delivered"
    ELSE IF copies[e] > 1 THEN "duplicated"
    ELSE IF status[e] \in {"failed", "skipped"} THEN "refused"
    ELSE "open"

Contract == INSTANCE MailContract WITH outcome <- [e \in Email |-> RowOutcome(e)]

\* The outbox implements the contract: each row goes through its life in order.
KeepsContract == Contract!Spec
=============================================================================
