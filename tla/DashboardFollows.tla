-------------------------- MODULE DashboardFollows --------------------------
(***************************************************************************)
(* One reader's follow of a dashboard: the update they are sent each period *)
(* (core/dashboard_follow.py, store/dashboard_store.py).                    *)
(*                                                                          *)
(* A scheduler process lists the follows, claims one that is due by moving  *)
(* last_sent_at on from the value it listed, and then delivers: a notice,   *)
(* and an email that the outbox keeps once for the follow and the moment it *)
(* was due from (MailOutbox).  A delivery that raises gives its claim back, *)
(* and one whose process ends does not.                                     *)
(*                                                                          *)
(* A period is told by the moment it is due from: last_sent_at, or          *)
(* created_at before the first update.  The clock goes in steps of a part   *)
(* of the period.  A follow begun again after it ended is another follow.   *)
(*                                                                          *)
(* A definition X_Something is X with a plausible bug (README, Mutants).    *)
(***************************************************************************)
EXTENDS Naturals

CONSTANTS
    Sender,      \* scheduler processes
    Pace,        \* the follow's period, in steps of the clock
    LastMoment   \* bound: the last moment of the clock

ASSUME FollowConstants == Pace \in Nat \ {0} /\ LastMoment \in Nat

Time == 0 .. LastMoment
Never == LastMoment + 1       \* last_sent_at IS NULL

VARIABLES
    follow,     \* the row of dashboard_subscription: status and last_sent_at (created at 0)
    canOpen,    \* the reader can open the dashboard
    sender,     \* where each scheduler is
    time,
    notices,    \* the periods the reader was given a notice of
    emails,     \* the dedupe keys of the emails queued: the periods
    upset       \* history: the periods claimed (one claimed again takes in those after it) and lost, whether
                \* a delivery that had told failed, and whether a notice was given twice without it

followVars == <<follow, canOpen, sender, time, notices, emails, upset>>

FollowRow == [status : {"active", "paused", "ended"}, last : Time \cup {Never}]

SenderState ==
    [at : {"idle", "listed", "deliver", "draw", "email"}, previous : Time \cup {Never}, now : Time]

Resting == [at |-> "idle", previous |-> Never, now |-> 0]

FollowInit ==
    /\ follow = [status |-> "active", last |-> Never]
    /\ canOpen = TRUE
    /\ sender = [s \in Sender |-> Resting]
    /\ time = 0
    /\ notices = {}
    /\ emails = {}
    /\ upset = [claimed |-> {}, told |-> FALSE, twice |-> FALSE, lost |-> {}]

From(last) == IF last = Never THEN 0 ELSE last

At(s, at) == sender' = [sender EXCEPT ![s].at = at]
Rest(s) == sender' = [sender EXCEPT ![s] = Resting]
Period(s) == From(sender[s].previous)

-----------------------------------------------------------------------------
DueNow(now) == now - From(follow.last) >= Pace

\* list_active_follows; the first update comes one period after following.
ListFollows(s) ==
    /\ sender[s].at = "idle"
    /\ follow.status = "active" /\ DueNow(time)
    /\ sender' = [sender EXCEPT ![s] = [at |-> "listed", previous |-> follow.last, now |-> time]]
    /\ UNCHANGED <<follow, canOpen, time, notices, emails, upset>>

ClaimFollow_Blind(s) ==
    /\ sender[s].at = "listed"
    /\ IF follow.status # "ended"
       THEN follow' = [follow EXCEPT !.last = sender[s].now] /\ At(s, "deliver")
            /\ upset' = [upset EXCEPT !.claimed = {p \in @ : p < Period(s)} \cup {Period(s)}]
       ELSE Rest(s) /\ UNCHANGED <<follow, upset>>
    /\ UNCHANGED <<canOpen, time, notices, emails>>

\* claim_follow: taken by the scheduler that still finds last_sent_at as it was listed.
ClaimFollow(s) ==
    /\ sender[s].at = "listed"
    /\ IF follow.status # "ended" /\ follow.last = sender[s].previous
       THEN follow' = [follow EXCEPT !.last = sender[s].now] /\ At(s, "deliver")
            /\ upset' = [upset EXCEPT !.claimed = {p \in @ : p < Period(s)} \cup {Period(s)}]
       ELSE Rest(s) /\ UNCHANGED <<follow, upset>>
    /\ UNCHANGED <<canOpen, time, notices, emails>>

\* Someone who can no longer open the dashboard stops following it, and is sent nothing.
Open(s) ==
    /\ sender[s].at = "deliver"
    /\ IF canOpen
       THEN At(s, "draw") /\ UNCHANGED follow
       ELSE Rest(s) /\ follow' = [follow EXCEPT !.status = "ended"]
    /\ UNCHANGED <<canOpen, time, notices, emails, upset>>

\* The headlines are drawn, and the notice kept; a second one of a period is noted unless the
\* first was of a delivery that failed.
GiveNotice(s) ==
    /\ sender[s].at = "draw"
    /\ notices' = notices \cup {Period(s)}
    /\ upset' = [upset EXCEPT !.twice = @ \/ (Period(s) \in notices /\ ~upset.told)]
    /\ At(s, "email")
    /\ UNCHANGED <<follow, canOpen, time, emails>>

\* The email, once for the period, when the reader chose it.
QueueEmail(s) ==
    /\ sender[s].at = "email"
    /\ \E byEmail \in BOOLEAN : emails' = IF byEmail THEN emails \cup {Period(s)} ELSE emails
    /\ Rest(s)
    /\ UNCHANGED <<follow, canOpen, time, notices, upset>>

Delivering(s) == sender[s].at \in {"deliver", "draw", "email"}

ReleaseFollow_Never(s) ==
    /\ Delivering(s)
    /\ Rest(s)
    /\ UNCHANGED <<follow, canOpen, time, notices, emails, upset>>

\* The delivery raises: release_follow, unless another update was sent meanwhile.
ReleaseFollow(s) ==
    /\ Delivering(s)
    /\ IF follow.last = sender[s].now
       THEN /\ follow' = [follow EXCEPT !.last = sender[s].previous]
            /\ upset' = [upset EXCEPT !.told = @ \/ sender[s].at = "email"]
       ELSE /\ upset' = [upset EXCEPT !.lost = @ \cup {Period(s)}]
            /\ UNCHANGED follow
    /\ Rest(s)
    /\ UNCHANGED <<canOpen, time, notices, emails>>

\* The process ends.
Stop(s) ==
    /\ Delivering(s)
    /\ Rest(s)
    /\ upset' = [upset EXCEPT !.lost = @ \cup {Period(s)}]
    /\ UNCHANGED <<follow, canOpen, time, notices, emails>>

-----------------------------------------------------------------------------
\* set_follow_status
PauseFollow ==
    /\ follow.status # "ended"
    /\ follow' = [follow EXCEPT !.status = IF @ = "active" THEN "paused" ELSE "active"]
    /\ UNCHANGED <<canOpen, sender, time, notices, emails, upset>>

\* The reader loses the dashboard; what takes a share away drops the follow (_drop_lost_follows),
\* leaving a group it is shared with does not.
LoseAccess ==
    /\ canOpen
    /\ canOpen' = FALSE
    /\ \E dropped \in BOOLEAN : follow' = [follow EXCEPT !.status = IF dropped THEN "ended" ELSE @]
    /\ UNCHANGED <<sender, time, notices, emails, upset>>

Unfollow ==
    /\ follow.status # "ended"
    /\ follow' = [follow EXCEPT !.status = "ended"]
    /\ UNCHANGED <<canOpen, sender, time, notices, emails, upset>>

Later ==
    /\ time < LastMoment
    /\ time' = time + 1
    /\ UNCHANGED <<follow, canOpen, sender, notices, emails, upset>>

SenderStep(s) ==
    \/ ListFollows(s)
    \/ ClaimFollow(s)
    \/ Open(s)
    \/ GiveNotice(s)
    \/ QueueEmail(s)
    \/ ReleaseFollow(s)
    \/ Stop(s)

FollowNext ==
    \/ \E s \in Sender : SenderStep(s)
    \/ PauseFollow
    \/ LoseAccess
    \/ Unfollow
    \/ Later

FollowSpec == FollowInit /\ [][FollowNext]_followVars

-----------------------------------------------------------------------------
FollowTypes ==
    /\ follow \in FollowRow
    /\ canOpen \in BOOLEAN
    /\ sender \in [Sender -> SenderState]
    /\ time \in Time
    /\ notices \subseteq Time
    /\ emails \subseteq Time
    /\ upset \in [claimed : SUBSET Time, told : BOOLEAN, twice : BOOLEAN, lost : SUBSET Time]

\* store/dashboard_store.py:986 "two schedulers never send the same update twice": the notice
\* of a period comes again only after a delivery of the follow that had told and failed.
OneNoticePerPeriod == ~upset.twice

\* core/dashboard_follow.py:48 "the update was not sent and is tried again": of a follow that
\* goes on, a period that was claimed is told, under way or due again, unless its process
\* ended, or its delivery failed after the next update was sent.
NoUpdateLost ==
    follow.status # "ended" =>
        \A p \in upset.claimed :
            \/ p \in notices \cup upset.lost
            \/ \E s \in Sender : Delivering(s) /\ Period(s) = p
            \/ From(follow.last) <= p

\* core/dashboard_follow.py:83 "once per period": an email is queued for no period without
\* its notice.
EmailsAreOfNotices == emails \subseteq notices
=============================================================================
