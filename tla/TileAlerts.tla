----------------------------- MODULE TileAlerts -----------------------------
(***************************************************************************)
(* An alert on a dashboard's number tile, for one person it tells           *)
(* (core/tile_alerts.py, store/tile_alert_store.py, portal/routes.py).      *)
(*                                                                          *)
(* A scheduler process lists the alerts that are due and claims the check   *)
(* by moving next_check_at on from the value it listed; the alert's maker   *)
(* can have it checked at once, which claims nothing.  A check draws the    *)
(* tile as the person sees it, reads what the alert last said of the line,  *)
(* tells them when that changed (its event, a notice, an email), and then   *)
(* writes the state: steps that other checks, the maker's actions and the   *)
(* end of a process fall between.                                           *)
(*                                                                          *)
(* What a tile reads is any value.  The clock goes in steps of a part of    *)
(* the alert's interval, not of a second.  A check's other people are left  *)
(* out: they share no row, and an error met for one of them ends the check  *)
(* as Cut does.                                                             *)
(*                                                                          *)
(* A definition X_Something is X with a plausible bug (README, Mutants).    *)
(***************************************************************************)
EXTENDS Naturals

CONSTANTS
    Scheduler,   \* scheduler processes
    Hand,        \* requests of the alert's maker to have it checked at once
    Every,       \* check_minutes, in steps of the clock
    LastTime     \* bound: the last moment of the clock

ASSUME AlertConstants ==
    /\ Scheduler \cap Hand = {}
    /\ Every \in Nat \ {0}
    /\ LastTime \in Nat

Checker == Scheduler \cup Hand
Moment == 0 .. LastTime
DueAt == 0 .. LastTime + Every

VARIABLES
    alert,    \* the row of tile_alert: kept, is_active, next_check_at
    state,    \* the row of tile_alert_state: what the alert last said of the line
    check,    \* where each checker is
    clock,
    told,     \* the last event the person was told
    marked   \* the due moments claimed, and one claimed twice though the alert was not resumed;
              \* two checks at once or one cut off after it told, and a thing told again without either

alertVars == <<alert, state, check, clock, told, marked>>

AlertRow == [kept : BOOLEAN, active : BOOLEAN, next : DueAt]

CheckState ==
    [at : {"idle", "due", "draw", "drawn", "tell", "put", "done"},
     listed : DueAt, now : Moment,          \* next_check_at as it was listed, and when
     crossed : BOOLEAN, was : {"ok", "firing"}]

Idle == [at |-> "idle", listed |-> 0, now |-> 0, crossed |-> FALSE, was |-> "ok"]
Done == [Idle EXCEPT !.at = "done"]

AlertInit ==
    /\ alert = [kept |-> TRUE, active |-> TRUE, next |-> 0]
    /\ state = "none"
    /\ check = [c \in Checker |-> Idle]
    /\ clock = 0
    /\ told = "nothing"
    /\ marked = [claimed |-> {}, resumed |-> FALSE, twice |-> FALSE, excused |-> FALSE, again |-> FALSE]

-----------------------------------------------------------------------------
(***************************************************************************)
(* Who checks, and when                                                     *)
(***************************************************************************)

Goes(c, fields) == check' = [check EXCEPT ![c] = fields]
\* A scheduler looks again the next minute; a request is over.
Over(c) == Goes(c, IF c \in Scheduler THEN Idle ELSE Done)
Checking(c) == check[c].at \in {"draw", "drawn", "tell", "put"}
Together(c) == [marked EXCEPT !.excused = @ \/ \E d \in Checker \ {c} : Checking(d)]

\* due_alerts
ListDue(c) ==
    /\ c \in Scheduler /\ check[c].at = "idle"
    /\ alert.kept /\ alert.active /\ alert.next <= clock
    /\ Goes(c, [Idle EXCEPT !.at = "due", !.listed = alert.next, !.now = clock])
    /\ UNCHANGED <<alert, state, clock, told, marked>>

ClaimCheck_NotSeen(c) ==
    /\ check[c].at = "due"
    /\ IF alert.kept
       THEN /\ alert' = [alert EXCEPT !.next = check[c].now + Every]
            /\ Goes(c, [Idle EXCEPT !.at = "draw"])
            /\ marked' = [Together(c) EXCEPT !.claimed = @ \cup {check[c].listed},
                                              !.twice = @ \/ (check[c].listed \in marked.claimed /\ ~marked.resumed)]
       ELSE Over(c) /\ UNCHANGED <<alert, marked>>
    /\ UNCHANGED <<state, clock, told>>

\* claim_check: taken by the scheduler that still finds next_check_at as it was listed.
ClaimCheck(c) ==
    /\ check[c].at = "due"
    /\ IF alert.kept /\ alert.next = check[c].listed
       THEN /\ alert' = [alert EXCEPT !.next = check[c].now + Every]
            /\ Goes(c, [Idle EXCEPT !.at = "draw"])
            /\ marked' = [Together(c) EXCEPT !.claimed = @ \cup {check[c].listed},
                                              !.twice = @ \/ (check[c].listed \in marked.claimed /\ ~marked.resumed)]
       ELSE Over(c) /\ UNCHANGED <<alert, marked>>
    /\ UNCHANGED <<state, clock, told>>

\* The maker has it checked at once.
CheckAtOnce(c) ==
    /\ c \in Hand /\ check[c].at = "idle"
    /\ alert.kept
    /\ Goes(c, [Idle EXCEPT !.at = "draw"])
    /\ marked' = Together(c)
    /\ UNCHANGED <<alert, state, clock, told>>

-----------------------------------------------------------------------------
(***************************************************************************)
(* A check                                                                  *)
(***************************************************************************)

\* The maker can no longer sign in, or no longer open the tile: the alert is paused.
MakerGone(c) ==
    /\ check[c].at = "draw"
    /\ alert' = [alert EXCEPT !.active = FALSE]
    /\ Over(c)
    /\ UNCHANGED <<state, clock, told, marked>>

\* The person asked not to be told, cannot open the tile, or it reads no number.
NothingToSay(c) ==
    /\ check[c].at = "draw"
    /\ Over(c)
    /\ UNCHANGED <<alert, state, clock, told, marked>>

Draw(c) ==
    /\ check[c].at = "draw"
    /\ \E crossed \in BOOLEAN : Goes(c, [check[c] EXCEPT !.at = "drawn", !.crossed = crossed])
    /\ UNCHANGED <<alert, state, clock, told, marked>>

GetState_Unknown(c) ==
    /\ check[c].at = "drawn"
    /\ Goes(c, IF check[c].crossed THEN [check[c] EXCEPT !.at = "tell"] ELSE [Idle EXCEPT !.at = "put"])
    /\ UNCHANGED <<alert, state, clock, told, marked>>

\* get_state: the person is told when the line is crossed now and was not, or the reverse.
GetState(c) ==
    /\ check[c].at = "drawn"
    /\ LET was == IF state = "firing" THEN "firing" ELSE "ok" IN
        Goes(c, IF check[c].crossed # (was = "firing")
                THEN [check[c] EXCEPT !.at = "tell"]
                ELSE [Idle EXCEPT !.at = "put", !.was = was])
    /\ UNCHANGED <<alert, state, clock, told, marked>>

Tell(c) ==
    /\ check[c].at = "tell"
    /\ LET kind == IF check[c].crossed THEN "fired" ELSE "cleared" IN
        /\ told' = kind
        /\ marked' = [marked EXCEPT !.again = @ \/ (told = kind /\ alert.kept /\ ~marked.excused)]
    /\ Goes(c, [Idle EXCEPT !.at = "put", !.was = IF check[c].crossed THEN "firing" ELSE "ok"])
    /\ UNCHANGED <<alert, state, clock>>

PutState_Stays(c) ==
    /\ check[c].at = "put"
    /\ state' = IF state = "none" THEN check[c].was ELSE state
    /\ Over(c)
    /\ UNCHANGED <<alert, clock, told, marked>>

\* put_state: what was told, or what the state was when it was read.
PutState(c) ==
    /\ check[c].at = "put"
    /\ state' = check[c].was
    /\ Over(c)
    /\ UNCHANGED <<alert, clock, told, marked>>

\* The check raises, or its process ends; marked notes one that had told and not written.
Cut(c) ==
    /\ Checking(c)
    /\ Over(c)
    /\ marked' = [marked EXCEPT !.excused = @ \/ (check[c].at = "put" /\ check[c].was # state)]
    /\ UNCHANGED <<alert, state, clock, told>>

-----------------------------------------------------------------------------
(***************************************************************************)
(* The maker's other actions, and the clock                                 *)
(***************************************************************************)

Pause ==
    /\ alert.kept /\ alert.active
    /\ alert' = [alert EXCEPT !.active = FALSE]
    /\ UNCHANGED <<state, check, clock, told, marked>>

\* Checked again from now on, whatever was to come next.
Resume ==
    /\ alert.kept
    /\ alert' = [alert EXCEPT !.active = TRUE, !.next = clock]
    /\ marked' = [marked EXCEPT !.resumed = TRUE]
    /\ UNCHANGED <<state, check, clock, told>>

DeleteAlert ==
    /\ alert.kept
    /\ alert' = [kept |-> FALSE, active |-> FALSE, next |-> 0]
    /\ state' = "none"
    /\ UNCHANGED <<check, clock, told, marked>>

ClockTicks ==
    /\ clock < LastTime
    /\ clock' = clock + 1
    /\ UNCHANGED <<alert, state, check, told, marked>>

CheckerStep(c) ==
    \/ ListDue(c)
    \/ ClaimCheck(c)
    \/ CheckAtOnce(c)
    \/ MakerGone(c)
    \/ NothingToSay(c)
    \/ Draw(c)
    \/ GetState(c)
    \/ Tell(c)
    \/ PutState(c)
    \/ Cut(c)

AlertNext ==
    \/ \E c \in Checker : CheckerStep(c)
    \/ Pause
    \/ Resume
    \/ DeleteAlert
    \/ ClockTicks

AlertSpec == AlertInit /\ [][AlertNext]_alertVars

-----------------------------------------------------------------------------
AlertTypes ==
    /\ alert \in AlertRow
    /\ state \in {"none", "ok", "firing"}
    /\ check \in [Checker -> CheckState]
    /\ clock \in Moment
    /\ told \in {"nothing", "fired", "cleared"}
    /\ marked \in [claimed : SUBSET DueAt, resumed : BOOLEAN, twice : BOOLEAN, excused : BOOLEAN,
                    again : BOOLEAN]

\* store/tile_alert_store.py:179 "False when another scheduler took it first": a check that is
\* due is made by one scheduler, unless the alert was resumed in between (due again).
OneCheckPerDue == ~marked.twice

\* core/tile_alerts.py:13 "fires once, when the line is crossed for a person": nobody is told
\* the same thing twice in a row, unless two checks of the alert ran at once, one ended after
\* it had told and before it had written so, or the alert was deleted under a check.
FiresOnce == ~marked.again

\* core/tile_alerts.py:16 "red while it is crossed": with no check between telling and writing,
\* the bell is red exactly when the last thing the person was told is that the line is crossed.
BellIsTrue ==
    /\ alert.kept /\ ~marked.excused
    /\ \A c \in Checker : check[c].at # "put"
    => (state = "firing" <=> told = "fired")
=============================================================================
