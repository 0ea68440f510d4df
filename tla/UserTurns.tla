------------------------------ MODULE UserTurns ------------------------------
(***************************************************************************)
(* The chat messages of Teams and Slack, taken in turn (core/webhook_dedup, *)
(* gateway/webhooks.py, core/dispatcher.py): a delivery seen lately is      *)
(* dropped, and the dispatch of a message and later its answer each run     *)
(* under a lock of their user.                                              *)
(*                                                                          *)
(* Every turn is one delivery of a message, on one event loop: a step here  *)
(* is what a coroutine does between two awaits.  `async with` on a lock     *)
(* that is free takes it without an await.  A lock that is released wakes   *)
(* the first of those who wait for it, and is free until that one runs;     *)
(* nobody else can take it meanwhile.                                       *)
(*                                                                          *)
(* Zoom's dispatch takes no lock, and the portal has one connection a       *)
(* person: neither is modelled.                                             *)
(*                                                                          *)
(* A definition X_Something is X with a plausible bug (README, Mutants).    *)
(***************************************************************************)
EXTENDS Naturals, FiniteSets, Sequences, SequencesExt

CONSTANTS
    Turn,        \* deliveries
    MessageOf,   \* the message each delivers
    UserOf,      \* and its user (platform, account, user)
    MaxLocks     \* _LOCKS_MAX_ENTRIES

ASSUME TurnConstants ==
    /\ IsFiniteSet(Turn)
    /\ DOMAIN MessageOf = Turn /\ DOMAIN UserOf = Turn
    /\ \A t, s \in Turn : MessageOf[t] = MessageOf[s] => UserOf[t] = UserOf[s]
    /\ MaxLocks \in Nat

User == {UserOf[t] : t \in Turn}
Message == {MessageOf[t] : t \in Turn}

\* A lock is told from its user's other ones by a number; 0 is none.
LockId == 1 .. Cardinality(Turn) + 1
NoLock == 0

VARIABLES
    turn,      \* where each delivery is, and the lock it holds or waits for
    locks,     \* _LOCKS: each user's lock
    waiting,   \* the turns that wait for a lock, in the order they came
    seen,      \* _SEEN: the messages remembered, within their time to live
    late,      \* history: a message was forgotten while a turn of it was under way
    dropped    \* history: a clean-up dropped a lock somebody waited for

turnVars == <<turn, locks, waiting, seen, late, dropped>>

TurnState ==
    [at : {"new", "accepted", "dispatch waits", "dispatch", "enqueued", "answer waits", "answer", "done"},
     lock : LockId \cup {NoLock}]

TurnInit ==
    /\ turn = [t \in Turn |-> [at |-> "new", lock |-> NoLock]]
    /\ locks = [u \in User |-> NoLock]
    /\ waiting = <<>>
    /\ seen = {}
    /\ late = FALSE
    /\ dropped = FALSE

-----------------------------------------------------------------------------
(***************************************************************************)
(* A delivery: is_duplicate_event, remember_event                           *)
(***************************************************************************)

Deliver(t) ==
    /\ turn[t].at = "new"
    /\ turn' = [turn EXCEPT ![t].at = IF MessageOf[t] \in seen THEN "done" ELSE "accepted"]
    /\ seen' = seen \cup {MessageOf[t]}
    /\ UNCHANGED <<locks, waiting, late, dropped>>

\* Its time to live ends.  (Left out for a message that is delivered no more: nothing asks.)
Expire(m) ==
    /\ m \in seen /\ \E t \in Turn : MessageOf[t] = m /\ turn[t].at = "new"
    /\ seen' = seen \ {m}
    /\ late' = (late \/ \E t \in Turn : MessageOf[t] = m /\ turn[t].at \notin {"new", "done"})
    /\ UNCHANGED <<turn, locks, waiting, dropped>>

-----------------------------------------------------------------------------
(***************************************************************************)
(* A user's lock: get_user_serialization_lock, async with                   *)
(***************************************************************************)

Waits == {"dispatch waits", "answer waits"}
Locked(u, l) == \E t \in Turn : UserOf[t] = u /\ turn[t].lock = l /\ turn[t].at \notin Waits
Awaited(u, l) == \E t \in Turn : UserOf[t] = u /\ turn[t].lock = l /\ turn[t].at \in Waits

Cleaned_LockedToo == {u \in User : locks[u] # NoLock}

\* The entries the clean-up drops: those that are not locked.
Cleaned == {u \in User : locks[u] # NoLock /\ ~Locked(u, locks[u])}

MustClean(u) ==
    locks[u] = NoLock /\ Cardinality({v \in User : locks[v] # NoLock}) >= MaxLocks

\* A lock that nothing refers to.
NewLock(u) ==
    CHOOSE l \in LockId : l # locks[u] /\ \A t \in Turn : UserOf[t] = u => turn[t].lock # l

LockOf(u) == IF locks[u] # NoLock THEN locks[u] ELSE NewLock(u)

\* Its user's lock is fetched, made when there is none, and taken at once or waited for.
Take(t, at, waits) ==
    LET u == UserOf[t]
        l == LockOf(u)
        gone == IF MustClean(u) THEN Cleaned ELSE {}
    IN  /\ locks' = [v \in User |-> IF v = u THEN l ELSE IF v \in gone THEN NoLock ELSE locks[v]]
        /\ dropped' = (dropped \/ \E v \in gone : Awaited(v, locks[v]))
        /\ IF Locked(u, l) \/ Awaited(u, l)
           THEN turn' = [turn EXCEPT ![t] = [at |-> waits, lock |-> l]] /\ waiting' = Append(waiting, t)
           ELSE turn' = [turn EXCEPT ![t] = [at |-> at, lock |-> l]] /\ UNCHANGED waiting
        /\ UNCHANGED <<seen, late>>

\* The turn is the i-th of all that wait, and the first of those that wait for its lock.
FirstInLine(t, i) ==
    /\ waiting[i] = t
    /\ \A j \in 1 .. i - 1 : UserOf[waiting[j]] = UserOf[t] => turn[waiting[j]].lock # turn[t].lock

Wake_ByKey(t, from, at) ==
    /\ turn[t].at = from
    /\ ~Locked(UserOf[t], turn[t].lock) /\ locks[UserOf[t]] = turn[t].lock
    /\ \E i \in DOMAIN waiting : FirstInLine(t, i) /\ waiting' = RemoveAt(waiting, i)
    /\ turn' = [turn EXCEPT ![t].at = at]
    /\ UNCHANGED <<locks, seen, late, dropped>>

\* The first that waits for a lock runs once it is released.
Wake(t, from, at) ==
    /\ turn[t].at = from
    /\ ~Locked(UserOf[t], turn[t].lock)
    /\ \E i \in DOMAIN waiting : FirstInLine(t, i) /\ waiting' = RemoveAt(waiting, i)
    /\ turn' = [turn EXCEPT ![t].at = at]
    /\ UNCHANGED <<locks, seen, late, dropped>>

-----------------------------------------------------------------------------
(***************************************************************************)
(* A message: its dispatch in the request, its answer in the background     *)
(***************************************************************************)

TakeDispatch(t) == turn[t].at = "accepted" /\ Take(t, "dispatch", "dispatch waits")
WakeDispatch(t) == Wake(t, "dispatch waits", "dispatch")
TakeAnswer(t) == turn[t].at = "enqueued" /\ Take(t, "answer", "answer waits")
WakeAnswer(t) == Wake(t, "answer waits", "answer")

\* dispatch leaves the answer to a background task, answers by itself, or raises.
EndDispatch(t) ==
    /\ turn[t].at = "dispatch"
    /\ \E at \in {"enqueued", "done"} : turn' = [turn EXCEPT ![t] = [at |-> at, lock |-> NoLock]]
    /\ UNCHANGED <<locks, waiting, seen, late, dropped>>

EndTurn(t) ==
    /\ turn[t].at = "answer"
    /\ turn' = [turn EXCEPT ![t] = [at |-> "done", lock |-> NoLock]]
    /\ UNCHANGED <<locks, waiting, seen, late, dropped>>

GoesOn(t) ==
    \/ TakeDispatch(t)
    \/ WakeDispatch(t)
    \/ EndDispatch(t)
    \/ TakeAnswer(t)
    \/ WakeAnswer(t)
    \/ EndTurn(t)

TurnNext ==
    \/ \E t \in Turn : Deliver(t) \/ GoesOn(t)
    \/ \E m \in Message : Expire(m)

\* The event loop runs a coroutine while one can go on; no delivery is promised.
TurnFairness == WF_turnVars(\E t \in Turn : GoesOn(t))

TurnSpec == TurnInit /\ [][TurnNext]_turnVars /\ TurnFairness

-----------------------------------------------------------------------------
TurnTypes ==
    /\ turn \in [Turn -> TurnState]
    /\ locks \in [User -> LockId \cup {NoLock}]
    /\ waiting \in Seq(Turn) /\ IsInjective(waiting)
    /\ seen \subseteq Message
    /\ late \in BOOLEAN
    /\ dropped \in BOOLEAN

Works(t) == turn[t].at \in {"dispatch", "answer"}
UnderWay(t) == turn[t].at \notin {"new", "done"}

\* core/dispatcher.py:754: the dispatches and answers of one user never run at once, unless a
\* clean-up of the locks dropped one that somebody had been woken for.
OneTurnAtATime ==
    \A t, s \in Turn : UserOf[t] = UserOf[s] /\ t # s /\ Works(t) /\ Works(s) => dropped

\* core/webhook_dedup.py:7: no retry of a message is taken in while the first delivery is still
\* under way, unless that took longer than a delivery is remembered.
NoRetryMeanwhile ==
    \A t, s \in Turn : MessageOf[t] = MessageOf[s] /\ t # s /\ UnderWay(t) /\ UnderWay(s) => late

\* Every delivery that was taken in comes to its end: nobody waits for a lock for
\* ever.  Again and again nobody is under way: there are only so many deliveries.
TurnsEnd == []<>(\A t \in Turn : ~UnderWay(t))
=============================================================================
