------------------------------- MODULE SignIn -------------------------------
(***************************************************************************)
(* How long a sign-in has to wait after failed ones, for one identity       *)
(* (store/sign_in_throttle.py, and the portal's and the admin's login).     *)
(*                                                                          *)
(* A login asks how long it must wait; told nothing, it checks the          *)
(* password; a wrong one is counted and may start a wait, a right one       *)
(* clears the count, as does a change of the password.  The question, the   *)
(* check and the count are apart, and the count reads its row before its    *)
(* transaction begins (sqlite3 begins one at the INSERT): other logins of   *)
(* the identity fall between.  A login that is told to wait changes         *)
(* nothing and has no step.  Times are whole minutes.                       *)
(*                                                                          *)
(* A definition X_Something is X with a plausible bug (README, Mutants).    *)
(***************************************************************************)
EXTENDS Naturals, FiniteSets

CONSTANTS
    Login,          \* requests of the login page, each one attempt after another
    FREE_FAILURES,
    WINDOW,
    FIRST_WAIT,
    MAX_WAIT,
    MaxFailures,    \* bound: failures in a row
    LastMinute      \* bound: the last minute of the clock

ASSUME SignInConstants ==
    /\ IsFiniteSet(Login)
    /\ FREE_FAILURES \in Nat /\ MaxFailures \in Nat /\ LastMinute \in Nat
    /\ FIRST_WAIT \in Nat \ {0} /\ WINDOW \in Nat \ {0}
    /\ MAX_WAIT \in Nat /\ MAX_WAIT >= FIRST_WAIT

\* Arithmetic, which the proofs cannot find by themselves.
ASSUME PowersOfTwo == \A n \in 0 .. MaxFailures : 2 ^ n \in Nat /\ 2 ^ (n + 1) = 2 * 2 ^ n

VARIABLES
    attempts,  \* the row of sign_in_attempt: NoAttempts, or failures, last_failed_at, locked_until
    login,     \* where each login is
    minute,
    tally      \* history, since the count was last cleared: wrong passwords (to one too many), those counted in a
               \* row and when the last was; a password checked before its wait was over, logins at once, a
               \* count that was being made when it was cleared

signInVars == <<attempts, login, minute, tally>>

NoAttempts == [failures |-> 0, last |-> 0, until |-> 0]   \* until = 0: locked_until is NULL
Attempts == [failures : 0 .. MaxFailures, last : 0 .. LastMinute, until : Nat]

LoginState ==
    [at : {"idle", "verify", "failed", "write", "right"},
     now : 0 .. LastMinute, failures : 0 .. MaxFailures]   \* what is being counted
Waiting == [at |-> "idle", now |-> 0, failures |-> 0]

NoTally == [wrong |-> 0, row |-> 0, last |-> 0, early |-> FALSE, together |-> FALSE, astray |-> FALSE]
Tally == [wrong : Nat, row : Nat, last : 0 .. LastMinute,
          early : BOOLEAN, together : BOOLEAN, astray : BOOLEAN]

SignInInit ==
    /\ attempts = NoAttempts
    /\ login = [a \in Login |-> Waiting]
    /\ minute = 0
    /\ tally = NoTally

\* What was counted in a row is not told any more once logins were under way at once.
OutOfStep == [tally EXCEPT !.together = TRUE, !.row = 0, !.last = 0, !.early = FALSE]

Logs(a, at) == login' = [login EXCEPT ![a] = [@ EXCEPT !.at = at]]
Leaves(a) == login' = [login EXCEPT ![a] = Waiting]

-----------------------------------------------------------------------------
WaitAfter_TooSoon(failures) ==
    IF failures >= FREE_FAILURES
    THEN LET wait == FIRST_WAIT * 2 ^ (failures - FREE_FAILURES) IN IF wait < MAX_WAIT THEN wait ELSE MAX_WAIT
    ELSE 0

\* What a failure makes the next attempt wait: nothing for the first few, then twice as long each time.
WaitAfter(failures) ==
    IF failures > FREE_FAILURES
    THEN LET wait == FIRST_WAIT * 2 ^ (failures - FREE_FAILURES - 1) IN IF wait < MAX_WAIT THEN wait ELSE MAX_WAIT
    ELSE 0

\* sign_in_wait_seconds: nothing to wait for, so the password is checked next.
AskWait(a) ==
    /\ login[a].at = "idle"
    /\ attempts.until <= minute
    /\ Logs(a, "verify")
    /\ tally' = IF \E b \in Login \ {a} : login[b].at # "idle" THEN OutOfStep ELSE tally
    /\ UNCHANGED <<attempts, minute>>

\* verify_password
Verify(a) ==
    /\ login[a].at = "verify"
    /\ \E right \in BOOLEAN :
        /\ Logs(a, IF right THEN "right" ELSE "failed")
        /\ tally' = [tally EXCEPT !.wrong = IF right \/ @ > FREE_FAILURES THEN @ ELSE @ + 1,
                                  !.early = ~tally.together /\ (@ \/ minute < tally.last + WaitAfter(tally.row))]
    /\ UNCHANGED <<attempts, minute>>

Recent(since) == minute < since + WINDOW

\* record_sign_in_failure reads the row.
ReadFailures(a) ==
    /\ login[a].at = "failed"
    /\ LET before == IF Recent(attempts.last) THEN attempts.failures ELSE 0
       IN  /\ before < MaxFailures
           /\ login' = [login EXCEPT ![a] = [at |-> "write", now |-> minute, failures |-> before + 1]]
    /\ tally' = IF tally.together THEN tally
                ELSE [tally EXCEPT !.row = (IF Recent(tally.last) THEN @ ELSE 0) + 1, !.last = minute]
    /\ UNCHANGED <<attempts, minute>>

WriteFailure_KeepsWait(a) ==
    /\ login[a].at = "write"
    /\ LET wait == WaitAfter(login[a].failures)
       IN  attempts' = [failures |-> login[a].failures, last |-> login[a].now,
                        until |-> IF attempts.failures > 0 THEN attempts.until
                                  ELSE IF wait > 0 THEN login[a].now + wait ELSE 0]
    /\ Leaves(a)
    /\ UNCHANGED <<minute, tally>>

\* It writes it, with the wait.
WriteFailure(a) ==
    /\ login[a].at = "write"
    /\ LET wait == WaitAfter(login[a].failures)
       IN  attempts' = [failures |-> login[a].failures, last |-> login[a].now,
                        until |-> IF wait > 0 THEN login[a].now + wait ELSE 0]
    /\ Leaves(a)
    /\ UNCHANGED <<minute, tally>>

\* The count is cleared; one that is being made goes astray.
Cleared ==
    /\ attempts' = NoAttempts
    /\ tally' = [NoTally EXCEPT !.early = tally.early, !.together = tally.together,
                                !.astray = tally.astray \/ \E a \in Login : login[a].at \in {"failed", "write"}]

\* clear_sign_in_failures, after the right password
ClearFailures(a) ==
    /\ login[a].at = "right"
    /\ Cleared
    /\ Leaves(a)
    /\ UNCHANGED minute

\* change_password, an admin's reset included; clear_sign_in_scope on the server
NewPassword == Cleared /\ UNCHANGED <<login, minute>>

\* A restart, or a request that raises: what it was counting is not counted.
CutOff(a) ==
    /\ login[a].at # "idle"
    /\ Leaves(a)
    /\ tally' = IF login[a].at = "write" THEN OutOfStep ELSE tally
    /\ UNCHANGED <<attempts, minute>>

MinutePasses == minute < LastMinute /\ minute' = minute + 1 /\ UNCHANGED <<attempts, login, tally>>

SignInNext ==
    \/ \E a \in Login :
        \/ AskWait(a)
        \/ Verify(a)
        \/ ReadFailures(a)
        \/ WriteFailure(a)
        \/ ClearFailures(a)
        \/ CutOff(a)
    \/ NewPassword
    \/ MinutePasses

SignInSpec == SignInInit /\ [][SignInNext]_signInVars

-----------------------------------------------------------------------------
SignInTypes ==
    /\ attempts \in Attempts
    /\ login \in [Login -> LoginState]
    /\ minute \in 0 .. LastMinute
    /\ tally \in Tally

\* store/sign_in_throttle.py:8 "each one after that doubles the wait": no password is checked
\* before the wait that the wrong ones counted so far add up to is over, unless two logins
\* of the identity were under way at once or one was cut off before it counted.
GuessesAreSpaced == ~tally.early

\* store/sign_in_throttle.py:7 "five failures within fifteen minutes are free": nobody waits
\* who typed no more wrong passwords since the count was cleared, unless a failure was being
\* counted at that moment and put its row back.
FewMistakesAreFree == attempts.until > minute => tally.wrong > FREE_FAILURES \/ tally.astray

\* store/sign_in_throttle.py:11 "someone who has simply forgotten their password is never
\* shut out for long": whatever was counted, and however many count at once.
NeverShutOutForLong == attempts.until <= minute + MAX_WAIT
=============================================================================
