---------------------------- MODULE AccessProofs ----------------------------
(***************************************************************************)
(* Proofs about who gets in and what is shown to them, for any number of    *)
(* logins and queries: the throttle of sign-ins (SignIn) and the decision   *)
(* log (DecisionLog).                                                       *)
(*                                                                          *)
(* Their inductive invariants are CountIsSound and ThrottleIsSound, and     *)
(* ShownIsSound, LogIsSound and ChainIsSound.                               *)
(***************************************************************************)
EXTENDS SignIn, DecisionLog, AnsweringProofs, FiniteSetTheorems, WellFoundedInduction, TLAPS

-----------------------------------------------------------------------------
(***************************************************************************)
(* SignIn: what is counted is no more than what was typed wrong             *)
(***************************************************************************)

CountTypes ==
    /\ attempts.failures \in Nat
    /\ login \in [Login -> [at : {"idle", "verify", "failed", "write", "right"}, now : Nat, failures : Nat]]
    /\ minute \in Nat
    /\ tally.wrong \in Nat

\* The logins whose wrong password is not yet in a count.
Uncounted == {a \in Login : login[a].at = "failed"}

\* Neither the row nor a count being written has more than the wrong passwords less those.
CountsNoMore ==
    /\ attempts.failures + Cardinality(Uncounted) <= tally.wrong
    /\ \A a \in Login : login[a].at = "write" => login[a].failures + Cardinality(Uncounted) <= tally.wrong

WaitIsCounted == attempts.until = 0 \/ attempts.failures > FREE_FAILURES

\* The inductive invariant: a wait comes of more than the free failures, and those were typed.
CountIsSound ==
    /\ CountTypes
    /\ WaitIsCounted
    /\ tally.astray \/ tally.wrong > FREE_FAILURES \/ CountsNoMore

\* There are finitely many of them.
LEMMA UncountedIsFinite == IsFiniteSet(Uncounted) /\ Cardinality(Uncounted) \in Nat
<1>1. Uncounted \subseteq Login
    BY DEF Uncounted
<1> QED BY <1>1, SignInConstants, FS_Subset, FS_CardinalityType

\* A login that fails is one more.
LEMMA OneMoreUncounted ==
    ASSUME NEW a \in Login, login[a].at # "failed", Uncounted' = Uncounted \cup {a}
    PROVE  Cardinality(Uncounted') = Cardinality(Uncounted) + 1
<1>1. a \notin Uncounted
    BY DEF Uncounted
<1> QED BY <1>1, UncountedIsFinite, FS_AddElement

\* One that reads its count, or is cut off, is one less.
LEMMA OneLessUncounted ==
    ASSUME NEW a \in Login, login[a].at = "failed", Uncounted' = Uncounted \ {a}
    PROVE  Cardinality(Uncounted') = Cardinality(Uncounted) - 1
<1>1. a \in Uncounted
    BY DEF Uncounted
<1> QED BY <1>1, UncountedIsFinite, FS_RemoveElement

\* Nothing is counted at first.
LEMMA CountStartsSound == SignInInit => CountIsSound
<1> SUFFICES ASSUME SignInInit PROVE CountIsSound
    OBVIOUS
<1>1. CountTypes /\ WaitIsCounted
    BY DEF SignInInit, NoAttempts, Waiting, NoTally, CountTypes, WaitIsCounted
<1>2. Uncounted = {}
    BY DEF SignInInit, Waiting, Uncounted
<1>3. CountsNoMore
    BY <1>2, FS_EmptySet DEF SignInInit, NoAttempts, Waiting, NoTally, CountsNoMore
<1> QED BY <1>1, <1>3 DEF CountIsSound

\* Asking how long to wait counts nothing.
LEMMA AskWaitKeepsCount ==
    ASSUME CountIsSound, NEW a \in Login, AskWait(a)
    PROVE  CountIsSound'
<1>1. tally'.wrong = tally.wrong /\ tally'.astray = tally.astray
    BY DEF AskWait, OutOfStep
<1>2. CountTypes' /\ WaitIsCounted'
    BY <1>1 DEF AskWait, Logs, CountIsSound, CountTypes, WaitIsCounted
<1>3. Uncounted' = Uncounted
    BY DEF AskWait, Logs, Uncounted, CountIsSound, CountTypes
<1>4. CountsNoMore => CountsNoMore'
    BY <1>1, <1>3 DEF AskWait, Logs, CountsNoMore, CountIsSound, CountTypes
<1> QED BY <1>1, <1>2, <1>4 DEF CountIsSound

\* A wrong password is typed before it is counted, a right one clears the count later.
LEMMA VerifyKeepsCount ==
    ASSUME CountIsSound, NEW a \in Login, Verify(a)
    PROVE  CountIsSound'
<1>1. CountTypes /\ FREE_FAILURES \in Nat
    BY SignInConstants DEF CountIsSound
<1>2. /\ login[a].at = "verify"
      /\ UNCHANGED <<attempts, minute>>
      /\ tally'.astray = tally.astray
    BY DEF Verify
<1>3. PICK right \in BOOLEAN :
        /\ login' = [login EXCEPT ![a] = [@ EXCEPT !.at = IF right THEN "right" ELSE "failed"]]
        /\ tally'.wrong = IF right \/ tally.wrong > FREE_FAILURES THEN tally.wrong ELSE tally.wrong + 1
  <2>1. PICK right \in BOOLEAN :
          /\ Logs(a, IF right THEN "right" ELSE "failed")
          /\ tally' = [tally EXCEPT !.wrong = IF right \/ @ > FREE_FAILURES THEN @ ELSE @ + 1,
                                    !.early = ~tally.together /\ (@ \/ minute < tally.last + WaitAfter(tally.row))]
      BY DEF Verify
  <2>2. tally'.wrong = IF right \/ tally.wrong > FREE_FAILURES THEN tally.wrong ELSE tally.wrong + 1
      BY <2>1
  <2> QED BY <2>1, <2>2 DEF Logs
<1>4. WaitIsCounted'
    BY <1>2 DEF WaitIsCounted, CountIsSound
<1>5. CASE right
  <2>1. CountTypes'
      BY <1>1, <1>2, <1>3, <1>5 DEF CountTypes
  <2>2. Uncounted' = Uncounted
      BY <1>1, <1>2, <1>3, <1>5 DEF Uncounted, CountTypes
  <2>3. CountsNoMore => CountsNoMore'
      BY <1>1, <1>2, <1>3, <1>5, <2>2 DEF CountsNoMore, CountTypes
  <2> QED BY <1>2, <1>3, <1>4, <1>5, <2>1, <2>3 DEF CountIsSound
<1>6. CASE ~right
  <2>1. CountTypes'
      BY <1>1, <1>2, <1>3, <1>6 DEF CountTypes
  <2>2. CASE tally.wrong > FREE_FAILURES
      BY <1>3, <1>4, <2>1, <2>2 DEF CountIsSound
  <2>3. CASE ~(tally.wrong > FREE_FAILURES)
    <3>1. Uncounted' = Uncounted \cup {a}
        BY <1>1, <1>2, <1>3, <1>6 DEF Uncounted, CountTypes
    <3>2. Cardinality(Uncounted') = Cardinality(Uncounted) + 1
        BY <1>2, <3>1, OneMoreUncounted
    <3>3. tally'.wrong = tally.wrong + 1
        BY <1>3, <1>6, <2>3
    <3>4. CountsNoMore => CountsNoMore'
        BY <1>1, <1>2, <1>3, <1>6, <3>2, <3>3, UncountedIsFinite DEF CountsNoMore, CountTypes
    <3> QED BY <1>2, <1>4, <2>1, <2>3, <3>4 DEF CountIsSound
  <2> QED BY <2>2, <2>3
<1> QED BY <1>5, <1>6

\* What is read, and one more, is no more than was typed: the login itself is counted no longer apart.
LEMMA ReadFailuresKeepsCount ==
    ASSUME CountIsSound, NEW a \in Login, ReadFailures(a)
    PROVE  CountIsSound'
<1>1. CountTypes
    BY DEF CountIsSound
<1>2. /\ login[a].at = "failed"
      /\ UNCHANGED <<attempts, minute>>
      /\ tally'.wrong = tally.wrong /\ tally'.astray = tally.astray
    BY DEF ReadFailures
<1>3. PICK before \in {attempts.failures, 0} :
        login' = [login EXCEPT ![a] = [at |-> "write", now |-> minute, failures |-> before + 1]]
    BY DEF ReadFailures
<1>4. CountTypes' /\ WaitIsCounted'
    BY <1>1, <1>2, <1>3 DEF CountTypes, WaitIsCounted, CountIsSound
<1>5. Uncounted' = Uncounted \ {a}
    BY <1>1, <1>2, <1>3 DEF Uncounted, CountTypes
<1>6. Cardinality(Uncounted') = Cardinality(Uncounted) - 1
    BY <1>2, <1>5, OneLessUncounted
<1>7. CountsNoMore => CountsNoMore'
  <2> SUFFICES ASSUME CountsNoMore PROVE CountsNoMore'
      OBVIOUS
  <2>1. before \in Nat /\ before <= attempts.failures
      BY <1>1, <1>3 DEF CountTypes
  <2>2. attempts'.failures + Cardinality(Uncounted') <= tally'.wrong
      BY <1>1, <1>2, <1>6, UncountedIsFinite DEF CountsNoMore, CountTypes
  <2>3. login'[a].failures + Cardinality(Uncounted') <= tally'.wrong
      BY <1>1, <1>2, <1>3, <1>6, <2>1, UncountedIsFinite DEF CountsNoMore, CountTypes
  <2>4. ASSUME NEW b \in Login \ {a}, login'[b].at = "write"
        PROVE  login'[b].failures + Cardinality(Uncounted') <= tally'.wrong
      BY <1>1, <1>2, <1>3, <1>6, <2>4, UncountedIsFinite DEF CountsNoMore, CountTypes
  <2> QED BY <2>2, <2>3, <2>4 DEF CountsNoMore
<1> QED BY <1>2, <1>4, <1>7 DEF CountIsSound

\* The row takes what was read; a wait comes of more than the free failures.
LEMMA WriteFailureKeepsCount ==
    ASSUME CountIsSound, NEW a \in Login, WriteFailure(a)
    PROVE  CountIsSound'
<1>1. CountTypes /\ FREE_FAILURES \in Nat
    BY SignInConstants DEF CountIsSound
<1>2. /\ login[a].at = "write"
      /\ attempts'.failures = login[a].failures
      /\ login' = [login EXCEPT ![a] = Waiting]
      /\ UNCHANGED <<minute, tally>>
    BY DEF WriteFailure, Leaves
<1>3. CountTypes'
    BY <1>1, <1>2 DEF CountTypes, Waiting
<1>4. WaitIsCounted'
  <2>1. CASE login[a].failures > FREE_FAILURES
      BY <1>2, <2>1 DEF WaitIsCounted
  <2>2. CASE ~(login[a].failures > FREE_FAILURES)
    <3>1. WaitAfter(login[a].failures) = 0
        BY <2>2 DEF WaitAfter
    <3> QED BY <3>1 DEF WriteFailure, WaitIsCounted
  <2> QED BY <2>1, <2>2
<1>5. Uncounted' = Uncounted
    BY <1>1, <1>2 DEF Uncounted, CountTypes, Waiting
<1>6. CountsNoMore => CountsNoMore'
    BY <1>1, <1>2, <1>5 DEF CountsNoMore, CountTypes, Waiting
<1> QED BY <1>2, <1>3, <1>4, <1>6 DEF CountIsSound

\* What clears the count: nothing is being counted then, or the clearing is told astray.
LEMMA ClearedKeepsCount ==
    ASSUME CountIsSound, Cleared, UNCHANGED minute,
           login' \in [Login -> [at : {"idle", "verify", "failed", "write", "right"}, now : Nat, failures : Nat]],
           \A b \in Login : login'[b] = login[b] \/ login'[b].at = "idle"
    PROVE  CountIsSound'
<1>1. CountTypes' /\ WaitIsCounted'
    BY DEF Cleared, NoAttempts, NoTally, CountIsSound, CountTypes, WaitIsCounted
<1>2. CASE \E b \in Login : login[b].at \in {"failed", "write"}
  <2>1. tally'.astray
      BY <1>2, Zenon DEF Cleared, NoTally
  <2> QED BY <1>1, <2>1 DEF CountIsSound
<1>3. CASE ~ \E b \in Login : login[b].at \in {"failed", "write"}
  <2>1. Uncounted' = {} /\ \A b \in Login : login'[b].at # "write"
      BY <1>3 DEF Uncounted
  <2>2. CountsNoMore'
      BY <2>1, FS_EmptySet DEF CountsNoMore, Cleared, NoAttempts, NoTally
  <2> QED BY <1>1, <2>2 DEF CountIsSound
<1> QED BY <1>2, <1>3

\* A failure that is never counted leaves the count too low, not too high.
LEMMA CutOffKeepsCount ==
    ASSUME CountIsSound, NEW a \in Login, CutOff(a)
    PROVE  CountIsSound'
<1>1. CountTypes
    BY DEF CountIsSound
<1>2. /\ login' = [login EXCEPT ![a] = Waiting]
      /\ UNCHANGED <<attempts, minute>>
      /\ tally'.wrong = tally.wrong /\ tally'.astray = tally.astray
    BY DEF CutOff, Leaves, OutOfStep
<1>3. CountTypes' /\ WaitIsCounted'
    BY <1>1, <1>2 DEF CountTypes, WaitIsCounted, CountIsSound, Waiting
<1>4. Cardinality(Uncounted') <= Cardinality(Uncounted) /\ Cardinality(Uncounted') \in Nat
  <2>1. Uncounted' = Uncounted \ {a}
      BY <1>1, <1>2 DEF Uncounted, CountTypes, Waiting
  <2>2. IsFiniteSet(Uncounted \ {a}) /\ Cardinality(Uncounted \ {a}) \in Nat
      BY UncountedIsFinite, FS_RemoveElement, FS_CardinalityType
  <2>3. Cardinality(Uncounted \ {a}) = IF a \in Uncounted THEN Cardinality(Uncounted) - 1 ELSE Cardinality(Uncounted)
      BY UncountedIsFinite, FS_RemoveElement
  <2> QED BY <2>1, <2>2, <2>3, UncountedIsFinite
<1>5. CountsNoMore => CountsNoMore'
    BY <1>1, <1>2, <1>4, UncountedIsFinite DEF CountsNoMore, CountTypes, Waiting
<1> QED BY <1>2, <1>3, <1>5 DEF CountIsSound

\* Every step keeps it.
LEMMA SignInKeepsCount == CountIsSound /\ [SignInNext]_signInVars => CountIsSound'
<1> SUFFICES ASSUME CountIsSound, [SignInNext]_signInVars PROVE CountIsSound'
    OBVIOUS
<1>1. ASSUME NEW a \in Login, ClearFailures(a) PROVE CountIsSound'
  <2>1. /\ login' \in [Login -> [at : {"idle", "verify", "failed", "write", "right"}, now : Nat, failures : Nat]]
        /\ \A b \in Login : login'[b] = login[b] \/ login'[b].at = "idle"
      BY <1>1 DEF ClearFailures, Leaves, Waiting, CountIsSound, CountTypes
  <2> QED BY <1>1, <2>1, ClearedKeepsCount DEF ClearFailures
<1>2. CASE NewPassword
    BY <1>2, ClearedKeepsCount DEF NewPassword, CountIsSound, CountTypes
<1>3. CASE MinutePasses
    BY <1>3 DEF MinutePasses, CountIsSound, CountTypes, WaitIsCounted, CountsNoMore, Uncounted
<1>4. CASE UNCHANGED signInVars
    BY <1>4 DEF signInVars, CountIsSound, CountTypes, WaitIsCounted, CountsNoMore, Uncounted
<1> QED BY <1>1, <1>2, <1>3, <1>4, AskWaitKeepsCount, VerifyKeepsCount, ReadFailuresKeepsCount,
           WriteFailureKeepsCount, CutOffKeepsCount DEF SignInNext

\* The invariant, of every behaviour: no more is counted than was typed wrong.
THEOREM CountStaysSound == SignInSpec => []CountIsSound
<1> QED BY CountStartsSound, SignInKeepsCount, PTL DEF SignInSpec

\* Nobody waits who typed no more wrong passwords than are free, however many logins count at
\* once, unless one was being counted as the count was cleared (store/sign_in_throttle.py:7).
THEOREM FewMistakesStayFree == SignInSpec => []FewMistakesAreFree
<1>1. CountIsSound => FewMistakesAreFree
  <2> SUFFICES ASSUME CountIsSound, attempts.until > minute, ~tally.astray, ~(tally.wrong > FREE_FAILURES)
               PROVE  FALSE
      BY DEF FewMistakesAreFree
  <2>1. attempts.failures > FREE_FAILURES
      BY DEF CountIsSound, CountTypes, WaitIsCounted
  <2> QED BY <2>1, UncountedIsFinite, SignInConstants DEF CountIsSound, CountTypes, CountsNoMore
<1> QED BY <1>1, CountStaysSound, PTL


-----------------------------------------------------------------------------
(***************************************************************************)
(* SignIn: how long one waits                                               *)
(***************************************************************************)

\* Twice as long never is shorter.
LEMMA PowersGrow ==
    ASSUME NEW m \in 0 .. MaxFailures, NEW n \in 0 .. MaxFailures, m <= n
    PROVE  2 ^ m <= 2 ^ n
<1> DEFINE Smaller == {k \in 0 .. MaxFailures : m <= k /\ ~(2 ^ m <= 2 ^ k)}
<1>1. CASE Smaller = {}
    BY <1>1
<1>2. CASE Smaller # {}
  <2>1. Smaller \in SUBSET Nat
      BY SignInConstants
  <2>2. PICK k \in Smaller : \A l \in Smaller : k <= l
      BY <1>2, <2>1, LeastNumber
  <2>3. k # m /\ k - 1 \in 0 .. MaxFailures /\ m <= k - 1
      BY <2>2, SignInConstants, PowersOfTwo
  <2>4. 2 ^ m <= 2 ^ (k - 1)
      BY <2>2, <2>3
  <2>5. 2 ^ (k - 1) \in Nat /\ 2 ^ ((k - 1) + 1) = 2 * 2 ^ (k - 1) /\ (k - 1) + 1 = k
      BY <2>3, PowersOfTwo
  <2>6. 2 ^ k = 2 * 2 ^ (k - 1)
      BY <2>5
  <2>7. 2 ^ m \in Nat
      BY PowersOfTwo
  <2> QED BY <2>2, <2>4, <2>5, <2>6, <2>7
<1> QED BY <1>1, <1>2

\* A wait is a number of minutes, at most MAX_WAIT.
LEMMA WaitIsBounded ==
    ASSUME NEW failures \in 0 .. MaxFailures
    PROVE  WaitAfter(failures) \in Nat /\ WaitAfter(failures) <= MAX_WAIT
<1>1. CASE failures > FREE_FAILURES
  <2> DEFINE n == failures - FREE_FAILURES - 1
  <2>1. n \in 0 .. MaxFailures
      BY <1>1, SignInConstants
  <2>2. FIRST_WAIT * 2 ^ n \in Nat
      BY <2>1, PowersOfTwo, SignInConstants
  <2> HIDE DEF n
  <2>3. WaitAfter(failures) = IF FIRST_WAIT * 2 ^ n < MAX_WAIT THEN FIRST_WAIT * 2 ^ n ELSE MAX_WAIT
      BY <1>1 DEF WaitAfter, n
  <2> QED BY <2>2, <2>3, SignInConstants
<1>2. CASE ~(failures > FREE_FAILURES)
    BY <1>2, SignInConstants DEF WaitAfter
<1> QED BY <1>1, <1>2

\* After more failures it is no shorter.
LEMMA WaitsGrow ==
    ASSUME NEW fewer \in 0 .. MaxFailures, NEW more \in 0 .. MaxFailures, fewer <= more
    PROVE  WaitAfter(fewer) <= WaitAfter(more)
<1>1. CASE fewer > FREE_FAILURES
  <2> DEFINE m == fewer - FREE_FAILURES - 1
             n == more - FREE_FAILURES - 1
  <2>1. m \in 0 .. MaxFailures /\ n \in 0 .. MaxFailures /\ m <= n /\ more > FREE_FAILURES
      BY <1>1, SignInConstants
  <2> HIDE DEF m, n
  <2>2. 2 ^ m \in Nat /\ 2 ^ n \in Nat /\ 2 ^ m <= 2 ^ n
      BY <2>1, PowersOfTwo, PowersGrow
  <2>3. FIRST_WAIT * 2 ^ m \in Nat /\ FIRST_WAIT * 2 ^ n \in Nat /\ FIRST_WAIT * 2 ^ m <= FIRST_WAIT * 2 ^ n
      BY <2>2, SignInConstants
  <2>4. /\ WaitAfter(fewer) = IF FIRST_WAIT * 2 ^ m < MAX_WAIT THEN FIRST_WAIT * 2 ^ m ELSE MAX_WAIT
        /\ WaitAfter(more) = IF FIRST_WAIT * 2 ^ n < MAX_WAIT THEN FIRST_WAIT * 2 ^ n ELSE MAX_WAIT
      BY <1>1, <2>1 DEF WaitAfter, m, n
  <2> QED BY <2>3, <2>4, SignInConstants
<1>2. CASE ~(fewer > FREE_FAILURES)
    BY <1>2, WaitIsBounded DEF WaitAfter
<1> QED BY <1>1, <1>2

-----------------------------------------------------------------------------
(***************************************************************************)
(* SignIn: guesses are spaced, and waits are short                          *)
(***************************************************************************)

TimesArePast ==
    /\ tally.last <= minute
    /\ \A a \in Login : login[a].now <= minute

\* When the wrong passwords counted so far allow the next one to be checked.
Owed == tally.last + WaitAfter(tally.row)

OneLogin == \A a, b \in Login : login[a].at # "idle" /\ login[b].at # "idle" => a = b

\* The row keeps up with what was counted...
RowKeepsUp ==
    (\A a \in Login : login[a].at # "write") =>
        /\ tally.row <= attempts.failures
        /\ tally.last <= attempts.last
        /\ WaitAfter(tally.row) > 0 => Owed <= attempts.until

\* ...or the one count that is being written does.
WriteKeepsUp ==
    \A a \in Login : login[a].at = "write" => tally.row <= login[a].failures /\ tally.last <= login[a].now

CheckedInTime == \A a \in Login : login[a].at = "verify" => Owed <= minute

\* As long as one login was under way at a time, the row it asked was no shorter than what is owed.
Spaced == OneLogin /\ RowKeepsUp /\ WriteKeepsUp /\ CheckedInTime

\* The inductive invariant.
ThrottleIsSound ==
    /\ SignInTypes
    /\ TimesArePast
    /\ NeverShutOutForLong
    /\ tally.early = FALSE
    /\ tally.together = TRUE \/ Spaced

\* Nobody has typed anything at first.
LEMMA ThrottleStartsSound == SignInInit => ThrottleIsSound
<1> SUFFICES ASSUME SignInInit PROVE ThrottleIsSound
    OBVIOUS
<1>1. SignInTypes
    BY SignInConstants
    DEF SignInInit, NoAttempts, Waiting, NoTally, SignInTypes, Attempts, LoginState, Tally
<1>2. TimesArePast /\ NeverShutOutForLong /\ tally.early = FALSE
    BY SignInConstants DEF SignInInit, NoAttempts, Waiting, NoTally, TimesArePast, NeverShutOutForLong
<1>3. tally.row = 0 /\ tally.last = 0 /\ WaitAfter(tally.row) = 0
    BY SignInConstants DEF SignInInit, NoTally, WaitAfter
<1>4. Spaced
    BY <1>3 DEF SignInInit, NoAttempts, Waiting, Spaced, OneLogin, RowKeepsUp, WriteKeepsUp, CheckedInTime, Owed
<1> QED BY <1>1, <1>2, <1>4 DEF ThrottleIsSound

\* What the invariant says of the types, in the form the steps use.
LEMMA ThrottleTypes ==
    ASSUME SignInTypes
    PROVE  /\ attempts.failures \in 0 .. MaxFailures /\ attempts.last \in 0 .. LastMinute /\ attempts.until \in Nat
           /\ minute \in 0 .. LastMinute
           /\ tally.row \in Nat /\ tally.last \in 0 .. LastMinute /\ tally.wrong \in Nat
           /\ \A a \in Login : /\ login[a].now \in 0 .. LastMinute
                               /\ login[a].failures \in 0 .. MaxFailures
                               /\ login[a].at \in {"idle", "verify", "failed", "write", "right"}
<1> QED BY DEF SignInTypes, Attempts, Tally, LoginState

\* A tally that no longer speaks of the waits has its type.
LEMMA OutOfStepTypes ==
    ASSUME SignInTypes
    PROVE  OutOfStep \in Tally /\ OutOfStep.together = TRUE /\ OutOfStep.early = FALSE /\ OutOfStep.last = 0
<1>1. \A n \in Nat, last \in 0 .. LastMinute :
        [tally EXCEPT !.together = TRUE, !.row = n, !.last = last, !.early = FALSE] \in Tally
    BY DEF SignInTypes, Tally
<1>2. 0 \in Nat /\ 0 \in 0 .. LastMinute
    BY SignInConstants
<1>3. OutOfStep \in Tally
    BY <1>1, <1>2, Zenon DEF OutOfStep
<1>4. OutOfStep.together = TRUE /\ OutOfStep.early = FALSE
    BY Zenon DEF SignInTypes, OutOfStep, Tally
<1>5. OutOfStep.last = 0
    BY DEF SignInTypes, OutOfStep, Tally
<1> QED BY <1>3, <1>4, <1>5

\* A login that may go on has the wait behind it that the row holds, and the row owes no less.
LEMMA AskWaitKeepsThrottle ==
    ASSUME ThrottleIsSound, NEW a \in Login, AskWait(a)
    PROVE  ThrottleIsSound'
<1>1. SignInTypes
    BY DEF ThrottleIsSound
<1>2. /\ login[a].at = "idle" /\ attempts.until <= minute
      /\ login' = [login EXCEPT ![a] = [@ EXCEPT !.at = "verify"]]
      /\ UNCHANGED <<attempts, minute>>
    BY DEF AskWait, Logs
<1>3. CASE \E b \in Login \ {a} : login[b].at # "idle"
  <2>1. tally' = OutOfStep
      BY <1>3 DEF AskWait
  <2>2. SignInTypes'
      BY <1>1, <1>2, <2>1, OutOfStepTypes DEF SignInTypes, LoginState
  <2>3. /\ tally'.together = TRUE /\ tally'.early = FALSE /\ tally'.last = 0
      BY <1>1, <2>1, OutOfStepTypes
  <2>4. TimesArePast' /\ NeverShutOutForLong'
      BY <1>1, <1>2, <2>3, ThrottleTypes DEF ThrottleIsSound, TimesArePast, NeverShutOutForLong, SignInTypes, LoginState
  <2> QED BY <2>2, <2>3, <2>4 DEF ThrottleIsSound
<1>4. CASE ~ \E b \in Login \ {a} : login[b].at # "idle"
  <2>1. tally' = tally
      BY <1>4 DEF AskWait
  <2>2. SignInTypes'
      BY <1>1, <1>2, <2>1 DEF SignInTypes, LoginState
  <2>3. TimesArePast' /\ NeverShutOutForLong'
      BY <1>1, <1>2, <2>1 DEF ThrottleIsSound, TimesArePast, NeverShutOutForLong, SignInTypes, LoginState
  <2>4. \A b \in Login : /\ login'[b].at = IF b = a THEN "verify" ELSE "idle"
                         /\ login[b].at = "idle"
      BY <1>1, <1>2, <1>4 DEF SignInTypes, LoginState
  <2>5. ASSUME Spaced PROVE Spaced'
    <3>1. OneLogin' /\ WriteKeepsUp'
        BY <2>4 DEF OneLogin, WriteKeepsUp
    <3>2. RowKeepsUp'
        BY <1>2, <2>1, <2>4, <2>5 DEF Spaced, RowKeepsUp, Owed, WaitAfter
    <3>3. Owed <= minute
      <4>1. tally.row \in 0 .. MaxFailures
          BY <1>1, <2>4, <2>5, ThrottleTypes, SignInConstants DEF Spaced, RowKeepsUp
      <4>2. WaitAfter(tally.row) \in Nat
          BY <4>1, WaitIsBounded
      <4>3. CASE WaitAfter(tally.row) > 0
          BY <1>1, <1>2, <2>4, <2>5, <4>2, <4>3, ThrottleTypes DEF Spaced, RowKeepsUp, Owed
      <4>4. CASE WaitAfter(tally.row) = 0
          BY <1>1, <4>4, ThrottleTypes DEF Owed, ThrottleIsSound, TimesArePast
      <4> QED BY <4>2, <4>3, <4>4
    <3>4. Owed' = Owed
        BY <2>1 DEF Owed, WaitAfter
    <3> QED BY <1>2, <3>1, <3>2, <3>3, <3>4 DEF Spaced, CheckedInTime
  <2> QED BY <2>1, <2>2, <2>3, <2>5 DEF ThrottleIsSound
<1> QED BY <1>3, <1>4

\* A password that is checked in time is not early.
LEMMA VerifyKeepsThrottle ==
    ASSUME ThrottleIsSound, NEW a \in Login, Verify(a)
    PROVE  ThrottleIsSound'
<1>1. SignInTypes
    BY DEF ThrottleIsSound
<1>2. PICK right \in BOOLEAN :
        /\ Logs(a, IF right THEN "right" ELSE "failed")
        /\ tally' = [tally EXCEPT !.wrong = IF right \/ @ > FREE_FAILURES THEN @ ELSE @ + 1,
                                  !.early = ~tally.together /\ (@ \/ minute < tally.last + WaitAfter(tally.row))]
    BY DEF Verify
<1>3. PICK at \in {"right", "failed"} : login' = [login EXCEPT ![a] = [@ EXCEPT !.at = at]]
    BY <1>2 DEF Logs
<1>4. /\ login[a].at = "verify" /\ UNCHANGED <<attempts, minute>>
      /\ tally'.last = tally.last /\ tally'.row = tally.row /\ tally'.together = tally.together
    BY <1>2 DEF Verify
<1>5. tally'.early = (~tally.together /\ (tally.early \/ minute < Owed))
    BY <1>1, <1>2 DEF SignInTypes, Tally, Owed
<1>6. tally'.early = FALSE
  <2>1. CASE tally.together = TRUE
      BY <1>5, <2>1, Zenon
  <2>2. CASE ~(tally.together = TRUE)
    <3>1. Owed <= minute
        BY <1>4, <2>2 DEF ThrottleIsSound, Spaced, CheckedInTime
    <3>2. Owed \in Int /\ minute \in Int
      <4>1. OneLogin /\ RowKeepsUp
          BY <2>2 DEF ThrottleIsSound, Spaced
      <4>2. \A b \in Login : login[b].at # "write"
          BY <1>4, <4>1 DEF OneLogin
      <4>3. tally.row \in 0 .. MaxFailures
          BY <1>1, <4>1, <4>2, ThrottleTypes, SignInConstants DEF RowKeepsUp
      <4> QED BY <1>1, <4>3, WaitIsBounded, ThrottleTypes DEF Owed
    <3>3. ~(minute < Owed)
        BY <3>1, <3>2
    <3>4. tally.early = FALSE
        BY DEF ThrottleIsSound
    <3> QED BY <1>5, <3>3, <3>4, Zenon
  <2> QED BY <2>1, <2>2
<1>7. tally'.wrong \in Nat
    BY <1>1, <1>2, ThrottleTypes
<1>8. SignInTypes'
  <2>1. tally' \in Tally
      BY <1>1, <1>2, <1>6, <1>7 DEF SignInTypes, Tally
  <2> QED BY <1>1, <1>3, <1>4, <2>1 DEF SignInTypes, LoginState
<1>9. TimesArePast' /\ NeverShutOutForLong'
    BY <1>1, <1>3, <1>4 DEF ThrottleIsSound, TimesArePast, NeverShutOutForLong, SignInTypes, LoginState
<1>10. Owed' = Owed
    BY <1>4 DEF Owed, WaitAfter
<1>11. \A b \in Login : /\ login'[b].at = IF b = a THEN at ELSE login[b].at
                        /\ login'[b].now = login[b].now /\ login'[b].failures = login[b].failures
    BY <1>1, <1>3 DEF SignInTypes, LoginState
<1>12. ASSUME Spaced PROVE Spaced'
  <2>1. OneLogin' /\ WriteKeepsUp' /\ CheckedInTime'
      BY <1>3, <1>4, <1>10, <1>11, <1>12 DEF Spaced, OneLogin, WriteKeepsUp, CheckedInTime
  <2>2. RowKeepsUp'
    <3>1. WaitAfter(tally'.row) = WaitAfter(tally.row)
        BY <1>4
    <3> QED BY <1>3, <1>4, <1>10, <1>11, <1>12, <3>1 DEF Spaced, RowKeepsUp
  <2> QED BY <2>1, <2>2 DEF Spaced
<1> QED BY <1>4, <1>6, <1>8, <1>9, <1>12 DEF ThrottleIsSound

\* The failure is in the tally from here on, and in the count about to be written.
LEMMA ReadFailuresKeepsThrottle ==
    ASSUME ThrottleIsSound, NEW a \in Login, ReadFailures(a)
    PROVE  ThrottleIsSound'
<1> DEFINE before == IF Recent(attempts.last) THEN attempts.failures ELSE 0
<1>1. SignInTypes
    BY DEF ThrottleIsSound
<1>2. /\ login[a].at = "failed" /\ before < MaxFailures
      /\ login' = [login EXCEPT ![a] = [at |-> "write", now |-> minute, failures |-> before + 1]]
      /\ tally' = IF tally.together THEN tally
                  ELSE [tally EXCEPT !.row = (IF Recent(tally.last) THEN @ ELSE 0) + 1, !.last = minute]
      /\ UNCHANGED <<attempts, minute>>
    BY DEF ReadFailures
<1>3. before \in Nat /\ before + 1 \in 0 .. MaxFailures
    BY <1>1, <1>2, ThrottleTypes, SignInConstants
<1> HIDE DEF before
<1>4. login' \in [Login -> LoginState]
    BY <1>1, <1>2, <1>3 DEF SignInTypes, LoginState
<1>5. \A b \in Login : /\ b # a => login'[b] = login[b]
                       /\ login'[a].at = "write" /\ login'[a].now = minute /\ login'[a].failures = before + 1
    BY <1>1, <1>2 DEF SignInTypes
<1>6. /\ tally' \in Tally /\ tally'.together = tally.together /\ tally'.early = tally.early
      /\ tally'.last \in {minute, tally.last}
  <2>1. CASE tally.together
      BY <1>1, <1>2, <2>1 DEF SignInTypes
  <2>2. CASE ~tally.together
    <3>1. tally' = [tally EXCEPT !.row = (IF Recent(tally.last) THEN @ ELSE 0) + 1, !.last = minute]
        BY <1>2, <2>2
    <3>2. (IF Recent(tally.last) THEN tally.row ELSE 0) + 1 \in Nat
        BY <1>1, ThrottleTypes
    <3>3. tally' \in Tally
        BY <1>1, <3>1, <3>2 DEF SignInTypes, Tally
    <3> QED BY <1>1, <3>1, <3>3 DEF SignInTypes, Tally
  <2> QED BY <2>1, <2>2
<1>7. SignInTypes'
    BY <1>1, <1>2, <1>4, <1>6 DEF SignInTypes
<1>8. TimesArePast' /\ NeverShutOutForLong'
    BY <1>1, <1>2, <1>5, <1>6, ThrottleTypes DEF ThrottleIsSound, TimesArePast, NeverShutOutForLong
<1>9. ASSUME Spaced, ~(tally.together = TRUE) PROVE Spaced'
  <2>1. \A b \in Login : b # a => login[b].at = "idle"
      BY <1>2, <1>9 DEF Spaced, OneLogin
  <2>2. tally.row <= attempts.failures /\ tally.last <= attempts.last
      BY <1>2, <1>9, <2>1 DEF Spaced, RowKeepsUp
  <2>3. ~tally.together
      BY <1>1, <1>9, Zenon DEF SignInTypes, Tally
  <2>4. /\ tally'.row = (IF Recent(tally.last) THEN tally.row ELSE 0) + 1
        /\ tally'.last = minute
      BY <1>1, <1>2, <2>3 DEF SignInTypes, Tally
  <2>5. Recent(tally.last) => Recent(attempts.last)
      BY <1>1, <2>2, ThrottleTypes, SignInConstants DEF Recent
  <2>6. tally'.row <= before + 1
      BY <1>1, <2>2, <2>4, <2>5, ThrottleTypes DEF before
  <2>7. WriteKeepsUp'
      BY <1>1, <1>5, <2>1, <2>4, <2>6, ThrottleTypes DEF WriteKeepsUp
  <2>8. OneLogin' /\ CheckedInTime' /\ RowKeepsUp'
      BY <1>5, <2>1 DEF OneLogin, CheckedInTime, RowKeepsUp
  <2> QED BY <2>7, <2>8 DEF Spaced
<1> QED BY <1>6, <1>7, <1>8, <1>9 DEF ThrottleIsSound

\* The row then has the wait of as many failures as the tally or more.
LEMMA WriteFailureKeepsThrottle ==
    ASSUME ThrottleIsSound, NEW a \in Login, WriteFailure(a)
    PROVE  ThrottleIsSound'
<1> DEFINE failures == login[a].failures
           wait == WaitAfter(failures)
<1>1. SignInTypes
    BY DEF ThrottleIsSound
<1>2. /\ login[a].at = "write"
      /\ attempts' = [failures |-> failures, last |-> login[a].now,
                      until |-> IF wait > 0 THEN login[a].now + wait ELSE 0]
      /\ login' = [login EXCEPT ![a] = Waiting]
      /\ UNCHANGED <<minute, tally>>
    BY DEF WriteFailure, Leaves
<1>3. failures \in 0 .. MaxFailures /\ login[a].now \in 0 .. LastMinute /\ login[a].now <= minute
    BY <1>1, ThrottleTypes DEF ThrottleIsSound, TimesArePast
<1>4. wait \in Nat /\ wait <= MAX_WAIT
    BY <1>3, WaitIsBounded
<1> HIDE DEF wait
<1>5. /\ attempts'.failures = failures /\ attempts'.last = login[a].now
      /\ attempts'.until = IF wait > 0 THEN login[a].now + wait ELSE 0
      /\ attempts'.until \in Nat
    BY <1>2, <1>3, <1>4
<1>6. SignInTypes'
  <2>1. attempts' \in Attempts
      BY <1>2, <1>3, <1>5 DEF Attempts
  <2> QED BY <1>1, <1>2, <2>1, SignInConstants DEF SignInTypes, LoginState, Waiting
<1>7. \A b \in Login : /\ b # a => login'[b] = login[b]
                       /\ login'[a].at = "idle" /\ login'[a].now = 0
    BY <1>1, <1>2 DEF SignInTypes, Waiting
<1>8. TimesArePast'
    BY <1>1, <1>2, <1>7, ThrottleTypes DEF ThrottleIsSound, TimesArePast
<1>9. NeverShutOutForLong'
    BY <1>1, <1>2, <1>3, <1>4, <1>5, ThrottleTypes, SignInConstants DEF NeverShutOutForLong
<1>10. ASSUME Spaced PROVE Spaced'
  <2>1. \A b \in Login : b # a => login[b].at = "idle"
      BY <1>2, <1>10 DEF Spaced, OneLogin
  <2>2. tally.row <= failures /\ tally.last <= login[a].now
      BY <1>2, <1>10 DEF Spaced, WriteKeepsUp
  <2>3. tally.row \in 0 .. MaxFailures
      BY <1>1, <1>3, <2>2, ThrottleTypes, SignInConstants
  <2>4. WaitAfter(tally.row) \in Nat /\ WaitAfter(tally.row) <= wait
      BY <1>3, <2>2, <2>3, WaitIsBounded, WaitsGrow DEF wait
  <2>5. WaitAfter(tally.row) > 0 => Owed <= attempts'.until
      BY <1>1, <1>3, <1>4, <1>5, <2>2, <2>4, ThrottleTypes DEF Owed
  <2>6. Owed' = Owed /\ WaitAfter(tally'.row) = WaitAfter(tally.row) /\ tally' = tally
      BY <1>2 DEF Owed, WaitAfter
  <2>7. RowKeepsUp'
      BY <1>5, <2>2, <2>5, <2>6 DEF RowKeepsUp
  <2>8. OneLogin' /\ CheckedInTime' /\ WriteKeepsUp'
      BY <1>7, <2>1 DEF OneLogin, CheckedInTime, WriteKeepsUp
  <2> QED BY <2>7, <2>8 DEF Spaced
<1> QED BY <1>2, <1>6, <1>8, <1>9, <1>10 DEF ThrottleIsSound

\* Cleared, by the login that had the password right or by a new password: nothing is owed.
LEMMA ClearedKeepsThrottle ==
    ASSUME ThrottleIsSound, Cleared, minute' = minute,
           login' = login \/ \E a \in Login : Leaves(a)
    PROVE  ThrottleIsSound'
<1>1. SignInTypes
    BY DEF ThrottleIsSound
<1>2. attempts' = NoAttempts
    BY DEF Cleared
<1>3. /\ tally'.row = 0 /\ tally'.last = 0 /\ tally'.wrong = 0
      /\ tally'.early = tally.early /\ tally'.together = tally.together
      /\ tally' \in Tally
  <2>1. PICK astray \in BOOLEAN :
          tally' = [NoTally EXCEPT !.early = tally.early, !.together = tally.together, !.astray = astray]
      BY <1>1 DEF Cleared, SignInTypes, Tally
  <2>2. tally' = [wrong |-> 0, row |-> 0, last |-> 0,
                  early |-> tally.early, together |-> tally.together, astray |-> astray]
      BY <2>1 DEF NoTally
  <2>3. tally' \in Tally
      BY <1>1, <2>2, SignInConstants DEF SignInTypes, Tally
  <2> QED BY <2>2, <2>3
<1>4. login' \in [Login -> LoginState]
    BY <1>1, SignInConstants DEF SignInTypes, LoginState, Leaves, Waiting
<1>5. \A b \in Login : login'[b] = login[b] \/ login'[b] = Waiting
    BY <1>1 DEF SignInTypes, Leaves
<1>6. SignInTypes'
    BY <1>1, <1>2, <1>3, <1>4, SignInConstants DEF SignInTypes, Attempts, NoAttempts
<1>7. TimesArePast' /\ NeverShutOutForLong'
  <2>1. \A b \in Login : login'[b].now <= minute
      BY <1>1, <1>5, ThrottleTypes DEF ThrottleIsSound, TimesArePast, Waiting
  <2> QED BY <1>1, <1>2, <1>3, <2>1, ThrottleTypes, SignInConstants
          DEF TimesArePast, NeverShutOutForLong, NoAttempts
<1>8. ASSUME Spaced PROVE Spaced'
  <2>1. \A b \in Login : login'[b].at = login[b].at \/ login'[b].at = "idle"
      BY <1>5 DEF Waiting
  <2>2. OneLogin'
      BY <1>8, <2>1 DEF Spaced, OneLogin
  <2>3. WaitAfter(tally'.row) = 0
      BY <1>3, SignInConstants DEF WaitAfter
  <2>4. Owed' = 0
      BY <1>3, <2>3 DEF Owed
  <2>5. RowKeepsUp'
      BY <1>2, <1>3, <2>3 DEF RowKeepsUp, NoAttempts
  <2>6. WriteKeepsUp' /\ CheckedInTime'
      BY <1>3, <1>6, <2>4, ThrottleTypes DEF WriteKeepsUp, CheckedInTime, SignInTypes, LoginState
  <2> QED BY <2>2, <2>5, <2>6 DEF Spaced
<1> QED BY <1>3, <1>6, <1>7, <1>8 DEF ThrottleIsSound

\* A login that is cut off takes the tally out of step.
LEMMA CutOffKeepsThrottle ==
    ASSUME ThrottleIsSound, NEW a \in Login, CutOff(a)
    PROVE  ThrottleIsSound'
<1>1. SignInTypes
    BY DEF ThrottleIsSound
<1>2. /\ login' = [login EXCEPT ![a] = Waiting]
      /\ tally' = IF login[a].at = "write" THEN OutOfStep ELSE tally
      /\ UNCHANGED <<attempts, minute>>
    BY DEF CutOff, Leaves
<1>3. \A b \in Login : /\ b # a => login'[b] = login[b]
                       /\ login'[a].at = "idle" /\ login'[a].now = 0
    BY <1>1, <1>2 DEF SignInTypes, Waiting
<1>4. SignInTypes'
  <2>1. tally' \in Tally
      BY <1>1, <1>2, OutOfStepTypes DEF SignInTypes
  <2> QED BY <1>1, <1>2, <2>1, SignInConstants DEF SignInTypes, LoginState, Waiting
<1>5. TimesArePast' /\ NeverShutOutForLong'
    BY <1>1, <1>2, <1>3, ThrottleTypes, OutOfStepTypes DEF ThrottleIsSound, TimesArePast, NeverShutOutForLong
<1>6. CASE login[a].at = "write"
    BY <1>1, <1>2, <1>4, <1>5, <1>6, OutOfStepTypes DEF ThrottleIsSound
<1>7. CASE login[a].at # "write"
  <2>1. tally' = tally
      BY <1>2, <1>7
  <2>2. Owed' = Owed /\ WaitAfter(tally'.row) = WaitAfter(tally.row)
      BY <2>1 DEF Owed, WaitAfter
  <2>3. ASSUME Spaced PROVE Spaced'
    <3>1. (\A b \in Login : login'[b].at # "write") => \A b \in Login : login[b].at # "write"
        BY <1>3, <1>7
    <3>2. RowKeepsUp'
        BY <1>2, <2>1, <2>2, <2>3, <3>1 DEF Spaced, RowKeepsUp
    <3>3. OneLogin' /\ WriteKeepsUp' /\ CheckedInTime'
        BY <1>2, <1>3, <2>1, <2>2, <2>3 DEF Spaced, OneLogin, WriteKeepsUp, CheckedInTime
    <3> QED BY <3>2, <3>3 DEF Spaced
  <2> QED BY <1>4, <1>5, <2>1, <2>3 DEF ThrottleIsSound
<1> QED BY <1>6, <1>7

\* Waits only get shorter as time passes.
LEMMA MinutePassesKeepsThrottle == ThrottleIsSound /\ MinutePasses => ThrottleIsSound'
<1> SUFFICES ASSUME ThrottleIsSound, MinutePasses PROVE ThrottleIsSound'
    OBVIOUS
<1>1. SignInTypes
    BY DEF ThrottleIsSound
<1>2. minute' = minute + 1 /\ minute < LastMinute /\ UNCHANGED <<attempts, login, tally>>
    BY DEF MinutePasses
<1>3. SignInTypes'
    BY <1>1, <1>2, SignInConstants DEF SignInTypes
<1>4. TimesArePast' /\ NeverShutOutForLong'
    BY <1>1, <1>2, ThrottleTypes, SignInConstants DEF ThrottleIsSound, TimesArePast, NeverShutOutForLong
<1>5. Owed' = Owed /\ WaitAfter(tally'.row) = WaitAfter(tally.row)
    BY <1>2 DEF Owed, WaitAfter
<1>6. ASSUME Spaced PROVE Spaced'
  <2>1. OneLogin' /\ RowKeepsUp' /\ WriteKeepsUp'
      BY <1>2, <1>5, <1>6 DEF Spaced, OneLogin, RowKeepsUp, WriteKeepsUp
  <2>2. CheckedInTime'
    <3> SUFFICES ASSUME NEW a \in Login, login[a].at = "verify" PROVE Owed <= minute + 1
        BY <1>2, <1>5 DEF CheckedInTime
    <3>1. \A b \in Login : login[b].at # "write"
        BY <1>6 DEF Spaced, OneLogin
    <3>2. tally.row \in 0 .. MaxFailures
        BY <1>1, <1>6, <3>1, ThrottleTypes, SignInConstants DEF Spaced, RowKeepsUp
    <3>3. Owed \in Nat
        BY <1>1, <3>2, WaitIsBounded, ThrottleTypes DEF Owed
    <3> QED BY <1>1, <1>6, <3>3, ThrottleTypes DEF Spaced, CheckedInTime
  <2> QED BY <2>1, <2>2 DEF Spaced
<1> QED BY <1>2, <1>3, <1>4, <1>6 DEF ThrottleIsSound

\* Every step keeps it.
LEMMA ThrottleKeepsSound == ThrottleIsSound /\ [SignInNext]_signInVars => ThrottleIsSound'
<1> SUFFICES ASSUME ThrottleIsSound, [SignInNext]_signInVars PROVE ThrottleIsSound'
    OBVIOUS
<1>1. ASSUME NEW a \in Login, AskWait(a) PROVE ThrottleIsSound'
    BY <1>1, AskWaitKeepsThrottle
<1>2. ASSUME NEW a \in Login, Verify(a) PROVE ThrottleIsSound'
    BY <1>2, VerifyKeepsThrottle
<1>3. ASSUME NEW a \in Login, ReadFailures(a) PROVE ThrottleIsSound'
    BY <1>3, ReadFailuresKeepsThrottle
<1>4. ASSUME NEW a \in Login, WriteFailure(a) PROVE ThrottleIsSound'
    BY <1>4, WriteFailureKeepsThrottle
<1>5. ASSUME NEW a \in Login, ClearFailures(a) PROVE ThrottleIsSound'
    BY <1>5, ClearedKeepsThrottle DEF ClearFailures
<1>6. ASSUME NEW a \in Login, CutOff(a) PROVE ThrottleIsSound'
    BY <1>6, CutOffKeepsThrottle
<1>7. CASE NewPassword
    BY <1>7, ClearedKeepsThrottle DEF NewPassword
<1>8. CASE MinutePasses
    BY <1>8, MinutePassesKeepsThrottle
<1>9. CASE UNCHANGED signInVars
    BY <1>9 DEF signInVars, ThrottleIsSound, SignInTypes, TimesArePast, NeverShutOutForLong,
                Spaced, OneLogin, RowKeepsUp, WriteKeepsUp, CheckedInTime, Owed, WaitAfter
<1> QED BY <1>1, <1>2, <1>3, <1>4, <1>5, <1>6, <1>7, <1>8, <1>9 DEF SignInNext

\* However many logins there are, whatever they type, and wherever one is cut off.
THEOREM ThrottleStaysSound == SignInSpec => []ThrottleIsSound
<1> QED BY ThrottleStartsSound, ThrottleKeepsSound, PTL DEF SignInSpec

\* No password is checked before the wait that the wrong ones counted so far add up to is
\* over, unless two logins of the identity were under way at once or one was cut off.
THEOREM GuessesStaySpaced == SignInSpec => []GuessesAreSpaced
<1>1. ThrottleIsSound => GuessesAreSpaced
    BY DEF ThrottleIsSound, GuessesAreSpaced
<1> QED BY <1>1, ThrottleStaysSound, PTL

\* Whatever was counted, and however many count at once, nobody waits longer than MAX_WAIT.
THEOREM NobodyIsShutOutForLong == SignInSpec => []NeverShutOutForLong
<1>1. ThrottleIsSound => NeverShutOutForLong
    BY DEF ThrottleIsSound
<1> QED BY <1>1, ThrottleStaysSound, PTL

-----------------------------------------------------------------------------
(***************************************************************************)
(* DecisionLog: what is shown unmasked, and the chain of appends in turn    *)
(***************************************************************************)

QueryFields == {"at", "decision", "allowed", "masks", "previous", "seq", "shown", "covered"}

HasFields(fields) == DOMAIN fields = QueryFields /\ fields.decision \in Decision
QueriesHaveFields == DOMAIN query = Query /\ \A q \in Query : HasFields(query[q])

\* A query that comes to show its rows unmasked was covered while it ran.
CoveredBefore(q) ==
    /\ query[q].at \notin {"new", "done"} /\ attestation = "covers" => query[q].covered = TRUE
    /\ query[q].at \in {"last", "number", "insert"} /\ query[q].decision = "unmasked" => query[q].covered = TRUE
    /\ query[q].shown = "unmasked" =>
          /\ query[q].at = "done"
          /\ query[q].covered = TRUE
          /\ \E r \in records : r.by = q /\ r.decision = "unmasked"

\* The inductive invariant behind what is shown.
ShownIsSound == QueriesHaveFields /\ \A q \in Query : CoveredBefore(q)

\* No query has begun at first.
LEMMA ShownStartsSound == DecisionInit => ShownIsSound
<1> QED BY DEF DecisionInit, NoQuery, ShownIsSound, QueriesHaveFields, HasFields, QueryFields, Decision, CoveredBefore

\* A step of one query leaves the others sound.
LEMMA OneQueryMoves ==
    ASSUME ShownIsSound, NEW q \in Query, NEW fields, HasFields(fields),
           Moves(q, fields), attestation' = attestation, records \subseteq records', CoveredBefore(q)'
    PROVE  ShownIsSound'
<1>1. QueriesHaveFields'
    BY DEF Moves, ShownIsSound, QueriesHaveFields
<1>2. ASSUME NEW p \in Query \ {q} PROVE CoveredBefore(p)'
    BY DEF Moves, ShownIsSound, QueriesHaveFields, HasFields, CoveredBefore
<1> QED BY <1>1, <1>2 DEF ShownIsSound

\* Reading the log shows nothing.
LEMMA ReadsKeepShown ==
    ASSUME ShownIsSound, NEW q \in Query, ReadLast(q) \/ ReadSeq(q)
    PROVE  ShownIsSound'
<1>1. CASE ReadLast(q)
  <2> DEFINE fields == [query[q] EXCEPT !.at = "number", !.previous = LastPlace(records)]
  <2>1. HasFields(fields)
      BY DEF ShownIsSound, QueriesHaveFields, HasFields, QueryFields
  <2>2. Moves(q, fields) /\ attestation' = attestation /\ records' = records
      BY <1>1 DEF ReadLast
  <2>3. CoveredBefore(q)'
      BY <1>1, <2>1, <2>2 DEF ReadLast, Moves, ShownIsSound, QueriesHaveFields, HasFields, QueryFields, CoveredBefore
  <2> QED BY <2>1, <2>2, <2>3, OneQueryMoves
<1>2. CASE ReadSeq(q)
  <2> DEFINE fields == [query[q] EXCEPT !.at = "insert", !.seq = HighestSeq(records) + 1]
  <2>1. HasFields(fields)
      BY DEF ShownIsSound, QueriesHaveFields, HasFields, QueryFields
  <2>2. Moves(q, fields) /\ attestation' = attestation /\ records' = records
      BY <1>2 DEF ReadSeq
  <2>3. CoveredBefore(q)'
      BY <1>2, <2>1, <2>2 DEF ReadSeq, Moves, ShownIsSound, QueriesHaveFields, HasFields, QueryFields, CoveredBefore
  <2> QED BY <2>1, <2>2, <2>3, OneQueryMoves
<1> QED BY <1>1, <1>2

\* A query that is over and shows nothing unmasked.
LEMMA FinishKeepsShown ==
    ASSUME ShownIsSound, NEW q \in Query, NEW shown, shown # "unmasked", Finish(q, shown),
           attestation' = attestation, records \subseteq records'
    PROVE  ShownIsSound'
<1> DEFINE fields == [NoQuery EXCEPT !.at = "done", !.shown = shown, !.covered = (shown = "unmasked" /\ query[q].covered)]
<1>1. HasFields(fields)
    BY DEF NoQuery, QueryFields, HasFields, Decision
<1>2. Moves(q, fields)
    BY DEF Finish
<1>3. query'[q].at = "done" /\ query'[q].shown = shown
    BY <1>2 DEF Moves, NoQuery, ShownIsSound, QueriesHaveFields
<1>4. CoveredBefore(q)'
    BY <1>3 DEF CoveredBefore
<1> QED BY <1>1, <1>2, <1>4, OneQueryMoves

\* A query that goes on without an append has shown nothing yet.
LEMMA GoOnKeepsShown ==
    ASSUME ShownIsSound, NEW q \in Query, NEW at, at \notin {"new", "done", "last", "number", "insert"}, GoOn(q, at),
           query[q].at \notin {"new", "done"}, attestation' = attestation, records \subseteq records'
    PROVE  ShownIsSound'
<1> DEFINE fields == [query[q] EXCEPT !.at = at, !.previous = NoPlace, !.seq = 0, !.allowed = FALSE]
<1>1. HasFields(fields)
    BY DEF ShownIsSound, QueriesHaveFields, HasFields, QueryFields
<1>2. Moves(q, fields)
    BY DEF GoOn
<1>3. query'[q].at = at /\ query'[q].shown = query[q].shown /\ query'[q].covered = query[q].covered
    BY <1>2 DEF Moves, ShownIsSound, QueriesHaveFields, HasFields, QueryFields
<1>4. CoveredBefore(q)'
    BY <1>3 DEF CoveredBefore, ShownIsSound
<1> QED BY <1>1, <1>2, <1>4, OneQueryMoves

\* A decision that is begun to be appended; one that releases rows unmasked, of a query that is covered.
LEMMA AppendsKeepsShown ==
    ASSUME ShownIsSound, NEW q \in Query, NEW before, HasFields(before), NEW decision \in Decision,
           Appends(q, before, decision), UNCHANGED <<attestation, records>>,
           before.shown # "unmasked",
           attestation = "covers" => before.covered = TRUE,
           decision = "unmasked" => before.covered = TRUE
    PROVE  ShownIsSound'
<1> DEFINE fields == [before EXCEPT !.at = "last", !.decision = decision]
<1>1. HasFields(fields)
    BY DEF HasFields, QueryFields
<1>2. Moves(q, fields)
    BY DEF Appends
<1>3. /\ query'[q].at = "last" /\ query'[q].decision = decision
      /\ query'[q].shown = before.shown /\ query'[q].covered = before.covered
    BY <1>2 DEF Moves, ShownIsSound, QueriesHaveFields, HasFields, QueryFields
<1>4. CoveredBefore(q)'
    BY <1>3 DEF CoveredBefore
<1> QED BY <1>1, <1>2, <1>4, OneQueryMoves

\* A query begins, and goes to append the decision on its execution.
LEMMA BeginKeepsShown ==
    ASSUME ShownIsSound, NEW q \in Query, Begin(q)
    PROVE  ShownIsSound'
<1>1. PICK allowed \in BOOLEAN, masks \in BOOLEAN :
        Appends(q, [query[q] EXCEPT !.allowed = allowed, !.masks = masks, !.covered = attestation = "covers"],
                "execution")
    BY DEF Begin
<1> DEFINE before == [query[q] EXCEPT !.allowed = allowed, !.masks = masks, !.covered = attestation = "covers"]
<1>2. HasFields(before) /\ before.shown = query[q].shown /\ before.covered = (attestation = "covers")
    BY DEF ShownIsSound, QueriesHaveFields, HasFields, QueryFields
<1>3. query[q].at = "new" /\ query[q].shown # "unmasked"
    BY DEF Begin, ShownIsSound, CoveredBefore
<1>4. UNCHANGED <<attestation, records>>
    BY DEF Begin
<1>5. Appends(q, before, "execution")
    BY <1>1
<1>6. attestation = "covers" => before.covered = TRUE
    BY <1>2
<1> HIDE DEF before
<1> QED BY <1>2, <1>3, <1>4, <1>5, <1>6, AppendsKeepsShown DEF Decision

\* It has run, and goes to append the decision on its release.
LEMMA RunKeepsShown ==
    ASSUME ShownIsSound, NEW q \in Query, Run(q)
    PROVE  ShownIsSound'
<1>1. PICK allowed \in BOOLEAN, masks \in BOOLEAN :
        Appends(q, [query[q] EXCEPT !.allowed = allowed, !.masks = allowed /\ (@ \/ masks)], "release")
    BY DEF Run
<1> DEFINE before == [query[q] EXCEPT !.allowed = allowed, !.masks = allowed /\ (@ \/ masks)]
<1>2. HasFields(before) /\ before.shown = query[q].shown /\ before.covered = query[q].covered
    BY DEF ShownIsSound, QueriesHaveFields, HasFields, QueryFields
<1>3. query[q].at = "run" /\ query[q].shown # "unmasked"
    BY DEF Run, ShownIsSound, CoveredBefore
<1>4. UNCHANGED <<attestation, records>>
    BY DEF Run
<1>5. Appends(q, before, "release")
    BY <1>1
<1>6. attestation = "covers" => before.covered = TRUE
    BY <1>2, <1>3 DEF ShownIsSound, CoveredBefore
<1> HIDE DEF before
<1> QED BY <1>2, <1>3, <1>4, <1>5, <1>6, AppendsKeepsShown DEF Decision

\* Only a query whose reader's attestation covers the data goes on to append "unmasked".
LEMMA AttestationKeepsShown ==
    ASSUME ShownIsSound, NEW q \in Query, AskAttested(q) \/ ReadScope(q)
    PROVE  ShownIsSound'
<1>1. UNCHANGED <<attestation, records>>
    BY DEF AskAttested, ReadScope
<1>2. ASSUME Finish(q, "masked") PROVE ShownIsSound'
    BY <1>1, <1>2, FinishKeepsShown
<1>3. query[q].at \in {"attested", "scope"} /\ query[q].shown # "unmasked"
    BY DEF AskAttested, ReadScope, ShownIsSound, CoveredBefore
<1>4. ASSUME Moves(q, [query[q] EXCEPT !.at = "scope"]) PROVE ShownIsSound'
  <2> DEFINE fields == [query[q] EXCEPT !.at = "scope"]
  <2>1. HasFields(fields) /\ Moves(q, fields)
      BY <1>4 DEF ShownIsSound, QueriesHaveFields, HasFields, QueryFields
  <2>2. query'[q].at = "scope" /\ query'[q].shown = query[q].shown /\ query'[q].covered = query[q].covered
      BY <1>4 DEF Moves, ShownIsSound, QueriesHaveFields, HasFields, QueryFields
  <2>3. CoveredBefore(q)'
      BY <1>1, <1>3, <2>2 DEF CoveredBefore, ShownIsSound
  <2> QED BY <1>1, <2>1, <2>3, OneQueryMoves
<1>5. ASSUME attestation = "covers", Appends(q, query[q], "unmasked") PROVE ShownIsSound'
  <2>1. query[q].covered = TRUE
      BY <1>3, <1>5 DEF ShownIsSound, CoveredBefore
  <2> QED BY <1>1, <1>3, <1>5, <2>1, AppendsKeepsShown DEF ShownIsSound, QueriesHaveFields, Decision
<1> QED BY <1>2, <1>4, <1>5 DEF AskAttested, ReadScope

\* Its record is in the log as rows are shown unmasked.
LEMMA InsertKeepsShown ==
    ASSUME ShownIsSound, NEW q \in Query, Insert(q)
    PROVE  ShownIsSound'
<1>1. query[q].at = "insert" /\ attestation' = attestation /\ records \subseteq records'
    BY DEF Insert
<1>2. CASE query[q].decision = "unmasked"
  <2> DEFINE fields == [NoQuery EXCEPT !.at = "done", !.shown = "unmasked", !.covered = query[q].covered]
  <2>1. query[q].covered = TRUE
      BY <1>1, <1>2 DEF ShownIsSound, CoveredBefore
  <2>2. Finish(q, "unmasked")
      BY <1>2 DEF Insert, Decided
  <2>3. query'[q] = [NoQuery EXCEPT !.at = "done", !.shown = "unmasked", !.covered = TRUE]
      BY <2>1, <2>2 DEF Finish, Moves, ShownIsSound, QueriesHaveFields
  <2>4. query'[q].at = "done" /\ query'[q].covered = TRUE
      BY <2>3 DEF NoQuery
  <2>5. \E r \in records' : r.by = q /\ r.decision = "unmasked"
    <3>1. PICK rank \in FreeRanks(query[q].seq) :
            records' = records \cup {[place |-> <<query[q].seq, rank>>, previous |-> query[q].previous,
                                      by |-> q, decision |-> query[q].decision]}
        BY DEF Insert
    <3> DEFINE r == [place |-> <<query[q].seq, rank>>, previous |-> query[q].previous,
                     by |-> q, decision |-> query[q].decision]
    <3>2. r \in records'
        BY <3>1
    <3>3. r.by = q /\ r.decision = "unmasked"
        BY <1>2
    <3> QED BY <3>2, <3>3
  <2>6. CoveredBefore(q)'
      BY <2>4, <2>5 DEF CoveredBefore
  <2>7. HasFields(query'[q])
      BY <2>3 DEF NoQuery, QueryFields, HasFields, Decision
  <2>8. Moves(q, query'[q])
      BY <2>2 DEF Finish, Moves, ShownIsSound, QueriesHaveFields
  <2> QED BY <1>1, <2>6, <2>7, <2>8, OneQueryMoves
<1>3. CASE query[q].decision # "unmasked"
  <2>1. Finish(q, "nothing") \/ Finish(q, "plain") \/ GoOn(q, "run") \/ GoOn(q, "attested")
      BY <1>3 DEF Insert, Decided, ShownIsSound, QueriesHaveFields, HasFields, Decision
  <2> QED BY <1>1, <2>1, FinishKeepsShown, GoOnKeepsShown
<1> QED BY <1>2, <1>3

\* An attestation that comes to cover the data covers every query under way.
LEMMA SignKeepsShown == ShownIsSound /\ Sign => ShownIsSound'
<1> SUFFICES ASSUME ShownIsSound, Sign PROVE ShownIsSound'
    OBVIOUS
<1>1. PICK valid \in {"none", "covers", "others"} :
        /\ attestation' = valid
        /\ query' = [q \in Query |->
              [query[q] EXCEPT !.covered = @ \/ (valid = "covers" /\ query[q].at \notin {"new", "done"})]]
    BY DEF Sign
<1>2. QueriesHaveFields'
    BY <1>1 DEF ShownIsSound, QueriesHaveFields, HasFields, QueryFields
<1>3. ASSUME NEW q \in Query PROVE CoveredBefore(q)'
  <2>1. /\ query'[q].at = query[q].at /\ query'[q].decision = query[q].decision /\ query'[q].shown = query[q].shown
        /\ query'[q].covered = (query[q].covered \/ (valid = "covers" /\ query[q].at \notin {"new", "done"}))
      BY <1>1 DEF ShownIsSound, QueriesHaveFields, HasFields, QueryFields
  <2>2. records' = records
      BY DEF Sign
  <2>3. query[q].covered = TRUE => query'[q].covered = TRUE
      BY <2>1, Zenon
  <2>4. valid = "covers" /\ query[q].at \notin {"new", "done"} => query'[q].covered = TRUE
      BY <2>1, Zenon
  <2> QED BY <1>1, <2>1, <2>2, <2>3, <2>4 DEF ShownIsSound, CoveredBefore
<1> QED BY <1>2, <1>3 DEF ShownIsSound

\* Every step keeps what is known of what is shown.
LEMMA DecisionKeepsShown == ShownIsSound /\ [DecisionNext]_decisionVars => ShownIsSound'
<1> SUFFICES ASSUME ShownIsSound, [DecisionNext]_decisionVars PROVE ShownIsSound'
    OBVIOUS
<1>1. ASSUME NEW q \in Query, InsertFails(q) PROVE ShownIsSound'
    BY <1>1, FinishKeepsShown DEF InsertFails
<1>2. CASE UNCHANGED decisionVars
    BY <1>2 DEF decisionVars, ShownIsSound, QueriesHaveFields, HasFields, CoveredBefore
<1> QED BY <1>1, <1>2, BeginKeepsShown, ReadsKeepShown, InsertKeepsShown, RunKeepsShown, AttestationKeepsShown,
           SignKeepsShown DEF DecisionNext, QueryStep

\* Rows are shown unmasked only with their record in the log, and to a reader whose attestation
\* covered the data while the query ran (core/compliance/governed_query.py:215).
THEOREM UnmaskedStaysLogged == DecisionSpec => []UnmaskedIsLogged
<1>1. ShownIsSound => UnmaskedIsLogged
    BY DEF ShownIsSound, CoveredBefore, UnmaskedIsLogged
<1> QED BY <1>1, ShownStartsSound, DecisionKeepsShown, PTL DEF DecisionSpec

-----------------------------------------------------------------------------
\* Each record is of its own seq, past the one it names.
InTurn ==
    /\ \A r \in records : r.place[1] \in Nat \ {0} /\ r.previous[1] < r.place[1] /\ r.previous[1] \in Nat
    /\ \A r, s \in records : r.place[1] = s.place[1] => r = s
    /\ records # {} => \E last \in records : \A r \in records \ {last} : r.place[1] < last.place[1]

\* What an append has read of the log is so as long as nothing else is appended.
AppendsTheLast ==
    \A q \in Query :
        /\ Appending(q) => query[q].previous = LastPlace(records)
        /\ query[q].at = "insert" => query[q].seq = HighestSeq(records) + 1

\* The inductive invariant behind the chain.
LogIsSound == atOnce = TRUE \/ (InTurn /\ Verdict(records) = "verified" /\ AppendsTheLast)

\* In a log that was written in turn, the last record is the one of the highest seq.
LEMMA LastOfLog ==
    ASSUME InTurn
    PROVE  /\ LastPlace(records)[1] \in Nat
           /\ \A r \in records : r.place[1] <= LastPlace(records)[1]
<1>1. CASE records = {}
    BY <1>1 DEF LastPlace, NoPlace
<1>2. CASE records # {}
  <2>1. PICK last \in records : \A r \in records \ {last} : r.place[1] < last.place[1]
      BY <1>2 DEF InTurn
  <2> DEFINE Highest(r) == r \in records /\ \A s \in records \ {r} : Before(s, r)
  <2>2. Highest(last)
      BY <2>1 DEF Before
  <2>3. ASSUME NEW r, Highest(r) PROVE r = last
    <3> SUFFICES ASSUME r # last PROVE FALSE
        OBVIOUS
    <3>1. Before(last, r) /\ r.place[1] < last.place[1]
        BY <2>1, <2>3
    <3> QED BY <2>3, <3>1 DEF Before, InTurn
  <2>4. LastPlace(records) = last.place
      BY <1>2, <2>2, <2>3 DEF LastPlace
  <2> QED BY <2>1, <2>4 DEF InTurn
<1> QED BY <1>1, <1>2

\* A log verifies when no record is wrong, and only then.
LEMMA VerifiedMeansNoneWrong ==
    ASSUME NEW rs
    PROVE  Verdict(rs) = "verified" <=> \A r \in rs : ~Forks(rs, r) /\ ~Breaks(rs, r)
<1> QED BY DEF Verdict

\* An empty log verifies.
LEMMA LogStartsSound == DecisionInit => LogIsSound
<1> SUFFICES ASSUME DecisionInit PROVE LogIsSound
    OBVIOUS
<1>1. Verdict(records) = "verified"
    BY VerifiedMeansNoneWrong DEF DecisionInit
<1>2. InTurn /\ AppendsTheLast
    BY DEF DecisionInit, NoQuery, InTurn, AppendsTheLast, Appending
<1> QED BY <1>1, <1>2 DEF LogIsSound

\* A step that appends nothing: one query reads the log, or goes where it appends nothing.
LEMMA LogUnwritten ==
    ASSUME LogIsSound, UNCHANGED <<records, atOnce>>, AppendsTheLast => AppendsTheLast'
    PROVE  LogIsSound'
<1>1. InTurn => InTurn'
    BY DEF InTurn
<1> QED BY <1>1 DEF LogIsSound

\* A record that is inserted while no other is appended follows the last one.
LEMMA InsertInTurn ==
    ASSUME QueriesHaveFields, InTurn, Verdict(records) = "verified", AppendsTheLast, NEW q \in Query, Insert(q),
           \A p \in Query \ {q} : ~Appending(p)
    PROVE  InTurn' /\ Verdict(records') = "verified" /\ AppendsTheLast'
<1>1. PICK rank \in FreeRanks(query[q].seq) :
        records' = records \cup {[place |-> <<query[q].seq, rank>>, previous |-> query[q].previous,
                                  by |-> q, decision |-> query[q].decision]}
    BY DEF Insert
<1> DEFINE new == [place |-> <<query[q].seq, rank>>, previous |-> query[q].previous,
                   by |-> q, decision |-> query[q].decision]
           top == LastPlace(records)[1]
<1>2. /\ new.place[1] = query[q].seq /\ new.previous = query[q].previous
      /\ records' = records \cup {new}
    BY <1>1
<1>3. new.place[1] = top + 1 /\ new.previous = LastPlace(records)
    BY <1>2 DEF Insert, Appending, AppendsTheLast, HighestSeq
<1>3a. ~Before(new, new)
  <2>1. Cardinality(Query) \in Nat
      BY DecisionConstants, FS_CardinalityType
  <2>2. rank \in Int
      BY <2>1 DEF FreeRanks, Ranks, Middle
  <2>3. new.place[1] = query[q].seq /\ new.place[2] = rank
      OBVIOUS
  <2> QED BY <1>3, <2>2, <2>3, LastOfLog DEF Before
<1> HIDE DEF new
<1>4. top \in Nat /\ \A r \in records : r.place[1] <= top
    BY LastOfLog
<1>5. \A r \in records : Before(r, new) /\ ~Before(new, r) /\ r # new /\ r.place[1] < new.place[1]
    BY <1>3, <1>4 DEF Before, InTurn
<1>6. InTurn'
  <2>1. \A r \in records' : r.place[1] \in Nat \ {0} /\ r.previous[1] < r.place[1] /\ r.previous[1] \in Nat
      BY <1>2, <1>3, <1>4 DEF InTurn
  <2>2. \A r, s \in records' : r.place[1] = s.place[1] => r = s
      BY <1>2, <1>3, <1>4, <1>5 DEF InTurn
  <2>3. new \in records' /\ \A r \in records' \ {new} : r.place[1] < new.place[1]
      BY <1>2, <1>5
  <2> QED BY <2>1, <2>2, <2>3 DEF InTurn
<1>7. Verdict(records') = "verified"
  <2>1. Earlier(records', new) = records
      BY <1>2, <1>5, <1>3a DEF Earlier
  <2>2. \A r \in records : Earlier(records', r) = Earlier(records, r)
      BY <1>2, <1>5 DEF Earlier
  <2>3. ~Breaks(records', new)
      BY <1>3, <2>1 DEF Breaks
  <2>4. ~Forks(records', new)
    <3> SUFFICES ASSUME NEW s \in records, s.previous = new.previous PROVE FALSE
        BY <2>1 DEF Forks
    <3>1. s.previous[1] = top
        BY <1>3
    <3> QED BY <1>4, <3>1 DEF InTurn
  <2>5. \A r \in records : ~Forks(records', r) /\ ~Breaks(records', r)
      BY <2>2, VerifiedMeansNoneWrong DEF Forks, Breaks
  <2> QED BY <1>2, <2>3, <2>4, <2>5, VerifiedMeansNoneWrong
<1>8. AppendsTheLast'
  <2>1. query'[q].at \notin {"number", "insert"}
    <3>1. Finish(q, "unmasked") \/ Finish(q, "nothing") \/ Finish(q, "plain") \/ GoOn(q, "run") \/ GoOn(q, "attested")
        BY DEF Insert, Decided, QueriesHaveFields, HasFields, Decision
    <3>2. ASSUME NEW shown, Finish(q, shown) PROVE query'[q].at = "done"
        BY <3>2 DEF Finish, Moves, NoQuery, QueriesHaveFields
    <3>3. ASSUME NEW at, GoOn(q, at) PROVE query'[q].at = at
        BY <3>3 DEF GoOn, Moves, QueriesHaveFields, HasFields, QueryFields
    <3> QED BY <3>1, <3>2, <3>3
  <2>2. \A p \in Query \ {q} : query'[p] = query[p]
      BY DEF Insert, Decided, Finish, GoOn, Moves, QueriesHaveFields, HasFields, Decision
  <2> QED BY <2>1, <2>2 DEF AppendsTheLast, Appending
<1> QED BY <1>6, <1>7, <1>8

\* What an append reads of a log nothing else is appended to.
LEMMA ReadsKeepLog ==
    ASSUME QueriesHaveFields, LogIsSound, NEW q \in Query, ReadLast(q) \/ ReadSeq(q)
    PROVE  LogIsSound'
<1>1. AppendsTheLast => AppendsTheLast'
  <2> SUFFICES ASSUME AppendsTheLast, NEW p \in Query
               PROVE  /\ Appending(p)' => query'[p].previous = LastPlace(records)
                      /\ query'[p].at = "insert" => query'[p].seq = HighestSeq(records) + 1
      BY DEF ReadLast, ReadSeq, AppendsTheLast
  <2>1. CASE p # q
      BY <2>1 DEF ReadLast, ReadSeq, Moves, AppendsTheLast, Appending, QueriesHaveFields
  <2>2. CASE p = q /\ ReadLast(q)
      BY <2>2 DEF ReadLast, Moves, QueriesHaveFields, HasFields, QueryFields
  <2>3. CASE p = q /\ ReadSeq(q)
      BY <2>3 DEF ReadSeq, Moves, AppendsTheLast, Appending, QueriesHaveFields, HasFields, QueryFields
  <2> QED BY <2>1, <2>2, <2>3
<1> QED BY <1>1, LogUnwritten DEF ReadLast, ReadSeq

\* A query that goes where it appends nothing yet, the others as they are.
LEMMA QueryLeavesLog ==
    ASSUME QueriesHaveFields, LogIsSound, UNCHANGED <<records, atOnce>>, NEW q \in Query, NEW fields,
           Moves(q, fields), fields.at \notin {"number", "insert"}
    PROVE  LogIsSound'
<1>1. AppendsTheLast => AppendsTheLast'
    BY DEF Moves, AppendsTheLast, Appending, QueriesHaveFields
<1> QED BY <1>1, LogUnwritten

\* A query that appends nothing, or has yet to read the log, leaves it as it is.
LEMMA QueryKeepsLog ==
    ASSUME QueriesHaveFields, LogIsSound, NEW q \in Query,
           Begin(q) \/ Run(q) \/ AskAttested(q) \/ ReadScope(q) \/ InsertFails(q)
    PROVE  LogIsSound'
<1>1. UNCHANGED <<records, atOnce>>
    BY DEF Begin, Run, AskAttested, ReadScope, InsertFails
<1>2. ASSUME NEW shown, Finish(q, shown) PROVE LogIsSound'
  <2> DEFINE fields == [NoQuery EXCEPT !.at = "done", !.shown = shown,
                                       !.covered = (shown = "unmasked" /\ query[q].covered)]
  <2>1. fields.at = "done" /\ Moves(q, fields)
      BY <1>2 DEF Finish, NoQuery
  <2> QED BY <1>1, <2>1, QueryLeavesLog
<1>3. ASSUME NEW before, HasFields(before), NEW decision, Appends(q, before, decision) PROVE LogIsSound'
  <2> DEFINE fields == [before EXCEPT !.at = "last", !.decision = decision]
  <2>1. fields.at = "last" /\ Moves(q, fields)
      BY <1>3 DEF Appends, HasFields, QueryFields
  <2> QED BY <1>1, <2>1, QueryLeavesLog
<1>4. CASE Begin(q)
  <2>1. PICK allowed \in BOOLEAN, masks \in BOOLEAN :
          Appends(q, [query[q] EXCEPT !.allowed = allowed, !.masks = masks, !.covered = attestation = "covers"],
                  "execution")
      BY <1>4 DEF Begin
  <2>2. HasFields([query[q] EXCEPT !.allowed = allowed, !.masks = masks, !.covered = attestation = "covers"])
      BY DEF QueriesHaveFields, HasFields, QueryFields
  <2> QED BY <1>3, <2>1, <2>2
<1>5. CASE Run(q)
  <2>1. PICK allowed \in BOOLEAN, masks \in BOOLEAN :
          Appends(q, [query[q] EXCEPT !.allowed = allowed, !.masks = allowed /\ (@ \/ masks)], "release")
      BY <1>5 DEF Run
  <2>2. HasFields([query[q] EXCEPT !.allowed = allowed, !.masks = allowed /\ (@ \/ masks)])
      BY DEF QueriesHaveFields, HasFields, QueryFields
  <2> QED BY <1>3, <2>1, <2>2
<1>6. CASE AskAttested(q)
  <2>1. ASSUME Moves(q, [query[q] EXCEPT !.at = "scope"]) PROVE LogIsSound'
    <3>1. [query[q] EXCEPT !.at = "scope"].at = "scope"
        BY DEF QueriesHaveFields, HasFields, QueryFields
    <3> QED BY <1>1, <2>1, <3>1, QueryLeavesLog
  <2> QED BY <1>2, <1>6, <2>1 DEF AskAttested
<1>7. CASE ReadScope(q)
    BY <1>2, <1>3, <1>7 DEF ReadScope, QueriesHaveFields
<1>8. CASE InsertFails(q)
    BY <1>2, <1>8 DEF InsertFails
<1> QED BY <1>4, <1>5, <1>6, <1>7, <1>8

\* A record follows the last one, or two were appended at once.
LEMMA InsertKeepsLog ==
    ASSUME QueriesHaveFields, LogIsSound, NEW q \in Query, Insert(q)
    PROVE  LogIsSound'
<1>1. CASE atOnce = TRUE \/ \E p \in Query \ {q} : Appending(p)
  <2>1. atOnce' = (atOnce \/ \E p \in Query \ {q} : Appending(p))
      BY DEF Insert
  <2>2. atOnce' = TRUE
      BY <1>1, <2>1, Zenon
  <2> QED BY <2>2 DEF LogIsSound
<1>2. CASE ~(atOnce = TRUE \/ \E p \in Query \ {q} : Appending(p))
    BY <1>2, InsertInTurn DEF LogIsSound
<1> QED BY <1>1, <1>2

\* Signing has nothing to do with the log.
LEMMA SignKeepsLog == QueriesHaveFields /\ LogIsSound /\ Sign => LogIsSound'
<1> SUFFICES ASSUME QueriesHaveFields, LogIsSound, Sign PROVE LogIsSound'
    OBVIOUS
<1>1. \A q \in Query : query'[q].at = query[q].at /\ query'[q].previous = query[q].previous /\ query'[q].seq = query[q].seq
    BY DEF Sign, QueriesHaveFields, HasFields, QueryFields
<1>2. UNCHANGED <<records, atOnce>>
    BY DEF Sign
<1>3. AppendsTheLast => AppendsTheLast'
    BY <1>1, <1>2 DEF AppendsTheLast, Appending
<1> QED BY <1>2, <1>3, LogUnwritten

\* Every step keeps the log sound.
LEMMA DecisionKeepsLog == ShownIsSound /\ LogIsSound /\ [DecisionNext]_decisionVars => LogIsSound'
<1> SUFFICES ASSUME ShownIsSound, LogIsSound, [DecisionNext]_decisionVars PROVE LogIsSound'
    OBVIOUS
<1>1. QueriesHaveFields
    BY DEF ShownIsSound
<1>2. CASE UNCHANGED decisionVars
    BY <1>2, LogUnwritten DEF decisionVars, AppendsTheLast, Appending
<1> QED BY <1>1, <1>2, ReadsKeepLog, QueryKeepsLog, InsertKeepsLog, SignKeepsLog DEF DecisionNext, QueryStep

\* As long as no two decisions are appended at once, the log verifies
\* (store/compliance_store.py:848 "so it is the true insertion order").
THEOREM AppendsInTurnVerify == DecisionSpec => []ForksNeedTwoAtOnce
<1>1. LogIsSound => ForksNeedTwoAtOnce
    BY DEF LogIsSound, ForksNeedTwoAtOnce
<1>2. DecisionInit => ShownIsSound /\ LogIsSound
    BY ShownStartsSound, LogStartsSound
<1>3. ShownIsSound /\ LogIsSound /\ [DecisionNext]_decisionVars => (ShownIsSound /\ LogIsSound)'
    BY DecisionKeepsShown, DecisionKeepsLog
<1> QED BY <1>1, <1>2, <1>3, PTL DEF DecisionSpec

-----------------------------------------------------------------------------
(***************************************************************************)
(* DecisionLog: the verdict on a log that was appended to at once           *)
(***************************************************************************)

\* Records of which each has a place of its own.
Log(rs) ==
    /\ rs \subseteq Record
    /\ \A r, s \in rs : r.place = s.place => r = s
    /\ \E highest \in Nat : \A r \in rs : r.place[1] <= highest

IsFirst(rs, r) == r \in rs /\ \A s \in rs \ {r} : Before(r, s)
IsLast(rs, r) == r \in rs /\ \A s \in rs \ {r} : Before(s, r)

\* A place is a seq and a rank, and not the one of no record.
LEMMA PlaceOfRecord ==
    ASSUME NEW r \in Record
    PROVE  /\ r.place = <<r.place[1], r.place[2]>>
           /\ r.place[1] \in Nat \ {0} /\ r.place[2] \in Nat /\ r.place # NoPlace
<1>1. Cardinality(Query) \in Nat
    BY DecisionConstants, FS_CardinalityType
<1>2. Ranks \subseteq Nat
    BY <1>1 DEF Ranks
<1>3. PICK seq \in Seqs, rank \in Ranks : r.place = <<seq, rank>>
    BY DEF Record, Place
<1>4. seq \in Nat \ {0} /\ rank \in Nat /\ r.place[1] = seq /\ r.place[2] = rank
    BY <1>2, <1>3 DEF Seqs
<1> QED BY <1>3, <1>4 DEF NoPlace

\* The order is total on records of different places.
LEMMA OrderOfRecords ==
    ASSUME NEW r \in Record, NEW s \in Record
    PROVE  /\ ~(Before(r, s) /\ Before(s, r)) /\ ~Before(r, r)
           /\ r.place # s.place => Before(r, s) \/ Before(s, r)
           /\ \A t \in Record : Before(r, s) /\ Before(s, t) => Before(r, t)
<1> QED BY PlaceOfRecord DEF Before

\* A part of a log is one.
LEMMA PartOfLog ==
    ASSUME NEW rs, Log(rs), NEW part \in SUBSET rs
    PROVE  Log(part)
<1> QED BY DEF Log

\* A log with records has a first: of the least seq, the one of the least rank.
LEMMA FirstRecord ==
    ASSUME NEW rs, Log(rs), rs # {}
    PROVE  \E r \in rs : IsFirst(rs, r)
<1> DEFINE Numbers == {r.place[1] : r \in rs}
<1>0. rs \subseteq Record
    BY DEF Log
<1>1. PICK n \in Numbers : \A m \in Numbers : n <= m
  <2>1. Numbers \in SUBSET Nat /\ Numbers # {}
      BY <1>0, PlaceOfRecord
  <2> QED BY <2>1, LeastNumber
<1> DEFINE OfIt == {r \in rs : r.place[1] = n}
           RanksOfIt == {r.place[2] : r \in OfIt}
<1>2. PICK k \in RanksOfIt : \A l \in RanksOfIt : k <= l
  <2>1. RanksOfIt \in SUBSET Nat /\ RanksOfIt # {}
      BY <1>0, PlaceOfRecord
  <2> QED BY <2>1, LeastNumber
<1>3. PICK r \in rs : r.place[1] = n /\ r.place[2] = k
    BY <1>2
<1>4. ASSUME NEW s \in rs, s # r PROVE Before(r, s)
  <2>1. r \in Record /\ s \in Record /\ s.place # r.place
      BY <1>0, <1>4 DEF Log
  <2>2. n <= s.place[1]
      BY <1>1
  <2>3. s.place[1] = n => k <= s.place[2]
      BY <1>2
  <2> QED BY <1>3, <2>1, <2>2, <2>3, PlaceOfRecord DEF Before
<1> QED BY <1>4 DEF IsFirst

\* It has a last one too, for its seqs are bounded, and its ranks.
LEMMA LastRecord ==
    ASSUME NEW rs, Log(rs), rs # {}
    PROVE  \E r \in rs : IsLast(rs, r)
<1> DEFINE Bounds == {b \in Nat : \A r \in rs : r.place[1] <= b}
<1>0. rs \subseteq Record
    BY DEF Log
<1>1. PICK n \in Bounds : \A m \in Bounds : n <= m
  <2>1. Bounds \in SUBSET Nat /\ Bounds # {}
      BY DEF Log
  <2> QED BY <2>1, LeastNumber
<1> DEFINE OfIt == {r \in rs : r.place[1] = n}
<1>2. OfIt # {}
  <2> SUFFICES ASSUME OfIt = {} PROVE FALSE
      OBVIOUS
  <2>1. PICK r \in rs : TRUE
      OBVIOUS
  <2>2. \A s \in rs : s.place[1] \in Nat \ {0} /\ s.place[1] <= n /\ s.place[1] # n
      BY <1>0, PlaceOfRecord
  <2>3. n - 1 \in Bounds
      BY <2>1, <2>2
  <2> QED BY <1>1, <2>3
<1> DEFINE RankBounds == {b \in Nat : \A r \in OfIt : r.place[2] <= b}
<1>3. PICK k \in RankBounds : \A l \in RankBounds : k <= l
  <2>1. Cardinality(Query) \in Nat
      BY DecisionConstants, FS_CardinalityType
  <2>2. \A r \in rs : r.place[2] \in Ranks
      BY <1>0 DEF Record, Place
  <2>3. 2 * Cardinality(Query) \in RankBounds
      BY <2>1, <2>2 DEF Ranks
  <2>4. RankBounds \in SUBSET Nat /\ RankBounds # {}
      BY <2>3
  <2> HIDE DEF RankBounds
  <2> QED BY <2>4, LeastNumber
<1>4. PICK r \in OfIt : r.place[2] = k
  <2> SUFFICES ASSUME \A r \in OfIt : r.place[2] # k PROVE FALSE
      OBVIOUS
  <2>1. PICK r \in OfIt : TRUE
      BY <1>2
  <2>2. \A s \in OfIt : s.place[2] \in Nat /\ s.place[2] <= k /\ s.place[2] # k
      BY <1>0, <1>3, PlaceOfRecord
  <2>3. k - 1 \in RankBounds
    <3>1. k \in Nat /\ r.place[2] < k
        BY <1>3, <2>1, <2>2
    <3> QED BY <2>2, <3>1
  <2>4. k <= k - 1
      BY <1>3, <2>3
  <2> QED BY <1>3, <2>4
<1>5. ASSUME NEW s \in rs, s # r PROVE Before(s, r)
  <2>1. r \in Record /\ s \in Record /\ s.place # r.place
      BY <1>0, <1>4, <1>5 DEF Log
  <2>2. s.place[1] <= n /\ r.place[1] = n
      BY <1>1, <1>4
  <2>3. s.place[1] = n => s.place[2] <= k
      BY <1>3
  <2> QED BY <1>4, <2>1, <2>2, <2>3, PlaceOfRecord DEF Before
<1> QED BY <1>4, <1>5 DEF IsLast

\* LastPlace is the place of the last record.
LEMMA LastPlaceOfLog ==
    ASSUME NEW rs, Log(rs)
    PROVE  /\ rs = {} => LastPlace(rs) = NoPlace
           /\ \A r : IsLast(rs, r) => LastPlace(rs) = r.place
           /\ rs # {} => \E r \in rs : IsLast(rs, r) /\ LastPlace(rs) = r.place
<1>1. ASSUME NEW r, IsLast(rs, r), NEW s, IsLast(rs, s) PROVE r = s
    BY <1>1, OrderOfRecords DEF IsLast, Log
<1>2. ASSUME NEW r, IsLast(rs, r) PROVE LastPlace(rs) = r.place
  <2> DEFINE P(t) == \A s \in rs \ {t} : Before(s, t)
  <2>1. r \in rs /\ P(r) /\ \A t \in rs : P(t) => t = r
      BY <1>1, <1>2 DEF IsLast
  <2>2. (CHOOSE t \in rs : P(t)) = r
    <3> HIDE DEF P
    <3> QED BY <2>1
  <2> QED BY <2>1, <2>2 DEF LastPlace
<1> QED BY <1>2, LastRecord DEF LastPlace

\* The record after one that is not the last: the one it is the last before.
LEMMA NextRecord ==
    ASSUME NEW rs, Log(rs), NEW r \in rs, NEW later \in rs, Before(r, later)
    PROVE  \E n \in rs : /\ Before(r, n) /\ (n = later \/ Before(n, later))
                         /\ IsLast(Earlier(rs, n), r)
                         /\ LastPlace(Earlier(rs, n)) = r.place
<1> DEFINE After == {s \in rs : Before(r, s)}
<1>0. rs \subseteq Record
    BY DEF Log
<1>1. PICK n \in After : IsFirst(After, n)
    BY PartOfLog, FirstRecord
<1>2. n = later \/ Before(n, later)
    BY <1>1 DEF IsFirst
<1>3. IsLast(Earlier(rs, n), r)
  <2>1. r \in Earlier(rs, n)
      BY <1>1 DEF Earlier
  <2>2. ASSUME NEW s \in Earlier(rs, n), s # r PROVE Before(s, r)
    <3>1. s \in rs /\ Before(s, n) /\ s.place # r.place
        BY <2>2 DEF Earlier, Log
    <3>2. ASSUME Before(r, s) PROVE FALSE
      <4>1. n = s \/ Before(n, s)
          BY <1>1, <3>1, <3>2 DEF IsFirst
      <4> QED BY <1>0, <1>1, <3>1, <4>1, OrderOfRecords
    <3> QED BY <1>0, <3>1, <3>2, OrderOfRecords
  <2> QED BY <2>1, <2>2 DEF IsLast
<1>4. Log(Earlier(rs, n))
    BY PartOfLog DEF Earlier
<1> QED BY <1>1, <1>2, <1>3, <1>4, LastPlaceOfLog

-----------------------------------------------------------------------------
\* A place read from the log: none, or of a record that is in it.
RefersTo(rs, place) == place = NoPlace \/ \E s \in rs : s.place = place

\* Every record names one that was there before it...
RefersBack == \A r \in records : RefersTo(records, r.previous) /\ r.previous[1] < r.place[1]

\* ...and so will those that are being appended.
AppendsReferBack ==
    \A q \in Query :
        /\ Appending(q) => RefersTo(records, query[q].previous)
        /\ query[q].at = "insert" => query[q].previous[1] < query[q].seq

\* The inductive invariant, whichever appends run at once.
ChainIsSound ==
    /\ DecisionTypes
    /\ IsFiniteSet(records)
    /\ Log(records)
    /\ RefersBack
    /\ AppendsReferBack

\* Of a log whose records refer back, the first wrong one is a fork, or a second first record.
LEMMA SoundChainForks == ChainIsSound => ForkIsCalledAFork
<1> SUFFICES ASSUME ChainIsSound, Verdict(records) = "chain_broken"
             PROVE  Cardinality(ClaimToBeFirst) > 1
    BY DEF ForkIsCalledAFork
<1> DEFINE wrong == {r \in records : Forks(records, r) \/ Breaks(records, r)}
<1>0. Log(records) /\ records \subseteq Record
    BY DEF ChainIsSound, Log
<1>1. wrong # {}
    BY DEF Verdict
<1>2. PICK w \in wrong : IsFirst(wrong, w)
    BY <1>0, <1>1, PartOfLog, FirstRecord
<1>3. ~Forks(records, w)
  <2> DEFINE P(t) == \A s \in wrong \ {t} : Before(t, s)
  <2>1. \A t \in wrong : P(t) => t = w
      BY <1>0, <1>2, OrderOfRecords DEF IsFirst
  <2>2. P(w)
      BY <1>2 DEF IsFirst
  <2>3. (CHOOSE t \in wrong : P(t)) = w
    <3> HIDE DEF P, wrong
    <3> QED BY <2>1, <2>2, <1>2
  <2> QED BY <1>1, <2>3 DEF Verdict
<1>4. w \in records /\ w \in Record /\ w.previous # LastPlace(Earlier(records, w))
    BY <1>0, <1>2, <1>3 DEF Breaks
<1>5. \A s \in records : Before(s, w) => ~Forks(records, s) /\ ~Breaks(records, s)
    BY <1>0, <1>2, OrderOfRecords DEF IsFirst
<1>6. Log(Earlier(records, w))
    BY <1>0, PartOfLog DEF Earlier
<1> HIDE DEF wrong
<1>7. w.previous = NoPlace
  <2> SUFFICES ASSUME w.previous # NoPlace PROVE FALSE
      OBVIOUS
  <2>1. PICK s \in records : s.place = w.previous
      BY <1>4 DEF ChainIsSound, RefersBack, RefersTo
  <2>2. s \in Earlier(records, w)
    <3>1. s.place[1] < w.place[1]
        BY <1>4, <2>1 DEF ChainIsSound, RefersBack
    <3> QED BY <3>1 DEF Earlier, Before
  <2>3. PICK last \in Earlier(records, w) :
          IsLast(Earlier(records, w), last) /\ LastPlace(Earlier(records, w)) = last.place
      BY <1>6, <2>2, LastPlaceOfLog
  <2>4. Before(s, last) /\ last \in records /\ Before(last, w)
      BY <1>4, <2>1, <2>2, <2>3 DEF IsLast, Earlier
  <2>5. PICK n \in records : (n = last \/ Before(n, last)) /\ LastPlace(Earlier(records, n)) = s.place
      BY <1>0, <2>4, NextRecord
  <2>6. Before(n, w)
      BY <1>0, <1>4, <2>4, <2>5, OrderOfRecords
  <2>7. n.previous = w.previous
      BY <1>5, <2>1, <2>5, <2>6 DEF Breaks
  <2> QED BY <1>3, <2>6, <2>7 DEF Forks, Earlier
<1>8. PICK e \in records : e # w /\ e.previous = NoPlace
  <2>1. Earlier(records, w) # {}
      BY <1>4, <1>6, <1>7, LastPlaceOfLog
  <2>2. PICK e \in Earlier(records, w) : IsFirst(Earlier(records, w), e)
      BY <1>6, <2>1, FirstRecord
  <2>3. e \in records /\ Before(e, w)
      BY <2>2 DEF Earlier
  <2>4. Earlier(records, e) = {}
      BY <1>0, <1>4, <2>2, <2>3, OrderOfRecords DEF Earlier, IsFirst
  <2>5. e.previous = LastPlace({})
      BY <1>5, <2>3, <2>4 DEF Breaks
  <2> QED BY <1>0, <1>4, <2>3, <2>5, OrderOfRecords DEF LastPlace
<1>9. Cardinality({e, w}) = 2 /\ IsFiniteSet({e, w})
  <2>1. IsFiniteSet({w}) /\ Cardinality({w}) = 1
      BY FS_Singleton
  <2>2. e \notin {w} /\ {w} \cup {e} = {e, w}
      BY <1>8
  <2> QED BY <2>1, <2>2, FS_AddElement
<1>10. IsFiniteSet(ClaimToBeFirst) /\ {e, w} \subseteq ClaimToBeFirst
  <2>1. ClaimToBeFirst \subseteq records
      BY DEF ClaimToBeFirst
  <2>2. IsFiniteSet(ClaimToBeFirst)
      BY <2>1, FS_Subset DEF ChainIsSound
  <2> QED BY <1>4, <1>7, <1>8, <2>2 DEF ClaimToBeFirst
<1>11. Cardinality({e, w}) <= Cardinality(ClaimToBeFirst) /\ Cardinality(ClaimToBeFirst) \in Nat
    BY <1>10, FS_Subset, FS_CardinalityType
<1> QED BY <1>9, <1>11

\* The record after the gap does not follow the one before it.
LEMMA SoundChainShowsGaps == ChainIsSound => GapShows
<1> SUFFICES ASSUME ChainIsSound, Verdict(records) = "verified",
                    NEW r \in records, r.place # LastPlace(records)
             PROVE  Verdict(records \ {r}) # "verified"
    BY DEF GapShows
<1> DEFINE rest == records \ {r}
<1>0. Log(records) /\ records \subseteq Record
    BY DEF ChainIsSound, Log
<1>1. PICK last \in records : Before(r, last)
  <2>1. PICK last \in records : IsLast(records, last) /\ LastPlace(records) = last.place
      BY <1>0, LastPlaceOfLog
  <2> QED BY <2>1 DEF IsLast
<1>2. PICK n \in records : Before(r, n) /\ LastPlace(Earlier(records, n)) = r.place
    BY <1>0, <1>1, NextRecord
<1>3. n.previous = r.place
    BY <1>2, VerifiedMeansNoneWrong DEF Breaks
<1>4. n \in rest
    BY <1>0, <1>2, OrderOfRecords
<1>5. LastPlace(Earlier(rest, n)) # r.place
  <2>1. Log(Earlier(rest, n))
      BY <1>0, PartOfLog DEF Earlier
  <2>2. r.place # NoPlace
      BY <1>0, PlaceOfRecord
  <2>3. \A s \in Earlier(rest, n) : s.place # r.place
      BY <1>0 DEF Earlier, Log
  <2> QED BY <2>1, <2>2, <2>3, LastPlaceOfLog
<1> QED BY <1>3, <1>4, <1>5, VerifiedMeansNoneWrong DEF Breaks

-----------------------------------------------------------------------------

\* Nothing is in the chain at first.
LEMMA ChainStartsSound == DecisionInit => ChainIsSound
<1> SUFFICES ASSUME DecisionInit PROVE ChainIsSound
    OBVIOUS
<1>1. NoQuery \in QueryState
    BY DEF NoQuery, QueryState, Decision
<1>2. DecisionTypes
  <2>1. query \in [Query -> QueryState]
      BY <1>1 DEF DecisionInit
  <2>2. signings \in 0 .. MaxSignings
      BY DecisionConstants DEF DecisionInit
  <2> QED BY <2>1, <2>2 DEF DecisionInit, DecisionTypes
<1>3. IsFiniteSet(records)
    BY FS_EmptySet DEF DecisionInit
<1>4. Log(records)
    BY DEF DecisionInit, Log
<1>5. RefersBack /\ AppendsReferBack
    BY DEF DecisionInit, NoQuery, RefersBack, AppendsReferBack, Appending
<1> QED BY <1>2, <1>3, <1>4, <1>5 DEF ChainIsSound

\* A step of one query that appends nothing.
LEMMA QueryKeepsChain ==
    ASSUME ChainIsSound, NEW q \in Query, NEW fields \in QueryState, Moves(q, fields),
           UNCHANGED <<records, atOnce, signings>>, attestation' = attestation,
           fields.at \in {"number", "insert"} => RefersTo(records, fields.previous),
           fields.at = "insert" => fields.previous[1] < fields.seq
    PROVE  ChainIsSound'
<1>1. DecisionTypes'
    BY DEF ChainIsSound, DecisionTypes, Moves
<1>2. RefersBack' /\ IsFiniteSet(records') /\ Log(records')
    BY DEF ChainIsSound, RefersBack
<1>3. \A p \in Query : query'[p] = IF p = q THEN fields ELSE query[p]
    BY DEF ChainIsSound, DecisionTypes, Moves
<1>4. AppendsReferBack'
    BY <1>3 DEF ChainIsSound, AppendsReferBack, Appending
<1> QED BY <1>1, <1>2, <1>4 DEF ChainIsSound

\* What a query that appends nothing comes to be.
LEMMA QueryTypes ==
    ASSUME ChainIsSound, NEW q \in Query
    PROVE  /\ query[q] \in QueryState
           /\ \A shown \in {"nothing", "plain", "masked", "unmasked"}, covered \in BOOLEAN :
                 [NoQuery EXCEPT !.at = "done", !.shown = shown, !.covered = covered] \in QueryState
           /\ \A at \in {"run", "attested"} :
                 [query[q] EXCEPT !.at = at, !.previous = NoPlace, !.seq = 0, !.allowed = FALSE] \in QueryState
           /\ \A before \in QueryState, decision \in Decision :
                 [before EXCEPT !.at = "last", !.decision = decision] \in QueryState
<1>1. query[q] \in QueryState
    BY DEF ChainIsSound, DecisionTypes
<1>2. \A shown \in {"nothing", "plain", "masked", "unmasked"}, covered \in BOOLEAN :
        [NoQuery EXCEPT !.at = "done", !.shown = shown, !.covered = covered] \in QueryState
    BY DEF NoQuery, QueryState, Decision
<1>3. \A at \in {"run", "attested"} :
        [query[q] EXCEPT !.at = at, !.previous = NoPlace, !.seq = 0, !.allowed = FALSE] \in QueryState
    BY <1>1 DEF QueryState
<1>4. \A before \in QueryState, decision \in Decision :
        [before EXCEPT !.at = "last", !.decision = decision] \in QueryState
    BY DEF QueryState
<1> QED BY <1>1, <1>2, <1>3, <1>4

\* A query that shows something and ends appends nothing.
LEMMA FinishKeepsChain ==
    ASSUME ChainIsSound, NEW q \in Query, NEW shown \in {"nothing", "plain", "masked"}, Finish(q, shown),
           UNCHANGED <<records, atOnce, signings>>, attestation' = attestation
    PROVE  ChainIsSound'
<1> DEFINE fields == [NoQuery EXCEPT !.at = "done", !.shown = shown,
                                     !.covered = (shown = "unmasked" /\ query[q].covered)]
<1>1. fields \in QueryState
    BY QueryTypes
<1>2. fields.at = "done" /\ Moves(q, fields)
    BY DEF Finish, NoQuery
<1> QED BY <1>1, <1>2, QueryKeepsChain

\* A query about to append has read nothing of the log so far.
LEMMA AppendsKeepsChain ==
    ASSUME ChainIsSound, NEW q \in Query, NEW before \in QueryState, NEW decision \in Decision,
           Appends(q, before, decision), UNCHANGED <<records, atOnce, signings>>, attestation' = attestation
    PROVE  ChainIsSound'
<1> DEFINE fields == [before EXCEPT !.at = "last", !.decision = decision]
<1>1. fields \in QueryState
    BY QueryTypes
<1>2. fields.at = "last" /\ Moves(q, fields)
    BY DEF Appends, QueryState
<1> QED BY <1>1, <1>2, QueryKeepsChain

\* A place that is read is of a record, and the highest seq is past all that were read.
LEMMA LastPlaceRefers ==
    ASSUME ChainIsSound
    PROVE  /\ RefersTo(records, LastPlace(records))
           /\ LastPlace(records) \in Place \cup {NoPlace}
           /\ LastPlace(records)[1] \in Nat
           /\ \A place : RefersTo(records, place) => place[1] <= LastPlace(records)[1]
<1>0. Log(records) /\ records \subseteq Record
    BY DEF ChainIsSound, Log
<1>1. CASE records = {}
    BY <1>0, <1>1, LastPlaceOfLog DEF RefersTo, NoPlace
<1>2. CASE records # {}
  <2>1. PICK last \in records : IsLast(records, last) /\ LastPlace(records) = last.place
      BY <1>0, <1>2, LastPlaceOfLog
  <2>2. last.place \in Place
      BY <1>0 DEF Record
  <2>3. last.place[1] \in Nat
      BY <1>0, PlaceOfRecord
  <2>4. \A s \in records : s.place[1] \in Nat /\ s.place[1] <= last.place[1]
      BY <1>0, <2>1, PlaceOfRecord DEF IsLast, Before
  <2>5. \A place : RefersTo(records, place) => place[1] <= last.place[1]
      BY <2>3, <2>4 DEF RefersTo, NoPlace
  <2> QED BY <2>1, <2>2, <2>3, <2>5 DEF RefersTo
<1> QED BY <1>1, <1>2

\* What is read is the place of a record or none, and the next seq is above it.
LEMMA ReadsKeepChain ==
    ASSUME ChainIsSound, NEW q \in Query, ReadLast(q) \/ ReadSeq(q)
    PROVE  ChainIsSound'
<1>1. query[q] \in QueryState
    BY QueryTypes
<1>2. CASE ReadLast(q)
  <2> DEFINE fields == [query[q] EXCEPT !.at = "number", !.previous = LastPlace(records)]
  <2>1. fields \in QueryState
      BY <1>1, LastPlaceRefers DEF QueryState
  <2>2. fields.at = "number" /\ fields.previous = LastPlace(records) /\ Moves(q, fields)
      BY <1>1, <1>2 DEF ReadLast, QueryState
  <2> HIDE DEF fields
  <2> QED BY <1>2, <2>1, <2>2, LastPlaceRefers, QueryKeepsChain DEF ReadLast
<1>3. CASE ReadSeq(q)
  <2> DEFINE seq == HighestSeq(records) + 1
             fields == [query[q] EXCEPT !.at = "insert", !.seq = seq]
  <2>1. seq \in Seqs /\ seq = LastPlace(records)[1] + 1
      BY LastPlaceRefers DEF HighestSeq, Seqs
  <2>2. fields.at = "insert" /\ fields.previous = query[q].previous /\ fields.seq = seq /\ Moves(q, fields)
      BY <1>1, <1>3 DEF ReadSeq, QueryState
  <2>3. RefersTo(records, query[q].previous)
      BY <1>3 DEF ReadSeq, Appending, ChainIsSound, AppendsReferBack
  <2>4. query[q].previous[1] \in Nat
      BY <2>3, PlaceOfRecord DEF RefersTo, NoPlace, ChainIsSound, Log
  <2>5. query[q].previous[1] < seq
      BY <2>1, <2>3, <2>4, LastPlaceRefers
  <2> HIDE DEF seq
  <2>6. fields \in QueryState
      BY <1>1, <2>1 DEF QueryState
  <2> HIDE DEF fields
  <2> QED BY <1>3, <2>2, <2>3, <2>5, <2>6, QueryKeepsChain DEF ReadSeq
<1> QED BY <1>2, <1>3

\* A query that begins or has run goes to append.
LEMMA BeginKeepsChain ==
    ASSUME ChainIsSound, NEW q \in Query, Begin(q) \/ Run(q)
    PROVE  ChainIsSound'
<1>1. query[q] \in QueryState
    BY QueryTypes
<1>2. UNCHANGED <<records, atOnce, signings>> /\ attestation' = attestation
    BY DEF Begin, Run
<1>3. CASE Begin(q)
  <2>1. PICK allowed \in BOOLEAN, masks \in BOOLEAN :
          Appends(q, [query[q] EXCEPT !.allowed = allowed, !.masks = masks, !.covered = attestation = "covers"],
                  "execution")
      BY <1>3 DEF Begin
  <2>2. \A covered \in BOOLEAN :
          [query[q] EXCEPT !.allowed = allowed, !.masks = masks, !.covered = covered] \in QueryState
      BY <1>1 DEF QueryState
  <2>3. [query[q] EXCEPT !.allowed = allowed, !.masks = masks, !.covered = attestation = "covers"] \in QueryState
      BY <2>2
  <2> QED BY <1>2, <2>1, <2>3, AppendsKeepsChain DEF Decision
<1>4. CASE Run(q)
  <2>1. PICK allowed \in BOOLEAN, masks \in BOOLEAN :
          Appends(q, [query[q] EXCEPT !.allowed = allowed, !.masks = allowed /\ (@ \/ masks)], "release")
      BY <1>4 DEF Run
  <2>2. \A m \in BOOLEAN : [query[q] EXCEPT !.allowed = allowed, !.masks = m] \in QueryState
      BY <1>1 DEF QueryState
  <2>3. [query[q] EXCEPT !.allowed = allowed, !.masks = allowed /\ (@ \/ masks)] \in QueryState
      BY <2>2
  <2> QED BY <1>2, <2>1, <2>3, AppendsKeepsChain DEF Decision
<1> QED BY <1>3, <1>4

\* Asking for the attestation: as before.
LEMMA AttestationKeepsChain ==
    ASSUME ChainIsSound, NEW q \in Query, AskAttested(q) \/ ReadScope(q)
    PROVE  ChainIsSound'
<1>1. query[q] \in QueryState
    BY QueryTypes
<1>2. UNCHANGED <<records, atOnce, signings>> /\ attestation' = attestation
    BY DEF AskAttested, ReadScope
<1>3. ASSUME Moves(q, [query[q] EXCEPT !.at = "scope"]) PROVE ChainIsSound'
  <2>1. [query[q] EXCEPT !.at = "scope"] \in QueryState /\ [query[q] EXCEPT !.at = "scope"].at = "scope"
      BY <1>1 DEF QueryState
  <2> QED BY <1>2, <1>3, <2>1, QueryKeepsChain
<1> QED BY <1>1, <1>2, <1>3, FinishKeepsChain, AppendsKeepsChain DEF AskAttested, ReadScope, Decision

\* The new record names one that is in the log, below its own seq, or none.
LEMMA InsertKeepsChain ==
    ASSUME ChainIsSound, NEW q \in Query, Insert(q)
    PROVE  ChainIsSound'
<1>1. PICK rank \in FreeRanks(query[q].seq) :
        records' = records \cup {[place |-> <<query[q].seq, rank>>, previous |-> query[q].previous,
                                  by |-> q, decision |-> query[q].decision]}
    BY DEF Insert
<1> DEFINE new == [place |-> <<query[q].seq, rank>>, previous |-> query[q].previous,
                   by |-> q, decision |-> query[q].decision]
<1>2. query[q] \in QueryState /\ query[q].at = "insert"
    BY QueryTypes DEF Insert
<1>3. RefersTo(records, query[q].previous) /\ query[q].previous[1] < query[q].seq
    BY <1>2 DEF ChainIsSound, AppendsReferBack, Appending
<1>4. query[q].seq \in Seqs
  <2>1. query[q].previous[1] \in Nat
      BY <1>3, PlaceOfRecord DEF RefersTo, NoPlace, ChainIsSound, Log
  <2>2. query[q].seq \in {0} \cup Seqs
      BY <1>2 DEF QueryState
  <2> QED BY <1>3, <2>1, <2>2 DEF Seqs
<1>5. rank \in Ranks
  <2>1. Cardinality(Query) \in Nat /\ Cardinality(Query) >= 1
    <3>1. Cardinality(Query) \in Nat /\ Cardinality(Query) # 0
        BY DecisionConstants, FS_CardinalityType, FS_EmptySet
    <3> QED BY <3>1
  <2>2. Middle \in Ranks
      BY <2>1 DEF Ranks, Middle
  <2> QED BY <2>2 DEF FreeRanks
<1>6. new \in Record
    BY <1>2, <1>4, <1>5 DEF Record, Place, QueryState
<1>7. /\ new.place = <<query[q].seq, rank>> /\ new.place[1] = query[q].seq /\ new.previous = query[q].previous
      /\ records' = records \cup {new}
    BY <1>1
<1>8. \A r \in records : r.place # new.place
  <2> SUFFICES ASSUME NEW r \in records, r.place = new.place PROVE FALSE
      OBVIOUS
  <2>1. r.place[1] = query[q].seq /\ r.place[2] = rank
      BY <1>7
  <2> QED BY <2>1 DEF FreeRanks
<1> HIDE DEF new
<1>9. Log(records')
  <2>1. PICK highest \in Nat : \A r \in records : r.place[1] <= highest
      BY DEF ChainIsSound, Log
  <2>2. \A r \in records' : r.place[1] <= highest + query[q].seq
    <3>1. query[q].seq \in Nat
        BY <1>4 DEF Seqs
    <3>2. \A r \in records : r.place[1] \in Nat
        BY PlaceOfRecord DEF ChainIsSound, Log
    <3> QED BY <1>7, <2>1, <3>1, <3>2
  <2>3. highest + query[q].seq \in Nat
      BY <1>4 DEF Seqs
  <2>4. records' \subseteq Record /\ \A r, s \in records' : r.place = s.place => r = s
      BY <1>6, <1>7, <1>8 DEF ChainIsSound, Log
  <2> QED BY <2>2, <2>3, <2>4 DEF Log
<1>10. IsFiniteSet(records')
    BY <1>7, FS_AddElement DEF ChainIsSound
<1>11. \A place : RefersTo(records, place) => RefersTo(records', place)
    BY <1>7 DEF RefersTo
<1>12. RefersBack'
    BY <1>3, <1>7, <1>11 DEF ChainIsSound, RefersBack
<1>13. PICK fields \in QueryState : fields.at \notin {"number", "insert"} /\ Moves(q, fields)
  <2>1. ASSUME NEW shown \in {"nothing", "plain", "unmasked"}, Finish(q, shown)
        PROVE  \E fields \in QueryState : fields.at \notin {"number", "insert"} /\ Moves(q, fields)
    <3> DEFINE fields == [NoQuery EXCEPT !.at = "done", !.shown = shown,
                                         !.covered = (shown = "unmasked" /\ query[q].covered)]
    <3>1. (shown = "unmasked" /\ query[q].covered) \in BOOLEAN
        OBVIOUS
    <3>2. fields \in QueryState /\ fields.at = "done"
        BY <3>1, QueryTypes DEF NoQuery
    <3> QED BY <2>1, <3>2 DEF Finish
  <2>2. ASSUME NEW at \in {"run", "attested"}, GoOn(q, at)
        PROVE  \E fields \in QueryState : fields.at \notin {"number", "insert"} /\ Moves(q, fields)
    <3> DEFINE fields == [query[q] EXCEPT !.at = at, !.previous = NoPlace, !.seq = 0, !.allowed = FALSE]
    <3>1. fields \in QueryState
        BY QueryTypes
    <3>2. fields.at = at
        BY <1>2 DEF QueryState
    <3> QED BY <2>2, <3>1, <3>2 DEF GoOn
  <2>3. query[q].decision \in {"execution", "release", "unmasked"}
      BY <1>2 DEF QueryState, Decision
  <2>4. Decided(q)
      BY DEF Insert
  <2>5. \/ Finish(q, "unmasked") \/ Finish(q, "nothing") \/ Finish(q, "plain")
        \/ GoOn(q, "run") \/ GoOn(q, "attested")
      BY <2>3, <2>4 DEF Decided
  <2> QED BY <2>1, <2>2, <2>5
<1>14. \A p \in Query : query'[p] = IF p = q THEN fields ELSE query[p]
    BY <1>13 DEF ChainIsSound, DecisionTypes, Moves
<1>15. AppendsReferBack'
    BY <1>11, <1>13, <1>14 DEF ChainIsSound, AppendsReferBack, Appending
<1>16. DecisionTypes'
  <2>1. records' \subseteq Record
      BY <1>9 DEF Log
  <2>2. query' \in [Query -> QueryState]
      BY <1>13 DEF Moves, ChainIsSound, DecisionTypes
  <2>3. atOnce' \in BOOLEAN /\ UNCHANGED <<attestation, signings>>
      BY DEF Insert
  <2> QED BY <2>1, <2>2, <2>3 DEF ChainIsSound, DecisionTypes
<1> QED BY <1>9, <1>10, <1>12, <1>15, <1>16 DEF ChainIsSound

\* Signing changes what covers a query, not the log.
LEMMA SignKeepsChain == ChainIsSound /\ Sign => ChainIsSound'
<1> SUFFICES ASSUME ChainIsSound, Sign PROVE ChainIsSound'
    OBVIOUS
<1>1. PICK valid \in {"none", "covers", "others"} :
        /\ attestation' = valid
        /\ query' = [q \in Query |->
              [query[q] EXCEPT !.covered = @ \/ (valid = "covers" /\ query[q].at \notin {"new", "done"})]]
    BY DEF Sign
<1>2. UNCHANGED <<records, atOnce>> /\ signings < MaxSignings /\ signings' = signings + 1
    BY DEF Sign
<1>3. ASSUME NEW q \in Query
      PROVE  /\ query'[q] \in QueryState
             /\ query'[q].at = query[q].at /\ query'[q].previous = query[q].previous /\ query'[q].seq = query[q].seq
  <2>1. query[q] \in QueryState
      BY QueryTypes
  <2>2. \A covered \in BOOLEAN : [query[q] EXCEPT !.covered = covered] \in QueryState
      BY <2>1 DEF QueryState
  <2>3. query'[q] = [query[q] EXCEPT !.covered = @ \/ (valid = "covers" /\ query[q].at \notin {"new", "done"})]
      BY <1>1
  <2>4. query'[q] \in QueryState
      BY <2>2, <2>3
  <2> QED BY <2>1, <2>3, <2>4 DEF QueryState
<1>4. query' \in [Query -> QueryState]
    BY <1>1, <1>3
<1>5. DecisionTypes'
    BY <1>1, <1>2, <1>4, DecisionConstants DEF ChainIsSound, DecisionTypes
<1>6. RefersBack' /\ AppendsReferBack' /\ Log(records') /\ IsFiniteSet(records')
    BY <1>2, <1>3 DEF ChainIsSound, RefersBack, AppendsReferBack, Appending
<1> QED BY <1>5, <1>6 DEF ChainIsSound

\* Every step keeps the chain sound.
LEMMA DecisionKeepsChain == ChainIsSound /\ [DecisionNext]_decisionVars => ChainIsSound'
<1> SUFFICES ASSUME ChainIsSound, [DecisionNext]_decisionVars PROVE ChainIsSound'
    OBVIOUS
<1>1. ASSUME NEW q \in Query, InsertFails(q) PROVE ChainIsSound'
    BY <1>1, FinishKeepsChain DEF InsertFails
<1>2. CASE UNCHANGED decisionVars
    BY <1>2 DEF decisionVars, ChainIsSound, DecisionTypes, RefersBack, AppendsReferBack, Appending
<1> QED BY <1>1, <1>2, BeginKeepsChain, ReadsKeepChain, InsertKeepsChain, AttestationKeepsChain,
           SignKeepsChain DEF DecisionNext, QueryStep

-----------------------------------------------------------------------------
\* What the proof pack says of the log is so, however the appends interleave: it verifies when
\* they came one after another, a fork is not taken for an edit, and a record that is gone
\* shows (core/compliance/proof_pack.py:371-454).
THEOREM VerdictStaysSound == DecisionSpec => []VerdictIsSound
<1>1. LogIsSound => ForksNeedTwoAtOnce
    BY DEF LogIsSound, ForksNeedTwoAtOnce
<1>2. LogIsSound /\ ChainIsSound => VerdictIsSound
    BY <1>1, SoundChainForks, SoundChainShowsGaps DEF VerdictIsSound
<1>3. DecisionInit => ShownIsSound /\ LogIsSound /\ ChainIsSound
    BY ShownStartsSound, LogStartsSound, ChainStartsSound
<1>4. ShownIsSound /\ LogIsSound /\ ChainIsSound /\ [DecisionNext]_decisionVars =>
          (ShownIsSound /\ LogIsSound /\ ChainIsSound)'
    BY DecisionKeepsShown, DecisionKeepsLog, DecisionKeepsChain
<1> QED BY <1>2, <1>3, <1>4, PTL DEF DecisionSpec
=============================================================================
