------------------------------ MODULE MCServer ------------------------------
(***************************************************************************)
(* The parts of the server that share no table and call none of each        *)
(* other's code, checked in one run: `moving` says which of them goes on,   *)
(* and the others stand still.  What one of them does is then what it does  *)
(* alone, so nothing is lost by letting one move at a time.                 *)
(***************************************************************************)
EXTENDS DecisionLog, MetricCopies, TileAlerts, UserTurns, DashboardFollows, ReaderRequests,
        SignIn, KeptModel, AnswersCheck, TLC

CONSTANTS q1, q2, s1, s2, h1, t1, t2, t3, t4, m1, m2, m3, u1, u2, r1, r2, f1, f2, w1, w2, x1, x2, d1, d2

VARIABLE moving   \* the part that goes on

\* Two deliveries of one message, another message of the same user, and one of another user.
MCMessageOf == t1 :> m1 @@ t2 :> m1 @@ t3 :> m2 @@ t4 :> m3
MCUserOf == t1 :> u1 @@ t2 :> u1 @@ t3 :> u1 @@ t4 :> u2

\* Two requests for one of the fields, which one of them reaches last.
MCWritesOf == r1 :> <<f1, f2>> @@ r2 :> <<f2>>

Init ==
    /\ moving \in {"decisions", "copies", "alerts", "turns", "follows", "requests", "logins", "model", "answers"}
    /\ DecisionInit /\ (moving # "decisions" => attestation = "none")
    /\ CopyInit /\ AlertInit /\ TurnInit /\ FollowInit /\ RequestInit /\ SignInInit
    /\ ModelInit /\ current.decided = d1
    /\ AnswersInit /\ model.digest = d1
    /\ questions \in IF moving = "answers" THEN {{x1}, {x1, x2}} ELSE {{}}

\* Only `part` moves.
Alone(part) ==
    /\ moving = part /\ UNCHANGED moving
    /\ part # "decisions" => UNCHANGED decisionVars
    /\ part # "copies" => UNCHANGED copyVars
    /\ part # "alerts" => UNCHANGED alertVars
    /\ part # "turns" => UNCHANGED turnVars
    /\ part # "follows" => UNCHANGED followVars
    /\ part # "requests" => UNCHANGED requestVars
    /\ part # "logins" => UNCHANGED signInVars
    /\ part # "model" => UNCHANGED modelVars
    /\ part # "answers" => UNCHANGED answersVars

Next ==
    \/ Alone("decisions") /\ DecisionNext
    \/ Alone("copies") /\ CopyNext
    \/ Alone("alerts") /\ AlertNext
    \/ Alone("turns") /\ TurnNext
    \/ Alone("follows") /\ FollowNext
    \/ Alone("requests") /\ RequestNext
    \/ Alone("logins") /\ SignInNext
    \/ Alone("model") /\ ModelNext
    \/ Alone("answers") /\ AnswersNext

vars == <<moving, decisionVars, copyVars, alertVars, turnVars, followVars, requestVars,
          signInVars, modelVars, answersVars>>

\* CopyFairness, TurnFairness and AnswersFairness, of the parts while they are the one that moves.
Fairness ==
    /\ WF_copyVars(moving = "copies" /\ \E m \in Making : MakerStep(m))
    /\ WF_copyVars(moving = "copies" /\ TimePasses)
    /\ WF_copyVars(moving = "copies" /\ RunDue)
    /\ WF_turnVars(moving = "turns" /\ \E t \in Turn : GoesOn(t))
    /\ \A w \in Worker : WF_answersVars(moving = "answers" /\ RunGoesOn(w))
    /\ WF_answersVars(moving = "answers" /\ \E w \in Worker : Due(w))
    /\ WF_answersVars(moving = "answers" /\ Settles)
    /\ WF_answersVars(moving = "answers" /\ LostRunGrowsOld)
    /\ WF_answersVars(moving = "answers" /\ EndLearn)

Spec == Init /\ [][Next]_vars /\ Fairness

\* The parts keep their types, and: two makings of a copy overlap only after a takeover
\* or a late failure (core2/copies.py:96), a due check of an alert is claimed once (store/tile_alert_store.py:179),
\* no retry of a message is taken in meanwhile (core/webhook_dedup.py:7), an email is of a
\* notice (core/dashboard_follow.py:75), a request is applied by one and nothing of a refused one
\* is in force (core2/request_service.py:136), nobody waits longer than MAX_WAIT to sign in.
ServerSound ==
    /\ DecisionTypes /\ CopyTypes /\ AlertTypes /\ TurnTypes /\ FollowTypes /\ RequestTypes
    /\ SignInTypes /\ ModelTypes /\ AnswersTypes
    /\ OneMaking
    /\ OneCheckPerDue
    /\ NoRetryMeanwhile
    /\ EmailsAreOfNotices
    /\ AppliedByOne /\ NothingOfTheRefused
    /\ NeverShutOutForLong
=============================================================================
