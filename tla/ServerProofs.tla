---------------------------- MODULE ServerProofs ----------------------------
(***************************************************************************)
(* The parts of the server together: each keeps its inductive invariant     *)
(* while any of them moves, and the invariants together are what ServerSound*)
(* says.                                                                    *)
(***************************************************************************)
EXTENDS MCServer, AccessProofs, DeliveryProofs, ReaderRequestsProofs

PartsAreSound ==
    /\ ChainIsSound
    /\ CopyIsSound
    /\ AlertsAreSound
    /\ TurnsAreSound
    /\ FollowsAreSound
    /\ RequestsAreSound
    /\ ThrottleIsSound
    /\ ModelIsSound
    /\ AnswersAreSound

\* The server starts with every part at its start.
LEMMA PartsStart ==
    Init => /\ DecisionInit /\ CopyInit /\ AlertInit /\ TurnInit /\ FollowInit
            /\ RequestInit /\ SignInInit /\ ModelInit /\ AnswersInit
<1> QED BY DEF Init

\* A step of the server is, to each part, a step of its own or none.
LEMMA PartsMove ==
    ASSUME [Next]_vars
    PROVE  /\ [DecisionNext]_decisionVars /\ [CopyNext]_copyVars /\ [AlertNext]_alertVars
           /\ [TurnNext]_turnVars /\ [FollowNext]_followVars /\ [RequestNext]_requestVars
           /\ [SignInNext]_signInVars /\ [ModelNext]_modelVars /\ [AnswersNext]_answersVars
<1>1. CASE Alone("decisions") /\ DecisionNext
    BY <1>1, Zenon DEF Alone
<1>2. CASE Alone("copies") /\ CopyNext
    BY <1>2, Zenon DEF Alone
<1>3. CASE Alone("alerts") /\ AlertNext
    BY <1>3, Zenon DEF Alone
<1>4. CASE Alone("turns") /\ TurnNext
    BY <1>4, Zenon DEF Alone
<1>5. CASE Alone("follows") /\ FollowNext
    BY <1>5, Zenon DEF Alone
<1>6. CASE Alone("requests") /\ RequestNext
    BY <1>6, Zenon DEF Alone
<1>7. CASE Alone("logins") /\ SignInNext
    BY <1>7, Zenon DEF Alone
<1>8. CASE Alone("model") /\ ModelNext
    BY <1>8, Zenon DEF Alone
<1>9. CASE Alone("answers") /\ AnswersNext
    BY <1>9, Zenon DEF Alone
<1>10. CASE UNCHANGED vars
    BY <1>10 DEF vars
<1> QED BY <1>1, <1>2, <1>3, <1>4, <1>5, <1>6, <1>7, <1>8, <1>9, <1>10 DEF Next

\* What the invariants of the parts come to.
LEMMA SoundPartsSuffice == PartsAreSound => ServerSound
<1> SUFFICES ASSUME PartsAreSound PROVE ServerSound
    OBVIOUS
<1>1. DecisionTypes
    BY DEF PartsAreSound, ChainIsSound
<1>2. CopyTypes /\ OneMaking
    BY SoundCopyIsOneMaking DEF PartsAreSound, CopyIsSound
<1>3. AlertTypes /\ OneCheckPerDue
    BY DEF PartsAreSound, AlertsAreSound
<1>4. TurnTypes /\ NoRetryMeanwhile
    BY DEF PartsAreSound, TurnsAreSound, TurnsTyped, InLine, TurnTypes
<1>5. FollowTypes /\ EmailsAreOfNotices
    BY DEF PartsAreSound, FollowsAreSound
<1>6. RequestTypes /\ AppliedByOne /\ NothingOfTheRefused
    BY RequestsSoundIsEnough DEF PartsAreSound
<1>7. SignInTypes /\ NeverShutOutForLong
    BY DEF PartsAreSound, ThrottleIsSound
<1>8. ModelTypes /\ AnswersTypes
    BY DEF PartsAreSound, ModelIsSound, AnswersAreSound
<1> QED BY <1>1, <1>2, <1>3, <1>4, <1>5, <1>6, <1>7, <1>8 DEF ServerSound

\* However many processes, requests, logins, deliveries and questions there are.
THEOREM PartsStaySound == Spec => []PartsAreSound
<1>1. Init => PartsAreSound
  <2> SUFFICES ASSUME Init PROVE PartsAreSound
      OBVIOUS
  <2> QED BY PartsStart, ChainStartsSound, CopyStartsSound, AlertsStartSound, TurnsStartSound, FollowsStartSound,
             RequestsBegin, ThrottleStartsSound, ModelStartsSound, AnswersStartSound DEF PartsAreSound
<1>2. PartsAreSound /\ [Next]_vars => PartsAreSound'
  <2> SUFFICES ASSUME PartsAreSound, [Next]_vars PROVE PartsAreSound'
      OBVIOUS
  <2>1. ChainIsSound' /\ CopyIsSound' /\ AlertsAreSound'
      BY PartsMove, DecisionKeepsChain, CopyKeepsSound, AlertsKeepSound DEF PartsAreSound
  <2>2. TurnsAreSound' /\ FollowsAreSound' /\ RequestsAreSound'
      BY PartsMove, TurnsKeepSound, FollowsKeepSound, RequestsGoOn DEF PartsAreSound
  <2>3. ThrottleIsSound' /\ ModelIsSound' /\ AnswersAreSound'
      BY PartsMove, ThrottleKeepsSound, ModelKeepsSound, AnswersKeepSound DEF PartsAreSound
  <2> QED BY <2>1, <2>2, <2>3 DEF PartsAreSound
<1> QED BY <1>1, <1>2, PTL DEF Spec

\* Every part keeps its types and what ServerSound names of it, whichever of them moves: two
\* makings of a copy (core2/copies.py:96), two checks of an alert (store/tile_alert_store.py:179),
\* two deliveries of a message (core/webhook_dedup.py:7), two admins at a request
\* (core2/request_service.py:136), however many there are of each.
THEOREM ServerStaysSound == Spec => []ServerSound
<1> QED BY PartsStaySound, SoundPartsSuffice, PTL

\* What the server does is, of each part, what the part by itself may do: whatever is proved of
\* a part by itself holds of it here.  (Of CopySpec, TurnSpec and AnswersSpec the part without
\* fairness.)
THEOREM ServerRunsItsParts ==
    Spec => /\ DecisionSpec /\ AlertSpec /\ FollowSpec /\ RequestSpec /\ SignInSpec /\ ModelSpec
            /\ CopyInit /\ [][CopyNext]_copyVars
            /\ TurnInit /\ [][TurnNext]_turnVars
            /\ AnswersInit /\ [][AnswersNext]_answersVars
<1> QED BY PartsStart, PartsMove, PTL
        DEF Spec, DecisionSpec, AlertSpec, FollowSpec, RequestSpec, SignInSpec, ModelSpec

\* So in the server, too, the verdict on the log is so, what is kept ready is there and as of now,
\* people are told once, turns come one by one, requests are undone and guesses are spaced.
THEOREM ServerKeepsItsPromises ==
    Spec => [](/\ VerdictIsSound /\ UnmaskedIsLogged
               /\ NothingStays /\ ReadyHasItsFile /\ StillReadable
               /\ FiresOnce /\ BellIsTrue /\ OneTurnAtATime /\ OneNoticePerPeriod /\ NoUpdateLost
               /\ CanBeUndone /\ UndoneGoesBack /\ GuessesAreSpaced /\ FewMistakesAreFree
               /\ AnsweredAsOfNow /\ NothingDueIsChecked)
<1>1. PartsAreSound => NothingStays /\ ReadyHasItsFile /\ StillReadable /\ NothingDueIsChecked
    BY SoundCopyLeavesNothing, SoundCopyHasItsFile, SoundCopyIsReadable, SoundAnswersAreChecked DEF PartsAreSound
<1>2. PartsAreSound => OneTurnAtATime
    BY DEF PartsAreSound, TurnsAreSound
<1>3. Spec => [](VerdictIsSound /\ UnmaskedIsLogged /\ AnsweredAsOfNow)
    BY ServerRunsItsParts, VerdictStaysSound, UnmaskedStaysLogged, ModelAnswersAsOfNow, PTL
<1>4. Spec => [](FiresOnce /\ BellIsTrue /\ OneNoticePerPeriod /\ NoUpdateLost)
    BY ServerRunsItsParts, AlertsFireOnce, AlertsShowWhatWasTold, FollowsTellOnce, FollowsLoseNothing, PTL
<1>5. Spec => [](CanBeUndone /\ UndoneGoesBack /\ GuessesAreSpaced /\ FewMistakesAreFree)
    BY ServerRunsItsParts, RequestsCanBeUndone, RequestsUndoneGoBack, GuessesStaySpaced, FewMistakesStayFree, PTL
<1> QED BY <1>1, <1>2, <1>3, <1>4, <1>5, PartsStaySound, PTL
=============================================================================
