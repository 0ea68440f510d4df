--------------------------- MODULE DeliveryProofs ----------------------------
(***************************************************************************)
(* Proofs about what the server tells people: the alerts on tiles, the      *)
(* follows of dashboards and the turns of chat messages, each for any       *)
(* number of processes, and every length of time.                           *)
(***************************************************************************)
EXTENDS TileAlerts, DashboardFollows, UserTurns, FiniteSetTheorems, TLAPS

-----------------------------------------------------------------------------
(***************************************************************************)
(* An alert on a tile, for any number of schedulers and of checks at once, *)
(* every interval and length of time.                                      *)
(*                                                                         *)
(* AlertsAreSound is the inductive invariant.  Moments that were claimed   *)
(* lie before next_check_at until the alert is resumed.  As long as no two *)
(* checks ran at once and none was cut off after it told, one check alone  *)
(* stands between the state it read and the state it writes.               *)
(***************************************************************************)

DueListed == \A c \in Checker : check[c].at = "due" => check[c].listed <= check[c].now

ClaimedLieBehind ==
    alert.kept /\ ~marked.resumed => \A p \in marked.claimed : p < alert.next

Calm == alert.kept /\ ~marked.excused

OneAtATime == ~marked.excused => \A c, d \in Checker : Checking(c) /\ Checking(d) => c = d

TellsNews ==
    Calm => \A c \in Checker : check[c].at = "tell" => (check[c].crossed <=> state # "firing")

PutsWhatWasTold ==
    Calm => \A c \in Checker : check[c].at = "put" => (check[c].was = "firing" <=> told = "fired")

AlertsAreSound ==
    /\ AlertTypes
    /\ DueListed
    /\ ClaimedLieBehind
    /\ OneCheckPerDue
    /\ OneAtATime
    /\ TellsNews
    /\ PutsWhatWasTold
    /\ FiresOnce
    /\ BellIsTrue

-----------------------------------------------------------------------------
OthersCheckOn(c) ==
    \A d \in Checker \ {c} : check'[d] = check[d] /\ Checking(d)' = Checking(d)

\* A step of one checker leaves the others where they are.
LEMMA Going ==
    ASSUME AlertTypes, NEW c \in Checker, NEW fields \in CheckState, Goes(c, fields)
    PROVE  /\ check' \in [Checker -> CheckState]
           /\ check'[c] = fields
           /\ OthersCheckOn(c)
<1>1. check'[c] = fields /\ \A d \in Checker \ {c} : check'[d] = check[d]
    BY DEF AlertTypes, Goes
<1>2. check' \in [Checker -> CheckState]
    BY DEF AlertTypes, Goes
<1> QED BY <1>1, <1>2 DEF OthersCheckOn, Checking

\* The two places where a checker rests.
LEMMA RestingTypes ==
    /\ Idle \in CheckState /\ Idle.at = "idle"
    /\ Done \in CheckState /\ Done.at = "done"
    /\ \A at \in {"draw", "put"}, was \in {"ok", "firing"} :
          /\ [Idle EXCEPT !.at = at] \in CheckState /\ [Idle EXCEPT !.at = at].at = at
          /\ [Idle EXCEPT !.at = "put", !.was = was] \in CheckState
          /\ [Idle EXCEPT !.at = "put", !.was = was].at = "put"
          /\ [Idle EXCEPT !.at = "put", !.was = was].was = was
<1>1. Idle \in CheckState /\ Idle.at = "idle"
    BY AlertConstants DEF Idle, CheckState, DueAt, Moment
<1> QED BY <1>1 DEF Done, CheckState

\* A checker that is over checks nothing.
LEMMA GoingOver ==
    ASSUME AlertTypes, NEW c \in Checker, Over(c)
    PROVE  /\ check' \in [Checker -> CheckState] /\ OthersCheckOn(c)
           /\ check'[c].at \in {"idle", "done"} /\ ~Checking(c)'
<1>1. PICK fields \in {Idle, Done} : Goes(c, fields)
    BY DEF Over
<1>2. fields \in CheckState /\ fields.at \in {"idle", "done"}
    BY RestingTypes
<1>3. check' \in [Checker -> CheckState] /\ OthersCheckOn(c) /\ check'[c] = fields
    BY <1>1, <1>2, Going
<1> QED BY <1>2, <1>3 DEF Checking

\* A check that ends without writing, having told nothing that is not written; or that never began.
LEMMA LeavesKeep ==
    ASSUME AlertsAreSound, NEW c \in Checker, Over(c), AlertTypes',
           alert'.kept = alert.kept, alert'.next = alert.next, UNCHANGED <<state, told>>,
           marked'.claimed = marked.claimed, marked'.resumed = marked.resumed,
           marked'.twice = marked.twice, marked'.again = marked.again,
           marked.excused => marked'.excused,
           check[c].at = "put" /\ check[c].was # state => marked'.excused
    PROVE  AlertsAreSound'
<1>1. OthersCheckOn(c) /\ check'[c].at \in {"idle", "done"} /\ ~Checking(c)'
    BY GoingOver DEF AlertsAreSound
<1>2. DueListed'
    BY <1>1 DEF AlertsAreSound, DueListed, OthersCheckOn
<1>3. ClaimedLieBehind' /\ OneCheckPerDue' /\ FiresOnce'
    BY DEF AlertsAreSound, ClaimedLieBehind, OneCheckPerDue, FiresOnce
<1>4. OneAtATime'
    BY <1>1 DEF AlertsAreSound, OneAtATime, OthersCheckOn
<1>5. TellsNews' /\ PutsWhatWasTold'
    BY <1>1 DEF AlertsAreSound, TellsNews, PutsWhatWasTold, Calm, OthersCheckOn
<1>6. BellIsTrue'
  <2> SUFFICES ASSUME Calm, ~marked'.excused, \A d \in Checker : check'[d].at # "put"
               PROVE  state = "firing" <=> told = "fired"
      BY DEF BellIsTrue, Calm
  <2>1. \A d \in Checker \ {c} : check[d].at # "put"
      BY <1>1 DEF OthersCheckOn
  <2>2. CASE check[c].at = "put"
      BY <2>2 DEF AlertsAreSound, PutsWhatWasTold
  <2>3. CASE check[c].at # "put"
      BY <2>1, <2>3 DEF AlertsAreSound, BellIsTrue, Calm
  <2> QED BY <2>2, <2>3
<1> QED BY <1>2, <1>3, <1>4, <1>5, <1>6 DEF AlertsAreSound

\* A check that begins is the only one, or marks that it is not.
LEMMA BeginsKeep ==
    ASSUME AlertsAreSound, NEW c \in Checker, Goes(c, [Idle EXCEPT !.at = "draw"]), ~Checking(c),
           AlertTypes', DueListed', ClaimedLieBehind', OneCheckPerDue',
           alert'.kept = alert.kept, UNCHANGED <<state, told>>, marked'.again = marked.again,
           marked'.excused = (marked.excused \/ \E d \in Checker \ {c} : Checking(d))
    PROVE  AlertsAreSound'
<1>1. OthersCheckOn(c) /\ check'[c].at = "draw"
    BY RestingTypes, Going DEF AlertsAreSound
<1>2. OneAtATime'
    BY <1>1 DEF AlertsAreSound, OneAtATime, OthersCheckOn
<1>3. TellsNews' /\ PutsWhatWasTold'
    BY <1>1 DEF AlertsAreSound, TellsNews, PutsWhatWasTold, Calm, OthersCheckOn
<1>4. FiresOnce'
    BY DEF AlertsAreSound, FiresOnce
<1>5. \A d \in Checker : check'[d].at # "put" => check[d].at # "put"
    BY <1>1 DEF OthersCheckOn, Checking
<1>6. BellIsTrue'
    BY <1>5 DEF AlertsAreSound, BellIsTrue
<1> QED BY <1>2, <1>3, <1>4, <1>6 DEF AlertsAreSound

-----------------------------------------------------------------------------
\* Listing an alert that is due.
LEMMA ListDueKeeps ==
    ASSUME AlertsAreSound, NEW c \in Checker, ListDue(c)
    PROVE  AlertsAreSound'
<1> DEFINE fields == [Idle EXCEPT !.at = "due", !.listed = alert.next, !.now = clock]
<1>1. /\ AlertTypes /\ check[c].at = "idle" /\ alert.next <= clock /\ Goes(c, fields)
      /\ alert' = alert /\ state' = state /\ clock' = clock /\ told' = told /\ marked' = marked
    BY DEF AlertsAreSound, ListDue
<1>2. /\ fields \in CheckState /\ fields.at = "due" /\ fields.listed = alert.next /\ fields.now = clock
    BY <1>1, RestingTypes DEF AlertTypes, AlertRow, CheckState
<1> HIDE DEF fields
<1>3. check' \in [Checker -> CheckState] /\ check'[c] = fields /\ OthersCheckOn(c)
    BY <1>1, <1>2, Going
<1>4. ~Checking(c) /\ ~Checking(c)' /\ check'[c].at = "due"
    BY <1>1, <1>2, <1>3 DEF Checking
<1>5. AlertTypes'
    BY <1>1, <1>3 DEF AlertTypes
<1>6. DueListed'
    BY <1>1, <1>2, <1>3 DEF AlertsAreSound, DueListed, OthersCheckOn
<1>7. ClaimedLieBehind' /\ OneCheckPerDue' /\ FiresOnce'
    BY <1>1 DEF AlertsAreSound, ClaimedLieBehind, OneCheckPerDue, FiresOnce
<1>8. OneAtATime'
    BY <1>1, <1>3, <1>4 DEF AlertsAreSound, OneAtATime, OthersCheckOn
<1>9. TellsNews' /\ PutsWhatWasTold'
    BY <1>1, <1>3, <1>4 DEF AlertsAreSound, TellsNews, PutsWhatWasTold, Calm, OthersCheckOn
<1>10. BellIsTrue'
  <2>1. \A d \in Checker : check'[d].at # "put" => check[d].at # "put"
      BY <1>1, <1>3 DEF OthersCheckOn
  <2> QED BY <1>1, <2>1 DEF AlertsAreSound, BellIsTrue
<1> QED BY <1>5, <1>6, <1>7, <1>8, <1>9, <1>10 DEF AlertsAreSound

\* A claim moves next_check_at past the moment it claims, and so past those claimed before.
LEMMA ClaimCheckKeeps ==
    ASSUME AlertsAreSound, NEW c \in Checker, ClaimCheck(c)
    PROVE  AlertsAreSound'
<1>1. /\ AlertTypes /\ check[c].at = "due" /\ check[c] \in CheckState /\ ~Checking(c)
      /\ state' = state /\ clock' = clock /\ told' = told
    BY DEF AlertsAreSound, AlertTypes, ClaimCheck, Checking
<1>2. CASE ~(alert.kept /\ alert.next = check[c].listed)
  <2>1. Over(c) /\ alert' = alert /\ marked' = marked
      BY <1>2 DEF ClaimCheck
  <2>2. AlertTypes'
      BY <1>1, <2>1, GoingOver DEF AlertTypes
  <2> QED BY <1>1, <2>1, <2>2, LeavesKeep
<1>3. CASE alert.kept /\ alert.next = check[c].listed
  <2>1. /\ alert' = [alert EXCEPT !.next = check[c].now + Every]
        /\ Goes(c, [Idle EXCEPT !.at = "draw"])
        /\ marked' = [Together(c) EXCEPT
              !.claimed = @ \cup {check[c].listed},
              !.twice = @ \/ (check[c].listed \in marked.claimed /\ ~marked.resumed)]
      BY <1>3 DEF ClaimCheck
  <2>2. /\ check[c].listed \in DueAt /\ check[c].now \in Moment /\ check[c].listed <= check[c].now
        /\ DueAt \subseteq Nat /\ Every \in Nat /\ Every > 0
        /\ check[c].listed \in Nat /\ check[c].now \in Nat /\ check[c].now + Every \in DueAt
    <3>1. check[c].listed \in DueAt /\ check[c].now \in Moment
        BY <1>1 DEF CheckState
    <3>2. check[c].listed <= check[c].now
        BY <1>1 DEF AlertsAreSound, DueListed
    <3> QED BY <3>1, <3>2, AlertConstants DEF DueAt, Moment
  <2>3. /\ alert' \in AlertRow /\ alert'.kept = alert.kept /\ alert'.next = check[c].now + Every
      BY <1>1, <2>1, <2>2 DEF AlertTypes, AlertRow
  <2>4. /\ marked'.claimed = marked.claimed \cup {check[c].listed}
        /\ marked'.resumed = marked.resumed /\ marked'.again = marked.again
        /\ marked'.twice = (marked.twice \/ (check[c].listed \in marked.claimed /\ ~marked.resumed))
        /\ marked'.excused = (marked.excused \/ \E d \in Checker \ {c} : Checking(d))
      BY <1>1, <2>1 DEF AlertTypes, Together
  <2>5. check[c].listed \notin marked.claimed \/ marked.resumed
    <3>1. ~marked.resumed => \A p \in marked.claimed : p < check[c].listed
        BY <1>3 DEF AlertsAreSound, ClaimedLieBehind
    <3> QED BY <2>2, <3>1
  <2>6. OneCheckPerDue'
      BY <2>4, <2>5 DEF AlertsAreSound, OneCheckPerDue
  <2>7. ClaimedLieBehind'
    <3> SUFFICES ASSUME ~marked.resumed, NEW p \in marked.claimed \cup {check[c].listed}
                 PROVE  p < check[c].now + Every
        BY <2>3, <2>4 DEF ClaimedLieBehind
    <3>1. p \in Nat
        BY <1>1, <2>2 DEF AlertTypes
    <3>2. p <= check[c].listed
      <4>1. p \in marked.claimed => p < check[c].listed
          BY <1>3 DEF AlertsAreSound, ClaimedLieBehind
      <4> QED BY <2>2, <3>1, <4>1
    <3> QED BY <2>2, <3>1, <3>2
  <2>8. check' \in [Checker -> CheckState] /\ OthersCheckOn(c) /\ check'[c].at = "draw"
      BY <1>1, <2>1, RestingTypes, Going
  <2>9. DueListed'
      BY <2>8 DEF AlertsAreSound, DueListed, OthersCheckOn
  <2>10. AlertTypes'
    <3>1. Together(c) \in [claimed : SUBSET DueAt, resumed : BOOLEAN, twice : BOOLEAN,
                           excused : BOOLEAN, again : BOOLEAN]
        BY <1>1 DEF AlertTypes, Together
    <3>2. marked' \in [claimed : SUBSET DueAt, resumed : BOOLEAN, twice : BOOLEAN,
                       excused : BOOLEAN, again : BOOLEAN]
        BY <1>1, <2>1, <2>2, <3>1 DEF AlertTypes
    <3> QED BY <1>1, <2>3, <2>8, <3>2 DEF AlertTypes
  <2> QED BY <1>1, <2>1, <2>3, <2>4, <2>6, <2>7, <2>9, <2>10, BeginsKeep
<1> QED BY <1>2, <1>3

\* A check at once claims nothing.
LEMMA CheckAtOnceKeeps ==
    ASSUME AlertsAreSound, NEW c \in Checker, CheckAtOnce(c)
    PROVE  AlertsAreSound'
<1>1. /\ AlertTypes /\ check[c].at = "idle" /\ ~Checking(c) /\ Goes(c, [Idle EXCEPT !.at = "draw"])
      /\ marked' = [marked EXCEPT !.excused = @ \/ \E d \in Checker \ {c} : Checking(d)]
      /\ alert' = alert /\ state' = state /\ clock' = clock /\ told' = told
    BY DEF AlertsAreSound, CheckAtOnce, Checking, Together
<1>2. /\ marked'.claimed = marked.claimed /\ marked'.resumed = marked.resumed
      /\ marked'.again = marked.again /\ marked'.twice = marked.twice
      /\ marked'.excused = (marked.excused \/ \E d \in Checker \ {c} : Checking(d))
      /\ marked' \in [claimed : SUBSET DueAt, resumed : BOOLEAN, twice : BOOLEAN,
                      excused : BOOLEAN, again : BOOLEAN]
    BY <1>1 DEF AlertTypes
<1>3. check' \in [Checker -> CheckState] /\ OthersCheckOn(c) /\ check'[c].at = "draw"
    BY <1>1, RestingTypes, Going
<1>4. AlertTypes'
    BY <1>1, <1>2, <1>3 DEF AlertTypes
<1>5. DueListed'
    BY <1>3 DEF AlertsAreSound, DueListed, OthersCheckOn
<1>6. ClaimedLieBehind' /\ OneCheckPerDue'
    BY <1>1, <1>2 DEF AlertsAreSound, ClaimedLieBehind, OneCheckPerDue
<1> QED BY <1>1, <1>2, <1>4, <1>5, <1>6, BeginsKeep

\* A check that finds nobody to tell ends; one that is cut off after it told is marked.
LEMMA EndingsKeep ==
    ASSUME AlertsAreSound, NEW c \in Checker, MakerGone(c) \/ NothingToSay(c) \/ Cut(c)
    PROVE  AlertsAreSound'
<1>1. /\ AlertTypes /\ Over(c) /\ state' = state /\ clock' = clock /\ told' = told
      /\ alert' = alert \/ alert' = [alert EXCEPT !.active = FALSE]
      /\ \/ marked' = marked /\ check[c].at # "put"
         \/ marked' = [marked EXCEPT !.excused = @ \/ (check[c].at = "put" /\ check[c].was # state)]
    BY DEF AlertsAreSound, MakerGone, NothingToSay, Cut
<1>2. alert' \in AlertRow /\ alert'.kept = alert.kept /\ alert'.next = alert.next
    BY <1>1 DEF AlertTypes, AlertRow
<1>3. /\ marked'.claimed = marked.claimed /\ marked'.resumed = marked.resumed
      /\ marked'.again = marked.again /\ marked'.twice = marked.twice
      /\ marked.excused => marked'.excused
      /\ check[c].at = "put" /\ check[c].was # state => marked'.excused
      /\ marked' \in [claimed : SUBSET DueAt, resumed : BOOLEAN, twice : BOOLEAN,
                      excused : BOOLEAN, again : BOOLEAN]
    BY <1>1 DEF AlertTypes
<1>4. AlertTypes'
    BY <1>1, <1>2, <1>3, GoingOver DEF AlertTypes
<1> QED BY <1>1, <1>2, <1>3, <1>4, LeavesKeep

-----------------------------------------------------------------------------
\* Within a check: what it tells is news, and what it writes is what was told.
LEMMA WithinKeeps ==
    ASSUME AlertsAreSound, NEW c \in Checker, NEW fields \in CheckState, Goes(c, fields), Checking(c),
           fields.at \in {"drawn", "tell", "put"}, AlertTypes',
           UNCHANGED <<alert, state>>,
           marked'.claimed = marked.claimed, marked'.resumed = marked.resumed,
           marked'.twice = marked.twice, marked'.excused = marked.excused, ~marked'.again,
           Calm /\ fields.at = "tell" => (fields.crossed <=> state # "firing"),
           Calm /\ fields.at = "put" => (fields.was = "firing" <=> told' = "fired"),
           told' = told \/ fields.at = "put",
           check[c].at # "put"
    PROVE  AlertsAreSound'
<1>1. check'[c] = fields /\ OthersCheckOn(c)
    BY Going DEF AlertsAreSound
<1>2. Calm' = Calm /\ Checking(c)'
    BY <1>1 DEF Calm, Checking
<1>3. DueListed'
    BY <1>1 DEF AlertsAreSound, DueListed, OthersCheckOn
<1>4. ClaimedLieBehind' /\ OneCheckPerDue' /\ FiresOnce'
    BY DEF AlertsAreSound, ClaimedLieBehind, OneCheckPerDue, FiresOnce
<1>5. OneAtATime'
    BY <1>1, <1>2 DEF AlertsAreSound, OneAtATime, OthersCheckOn
<1>6. Calm => \A d \in Checker \ {c} : ~Checking(d)
    BY DEF AlertsAreSound, OneAtATime, Calm
<1>7. Calm => \A d \in Checker \ {c} : check'[d].at \notin {"tell", "put"}
    BY <1>1, <1>6 DEF OthersCheckOn, Checking
<1>8. TellsNews' /\ PutsWhatWasTold'
    BY <1>1, <1>2, <1>7 DEF TellsNews, PutsWhatWasTold
<1>9. BellIsTrue'
  <2> SUFFICES ASSUME Calm, \A d \in Checker : check'[d].at # "put"
               PROVE  state = "firing" <=> told' = "fired"
      BY DEF BellIsTrue, Calm
  <2>1. told' = told /\ \A d \in Checker : check[d].at # "put"
      BY <1>1 DEF OthersCheckOn
  <2> QED BY <2>1 DEF AlertsAreSound, BellIsTrue, Calm
<1> QED BY <1>3, <1>4, <1>5, <1>8, <1>9 DEF AlertsAreSound

\* The tile is drawn, and the state read.
LEMMA ReadingsKeep ==
    ASSUME AlertsAreSound, NEW c \in Checker, Draw(c) \/ GetState(c)
    PROVE  AlertsAreSound'
<1>1. /\ AlertTypes /\ check[c] \in CheckState /\ check[c].at \in {"draw", "drawn"} /\ Checking(c)
      /\ UNCHANGED <<alert, state, clock, told, marked>>
    BY DEF AlertsAreSound, AlertTypes, Draw, GetState, Checking
<1>2. PICK fields \in CheckState :
          /\ Goes(c, fields) /\ fields.at \in {"drawn", "tell", "put"}
          /\ fields.at = "tell" => (fields.crossed <=> state # "firing")
          /\ fields.at = "put" => (fields.was = "firing" <=> state = "firing")
  <2>1. CASE Draw(c)
    <3>1. PICK crossed \in BOOLEAN : Goes(c, [check[c] EXCEPT !.at = "drawn", !.crossed = crossed])
        BY <2>1 DEF Draw
    <3>2. /\ [check[c] EXCEPT !.at = "drawn", !.crossed = crossed] \in CheckState
          /\ [check[c] EXCEPT !.at = "drawn", !.crossed = crossed].at = "drawn"
        BY <1>1 DEF CheckState
    <3> QED BY <3>1, <3>2
  <2>2. CASE GetState(c)
    <3> DEFINE was == IF state = "firing" THEN "firing" ELSE "ok"
    <3>1. CASE check[c].crossed # (was = "firing")
      <4>1. Goes(c, [check[c] EXCEPT !.at = "tell"])
          BY <2>2, <3>1 DEF GetState
      <4>2. /\ [check[c] EXCEPT !.at = "tell"] \in CheckState
            /\ [check[c] EXCEPT !.at = "tell"].at = "tell"
            /\ [check[c] EXCEPT !.at = "tell"].crossed = check[c].crossed
          BY <1>1 DEF CheckState
      <4>3. check[c].crossed <=> state # "firing"
          BY <1>1, <3>1 DEF CheckState
      <4> QED BY <4>1, <4>2, <4>3
    <3>2. CASE ~(check[c].crossed # (was = "firing"))
      <4>1. Goes(c, [Idle EXCEPT !.at = "put", !.was = was])
          BY <2>2, <3>2 DEF GetState
      <4>2. was \in {"ok", "firing"} /\ (was = "firing" <=> state = "firing")
          OBVIOUS
      <4> HIDE DEF was
      <4> QED BY <4>1, <4>2, RestingTypes
    <3> QED BY <3>1, <3>2
  <2> QED BY <2>1, <2>2
<1>3. AlertTypes'
    BY <1>1, <1>2, Going DEF AlertTypes
<1>4. Calm => (state = "firing" <=> told = "fired")
  <2>1. Calm => \A d \in Checker : check[d].at # "put"
      BY <1>1 DEF AlertsAreSound, OneAtATime, Calm, Checking
  <2> QED BY <2>1 DEF AlertsAreSound, BellIsTrue, Calm
<1>5. ~marked.again
    BY DEF AlertsAreSound, FiresOnce
<1> QED BY <1>1, <1>2, <1>3, <1>4, <1>5, WithinKeeps

\* The person is told something new.
LEMMA TellKeeps ==
    ASSUME AlertsAreSound, NEW c \in Checker, Tell(c)
    PROVE  AlertsAreSound'
<1> DEFINE kind == IF check[c].crossed THEN "fired" ELSE "cleared"
           now == IF check[c].crossed THEN "firing" ELSE "ok"
           fields == [Idle EXCEPT !.at = "put", !.was = now]
<1>1. /\ AlertTypes /\ check[c].at = "tell" /\ Checking(c) /\ told' = kind
      /\ marked' = [marked EXCEPT !.again = @ \/ (told = kind /\ alert.kept /\ ~marked.excused)]
      /\ Goes(c, fields) /\ alert' = alert /\ state' = state /\ clock' = clock
    BY DEF AlertsAreSound, Tell, Checking
<1>2. now \in {"ok", "firing"} /\ kind \in {"fired", "cleared"} /\ (now = "firing" <=> kind = "fired")
    OBVIOUS
<1>3. fields \in CheckState /\ fields.at = "put" /\ fields.was = now
    BY <1>2, RestingTypes
<1>4. Calm => told # kind
  <2> SUFFICES ASSUME Calm PROVE told # kind
      OBVIOUS
  <2>1. check[c].crossed <=> state # "firing"
      BY <1>1 DEF AlertsAreSound, TellsNews
  <2>2. \A d \in Checker : check[d].at # "put"
      BY <1>1 DEF AlertsAreSound, OneAtATime, Calm, Checking
  <2>3. state = "firing" <=> told = "fired"
      BY <2>2 DEF AlertsAreSound, BellIsTrue, Calm
  <2> QED BY <2>1, <2>3
<1> HIDE DEF kind, now, fields
<1>5. /\ marked'.claimed = marked.claimed /\ marked'.resumed = marked.resumed
      /\ marked'.twice = marked.twice /\ marked'.excused = marked.excused /\ ~marked'.again
      /\ marked' \in [claimed : SUBSET DueAt, resumed : BOOLEAN, twice : BOOLEAN,
                      excused : BOOLEAN, again : BOOLEAN]
    BY <1>1, <1>4 DEF AlertsAreSound, AlertTypes, FiresOnce, Calm
<1>6. AlertTypes'
    BY <1>1, <1>2, <1>3, <1>5, Going DEF AlertTypes
<1> QED BY <1>1, <1>2, <1>3, <1>5, <1>6, WithinKeeps

\* What was told is written.
LEMMA PutStateKeeps ==
    ASSUME AlertsAreSound, NEW c \in Checker, PutState(c)
    PROVE  AlertsAreSound'
<1>1. /\ AlertTypes /\ check[c].at = "put" /\ Checking(c) /\ state' = check[c].was /\ Over(c)
      /\ alert' = alert /\ clock' = clock /\ told' = told /\ marked' = marked
    BY DEF AlertsAreSound, PutState, Checking
<1>2. /\ check' \in [Checker -> CheckState] /\ OthersCheckOn(c)
      /\ check'[c].at \in {"idle", "done"} /\ ~Checking(c)'
    BY <1>1, GoingOver
<1>3. AlertTypes'
    BY <1>1, <1>2 DEF AlertTypes, CheckState
<1>4. DueListed'
    BY <1>2 DEF AlertsAreSound, DueListed, OthersCheckOn
<1>5. ClaimedLieBehind' /\ OneCheckPerDue' /\ FiresOnce'
    BY <1>1 DEF AlertsAreSound, ClaimedLieBehind, OneCheckPerDue, FiresOnce
<1>6. OneAtATime'
    BY <1>1, <1>2 DEF AlertsAreSound, OneAtATime, OthersCheckOn
<1>7. Calm => \A d \in Checker : check'[d].at \notin {"tell", "put"}
    BY <1>1, <1>2 DEF AlertsAreSound, OneAtATime, Calm, OthersCheckOn, Checking
<1>8. TellsNews' /\ PutsWhatWasTold'
    BY <1>1, <1>7 DEF TellsNews, PutsWhatWasTold, Calm
<1>9. BellIsTrue'
    BY <1>1 DEF AlertsAreSound, PutsWhatWasTold, BellIsTrue, Calm
<1> QED BY <1>3, <1>4, <1>5, <1>6, <1>8, <1>9 DEF AlertsAreSound

-----------------------------------------------------------------------------
\* Pausing, resuming, deleting, and time.
LEMMA MakerKeeps ==
    ASSUME AlertsAreSound, Pause \/ Resume \/ DeleteAlert \/ ClockTicks \/ UNCHANGED alertVars
    PROVE  AlertsAreSound'
<1>1. /\ AlertTypes /\ check' = check /\ told' = told
      /\ \/ /\ state' = state /\ alert'.kept = alert.kept
         \/ ~alert'.kept
      /\ \/ alert'.next = alert.next /\ marked' = marked
         \/ marked'.resumed \/ ~alert'.kept
      /\ alert' \in AlertRow /\ state' \in {"none", "ok", "firing"} /\ clock' \in Moment
      /\ marked' \in [claimed : SUBSET DueAt, resumed : BOOLEAN, twice : BOOLEAN,
                      excused : BOOLEAN, again : BOOLEAN]
      /\ marked'.twice = marked.twice /\ marked'.excused = marked.excused /\ marked'.again = marked.again
  <2>1. AlertTypes
      BY DEF AlertsAreSound
  <2>2. CASE Pause
      BY <2>1, <2>2 DEF Pause, AlertTypes, AlertRow
  <2>3. CASE Resume
    <3>1. clock \in DueAt
        BY <2>1, AlertConstants DEF AlertTypes, Moment, DueAt
    <3> QED BY <2>1, <2>3, <3>1 DEF Resume, AlertTypes, AlertRow
  <2>4. CASE DeleteAlert
    <3>1. 0 \in DueAt
        BY AlertConstants DEF DueAt
    <3> QED BY <2>1, <2>4, <3>1 DEF DeleteAlert, AlertTypes, AlertRow
  <2>5. CASE ClockTicks
      BY <2>1, <2>5, AlertConstants DEF ClockTicks, AlertTypes, Moment
  <2>6. CASE UNCHANGED alertVars
      BY <2>1, <2>6 DEF alertVars, AlertTypes
  <2> QED BY <2>2, <2>3, <2>4, <2>5, <2>6
<1>2. \A c \in Checker : Checking(c)' = Checking(c)
    BY <1>1 DEF Checking
<1>3. AlertTypes'
    BY <1>1 DEF AlertTypes
<1>4. DueListed' /\ OneCheckPerDue' /\ FiresOnce'
    BY <1>1 DEF AlertsAreSound, DueListed, OneCheckPerDue, FiresOnce
<1>5. ClaimedLieBehind'
  <2>1. CASE alert'.next = alert.next /\ marked' = marked /\ alert'.kept = alert.kept
      BY <2>1 DEF AlertsAreSound, ClaimedLieBehind
  <2>2. CASE marked'.resumed \/ ~alert'.kept
      BY <2>2 DEF ClaimedLieBehind
  <2> QED BY <1>1, <2>1, <2>2
<1>6. OneAtATime'
    BY <1>1, <1>2 DEF AlertsAreSound, OneAtATime
<1>7. TellsNews' /\ PutsWhatWasTold' /\ BellIsTrue'
    BY <1>1 DEF AlertsAreSound, TellsNews, PutsWhatWasTold, BellIsTrue, Calm
<1> QED BY <1>3, <1>4, <1>5, <1>6, <1>7 DEF AlertsAreSound

\* An alert starts with nothing claimed, read or told.
LEMMA AlertsStartSound == AlertInit => AlertsAreSound
<1> SUFFICES ASSUME AlertInit PROVE AlertsAreSound
    OBVIOUS
<1>1. \A c \in Checker : check[c].at = "idle"
    BY RestingTypes DEF AlertInit
<1>2. AlertTypes
    BY RestingTypes, AlertConstants DEF AlertInit, AlertTypes, AlertRow, DueAt, Moment
<1>3. DueListed /\ OneAtATime /\ TellsNews /\ PutsWhatWasTold
    BY <1>1 DEF DueListed, OneAtATime, TellsNews, PutsWhatWasTold, Checking
<1>4. ClaimedLieBehind /\ OneCheckPerDue /\ FiresOnce /\ BellIsTrue
    BY DEF AlertInit, ClaimedLieBehind, OneCheckPerDue, FiresOnce, BellIsTrue
<1> QED BY <1>2, <1>3, <1>4 DEF AlertsAreSound

\* Every step keeps the invariant.
LEMMA AlertsKeepSound == AlertsAreSound /\ [AlertNext]_alertVars => AlertsAreSound'
<1> SUFFICES ASSUME AlertsAreSound, [AlertNext]_alertVars PROVE AlertsAreSound'
    OBVIOUS
<1>1. ASSUME NEW c \in Checker, CheckerStep(c) PROVE AlertsAreSound'
  <2>1. CASE ListDue(c)
      BY <2>1, ListDueKeeps
  <2>2. CASE ClaimCheck(c)
      BY <2>2, ClaimCheckKeeps
  <2>3. CASE CheckAtOnce(c)
      BY <2>3, CheckAtOnceKeeps
  <2>4. CASE MakerGone(c) \/ NothingToSay(c) \/ Cut(c)
      BY <2>4, EndingsKeep
  <2>5. CASE Draw(c) \/ GetState(c)
      BY <2>5, ReadingsKeep
  <2>6. CASE Tell(c)
      BY <2>6, TellKeeps
  <2>7. CASE PutState(c)
      BY <2>7, PutStateKeeps
  <2> QED BY <1>1, <2>1, <2>2, <2>3, <2>4, <2>5, <2>6, <2>7 DEF CheckerStep
<1> QED BY <1>1, MakerKeeps DEF AlertNext

-----------------------------------------------------------------------------
\* The invariant holds of every behaviour: of each of its parts, the theorems below.
THEOREM AlertsStaySound == AlertSpec => []AlertsAreSound
<1> QED BY AlertsStartSound, AlertsKeepSound, PTL DEF AlertSpec

\* The rows and the places of the checks are what the code keeps.
THEOREM AlertsHaveTypes == AlertSpec => []AlertTypes
<1>1. AlertsAreSound => AlertTypes
    BY DEF AlertsAreSound
<1> QED BY <1>1, AlertsStaySound, PTL

\* A check that is due is taken by one scheduler, however many listed it, until the alert is
\* resumed (store/tile_alert_store.py:178-183).
THEOREM AlertsAreCheckedOnce == AlertSpec => []OneCheckPerDue
<1>1. AlertsAreSound => OneCheckPerDue
    BY DEF AlertsAreSound
<1> QED BY <1>1, AlertsStaySound, PTL

\* Nobody is told the same thing twice in a row, but for two checks at once and one cut off
\* after it told (core/tile_alerts.py:224-243).
THEOREM AlertsFireOnce == AlertSpec => []FiresOnce
<1>1. AlertsAreSound => FiresOnce
    BY DEF AlertsAreSound
<1> QED BY <1>1, AlertsStaySound, PTL

\* The bell shows what the person was told last.
THEOREM AlertsShowWhatWasTold == AlertSpec => []BellIsTrue
<1>1. AlertsAreSound => BellIsTrue
    BY DEF AlertsAreSound
<1> QED BY <1>1, AlertsStaySound, PTL

-----------------------------------------------------------------------------
(***************************************************************************)
(* The follow of a dashboard, for every number of scheduler processes,     *)
(* period and length of time.                                              *)
(*                                                                         *)
(* FollowsAreSound is the inductive invariant.  A delivery has moved       *)
(* last_sent_at from one moment to a later one: it spans the time between  *)
(* the two.  Deliveries under way span times apart from one another, all   *)
(* before last_sent_at, so giving one back cannot reach behind another.    *)
(***************************************************************************)

DueBeforeNow == \A s \in Sender : sender[s].at # "idle" => Period(s) < sender[s].now

SpansBeforeLast ==
    \A s \in Sender : Delivering(s) => follow.last # Never /\ sender[s].now <= follow.last

Apart(s, r) == sender[s].now <= Period(r) /\ sender[r].previous # Never

SpansApart ==
    \A s, r \in Sender : s # r /\ Delivering(s) /\ Delivering(r) => Apart(s, r) \/ Apart(r, s)

StillToTell(s) == sender[s].at \in {"deliver", "draw"}

\* As long as no delivery failed that had told, what was told lies behind.
ToldLiesBehind ==
    ~upset.told =>
        \A p \in notices :
            /\ p < From(follow.last)
            /\ \A s \in Sender : StillToTell(s) => p < Period(s) \/ sender[s].now <= p

EmailAfterNotice == \A s \in Sender : sender[s].at = "email" => Period(s) \in notices

FollowsAreSound ==
    /\ FollowTypes
    /\ DueBeforeNow
    /\ SpansBeforeLast
    /\ SpansApart
    /\ ToldLiesBehind
    /\ OneNoticePerPeriod
    /\ EmailAfterNotice
    /\ EmailsAreOfNotices
    /\ NoUpdateLost

-----------------------------------------------------------------------------
\* Moments are numbers, and a period is one.
LEMMA PeriodsAreMoments ==
    ASSUME FollowTypes, NEW s \in Sender
    PROVE  /\ Time \subseteq Nat /\ Never \notin Time
           /\ sender[s] \in SenderState /\ sender[s].now \in Time
           /\ sender[s].previous \in Time \cup {Never} /\ Period(s) \in Time
           /\ follow.last \in Time \cup {Never} /\ From(follow.last) \in Time
           /\ follow.last # Never => From(follow.last) = follow.last
           /\ sender[s].previous # Never => Period(s) = sender[s].previous
BY FollowConstants DEF FollowTypes, FollowRow, SenderState, Time, Never, Period, From

OthersStay(s) ==
    \A e \in Sender \ {s} :
        /\ sender'[e] = sender[e] /\ Period(e)' = Period(e)
        /\ Delivering(e)' = Delivering(e) /\ StillToTell(e)' = StillToTell(e)

\* A step of one sender leaves the others where they are.
LEMMA OthersAsTheyWere ==
    ASSUME NEW s \in Sender, \A e \in Sender \ {s} : sender'[e] = sender[e]
    PROVE  OthersStay(s)
BY DEF OthersStay, Period, Delivering, StillToTell

\* A sender that is done spans no time.
LEMMA DoneSpansNothing ==
    ASSUME FollowsAreSound, NEW s \in Sender, Rest(s)
    PROVE  /\ sender' \in [Sender -> SenderState]
           /\ DueBeforeNow' /\ SpansApart'
           /\ sender'[s].at = "idle" /\ OthersStay(s)
           /\ ~Delivering(s)' /\ ~StillToTell(s)'
<1>1. sender' = [sender EXCEPT ![s] = Resting] /\ FollowTypes /\ DueBeforeNow /\ SpansApart
    BY DEF FollowsAreSound, Rest
<1>2. sender'[s] = Resting /\ sender'[s].at = "idle"
    BY <1>1 DEF Resting, FollowTypes
<1>o. OthersStay(s)
    BY <1>1, OthersAsTheyWere DEF FollowTypes
<1>3. sender' \in [Sender -> SenderState]
    BY <1>1, FollowConstants DEF FollowTypes, Resting, SenderState, Time, Never
<1>4. ~Delivering(s)' /\ ~StillToTell(s)'
    BY <1>2 DEF Delivering, StillToTell
<1>5. DueBeforeNow'
    BY <1>1, <1>2, <1>o DEF DueBeforeNow, OthersStay
<1>6. SpansApart'
    BY <1>1, <1>4, <1>o DEF SpansApart, Apart, OthersStay
<1> QED BY <1>o, <1>2, <1>3, <1>4, <1>5, <1>6

\* A sender that is done with its period, whatever else it did.
LEMMA DoneKeeps ==
    ASSUME FollowsAreSound, NEW s \in Sender, Rest(s), FollowTypes', EmailsAreOfNotices',
           follow'.last = follow.last, follow'.status # "ended" => follow.status # "ended",
           notices' = notices, upset'.told = upset.told, upset'.twice = upset.twice,
           upset'.claimed = upset.claimed, upset.lost \subseteq upset'.lost,
           Delivering(s) => Period(s) \in notices \cup upset'.lost \/ follow'.status = "ended"
    PROVE  FollowsAreSound'
<1>1. /\ DueBeforeNow' /\ SpansApart' /\ OthersStay(s)
      /\ sender'[s].at = "idle" /\ ~Delivering(s)' /\ ~StillToTell(s)'
    BY DoneSpansNothing
<1>2. From(follow.last)' = From(follow.last)
    BY DEF From
<1>3. SpansBeforeLast'
    BY <1>1 DEF FollowsAreSound, SpansBeforeLast, OthersStay
<1>4. ToldLiesBehind'
    BY <1>1, <1>2 DEF FollowsAreSound, ToldLiesBehind, OthersStay
<1>5. OneNoticePerPeriod'
    BY DEF FollowsAreSound, OneNoticePerPeriod
<1>6. EmailAfterNotice'
    BY <1>1 DEF FollowsAreSound, EmailAfterNotice, OthersStay
<1>7. NoUpdateLost'
  <2> SUFFICES ASSUME follow'.status # "ended", NEW p \in upset.claimed
               PROVE  \/ p \in notices' \cup upset'.lost
                      \/ \E e \in Sender : Delivering(e)' /\ Period(e)' = p
                      \/ From(follow.last)' <= p
      BY DEF NoUpdateLost
  <2>1. \/ p \in notices \cup upset.lost
        \/ \E e \in Sender : Delivering(e) /\ Period(e) = p
        \/ From(follow.last) <= p
      BY DEF FollowsAreSound, NoUpdateLost
  <2>2. CASE \E e \in Sender : Delivering(e) /\ Period(e) = p
    <3> PICK e \in Sender : Delivering(e) /\ Period(e) = p
        BY <2>2
    <3>1. CASE e = s
        BY <3>1
    <3>2. CASE e # s
        BY <1>1, <3>2 DEF OthersStay
    <3> QED BY <3>1, <3>2
  <2> QED BY <1>2, <2>1, <2>2
<1> QED BY <1>1, <1>3, <1>4, <1>5, <1>6, <1>7 DEF FollowsAreSound

\* A sender that moves on within its delivery spans what it did.
LEMMA MovesWithin ==
    ASSUME FollowsAreSound, NEW s \in Sender, NEW at \in {"draw", "email"}, At(s, at), Delivering(s)
    PROVE  /\ sender' \in [Sender -> SenderState]
           /\ DueBeforeNow' /\ SpansApart'
           /\ sender'[s].at = at /\ sender'[s].now = sender[s].now /\ Period(s)' = Period(s)
           /\ Delivering(s)' /\ OthersStay(s)
<1>1. /\ sender' = [sender EXCEPT ![s] = [sender[s] EXCEPT !.at = at]]
      /\ FollowTypes /\ DueBeforeNow /\ SpansApart /\ sender[s] \in SenderState
    BY DEF FollowsAreSound, At, FollowTypes
<1>2. sender'[s] = [sender[s] EXCEPT !.at = at]
    BY <1>1 DEF FollowTypes
<1>o. OthersStay(s)
    BY <1>1, OthersAsTheyWere DEF FollowTypes
<1>3. /\ sender'[s].at = at /\ sender'[s].now = sender[s].now
      /\ sender'[s].previous = sender[s].previous /\ sender'[s] \in SenderState
    BY <1>1, <1>2 DEF SenderState
<1>4. Period(s)' = Period(s) /\ Delivering(s)'
    BY <1>3 DEF Period, Delivering
<1>5. sender' \in [Sender -> SenderState]
    BY <1>1, <1>2, <1>3 DEF FollowTypes
<1>6. DueBeforeNow'
    BY <1>1, <1>3, <1>4, <1>o DEF DueBeforeNow, Delivering, OthersStay
<1>7. SpansApart'
  <2> SUFFICES ASSUME NEW e \in Sender, NEW r \in Sender, e # r, Delivering(e)', Delivering(r)'
               PROVE  (Apart(e, r) \/ Apart(r, e))'
      BY DEF SpansApart
  <2>1. Delivering(e) /\ Delivering(r)
      BY <1>o DEF OthersStay
  <2>2. \A x \in {e, r} : /\ sender'[x].now = sender[x].now /\ sender'[x].previous = sender[x].previous
                          /\ Period(x)' = Period(x)
      BY <1>3, <1>4, <1>o DEF OthersStay
  <2> QED BY <1>1, <2>1, <2>2 DEF SpansApart, Apart
<1> QED BY <1>o, <1>3, <1>4, <1>5, <1>6, <1>7

\* Listing the follow: the moment is past the period's beginning.
LEMMA ListFollowsKeeps ==
    ASSUME FollowsAreSound, NEW s \in Sender, ListFollows(s)
    PROVE  FollowsAreSound'
<1> DEFINE w == [at |-> "listed", previous |-> follow.last, now |-> time]
<1>1. /\ sender[s].at = "idle" /\ DueNow(time) /\ sender' = [sender EXCEPT ![s] = w]
      /\ follow' = follow /\ canOpen' = canOpen /\ time' = time /\ notices' = notices
      /\ emails' = emails /\ upset' = upset
    BY DEF ListFollows
<1>2. FollowTypes
    BY DEF FollowsAreSound
<1>3. sender'[s] = w /\ ~Delivering(s) /\ ~Delivering(s)' /\ ~StillToTell(s)' /\ Period(s)' = From(follow.last)
    BY <1>1, <1>2 DEF FollowTypes, Delivering, StillToTell, Period
<1>o. OthersStay(s)
    BY <1>1, <1>2, OthersAsTheyWere DEF FollowTypes
<1>4. FollowTypes'
  <2>1. w \in SenderState
      BY <1>2 DEF FollowTypes, FollowRow, SenderState
  <2>2. sender' \in [Sender -> SenderState]
      BY <1>1, <1>2, <2>1 DEF FollowTypes
  <2> QED BY <1>1, <1>2, <2>2 DEF FollowTypes
<1>5. DueBeforeNow'
  <2>1. From(follow.last) \in Nat /\ time \in Nat
      BY <1>2, PeriodsAreMoments DEF FollowTypes
  <2>2. From(follow.last) < time
      BY <1>1, <2>1, FollowConstants DEF DueNow
  <2> QED BY <1>1, <1>2, <1>3, <2>2, <1>o DEF FollowsAreSound, DueBeforeNow, OthersStay
<1>6. SpansBeforeLast' /\ SpansApart'
    BY <1>1, <1>2, <1>3, <1>o DEF FollowsAreSound, SpansBeforeLast, SpansApart, Apart, OthersStay
<1>7. ToldLiesBehind'
    BY <1>1, <1>2, <1>3, <1>o DEF FollowsAreSound, ToldLiesBehind, OthersStay
<1>8. OneNoticePerPeriod' /\ EmailsAreOfNotices'
    BY <1>1 DEF FollowsAreSound, OneNoticePerPeriod, EmailsAreOfNotices
<1>9. EmailAfterNotice'
    BY <1>1, <1>2, <1>3, <1>o DEF FollowsAreSound, EmailAfterNotice, OthersStay
<1>10. NoUpdateLost'
  <2>1. \A e \in Sender : Delivering(e) => Delivering(e)' /\ Period(e)' = Period(e)
      BY <1>1, <1>2, <1>3, <1>o DEF OthersStay
  <2> QED BY <1>1, <2>1 DEF FollowsAreSound, NoUpdateLost
<1> QED BY <1>4, <1>5, <1>6, <1>7, <1>8, <1>9, <1>10 DEF FollowsAreSound

\* A claim spans from the last update to now, past every other delivery.
LEMMA ClaimFollowKeeps ==
    ASSUME FollowsAreSound, NEW s \in Sender, ClaimFollow(s)
    PROVE  FollowsAreSound'
<1>1. FollowTypes /\ DueBeforeNow
    BY DEF FollowsAreSound
<1>2. CASE follow.status # "ended" /\ follow.last = sender[s].previous
  <2> DEFINE w == [sender[s] EXCEPT !.at = "deliver"]
  <2>1. /\ sender[s].at = "listed"
        /\ follow' = [follow EXCEPT !.last = sender[s].now] /\ sender' = [sender EXCEPT ![s] = w]
        /\ upset' = [upset EXCEPT !.claimed = {p \in @ : p < Period(s)} \cup {Period(s)}]
        /\ canOpen' = canOpen /\ time' = time /\ notices' = notices /\ emails' = emails
      BY <1>2 DEF ClaimFollow, At
  <2>2. /\ sender[s] \in SenderState /\ sender[s].now \in Time /\ Period(s) \in Time
        /\ Period(s) < sender[s].now /\ Period(s) = From(follow.last)
        /\ Time \subseteq Nat /\ Never \notin Time /\ sender[s].now \in Nat /\ Period(s) \in Nat
      BY <1>1, <1>2, <2>1, PeriodsAreMoments DEF DueBeforeNow, Period
  <2>3. /\ sender'[s] = w /\ sender'[s].at = "deliver" /\ sender'[s].now = sender[s].now
        /\ sender'[s].previous = sender[s].previous /\ sender'[s] \in SenderState
      BY <1>1, <2>1, <2>2 DEF SenderState, FollowTypes
  <2>o. OthersStay(s)
      BY <1>1, <2>1, OthersAsTheyWere DEF FollowTypes
  <2>4. /\ Period(s)' = Period(s) /\ Delivering(s)' /\ ~Delivering(s) /\ StillToTell(s)'
      BY <2>1, <2>3 DEF Period, Delivering, StillToTell
  <2>5. /\ follow'.last = sender[s].now /\ follow'.status = follow.status
        /\ From(follow'.last) = sender[s].now /\ follow'.last # Never
      BY <1>1, <2>1, <2>2 DEF FollowTypes, FollowRow, From
  <2>6. /\ upset'.told = upset.told /\ upset'.twice = upset.twice /\ upset'.lost = upset.lost
        /\ upset'.claimed = {p \in upset.claimed : p < Period(s)} \cup {Period(s)}
      BY <1>1, <2>1 DEF FollowTypes
  <2>7. FollowTypes'
    <3>1. follow' \in FollowRow
        BY <1>1, <2>1, <2>2 DEF FollowTypes, FollowRow
    <3>2. sender' \in [Sender -> SenderState]
        BY <1>1, <2>1, <2>3 DEF FollowTypes
    <3>3. upset' \in [claimed : SUBSET Time, told : BOOLEAN, twice : BOOLEAN, lost : SUBSET Time]
        BY <1>1, <2>1, <2>2 DEF FollowTypes
    <3> QED BY <1>1, <2>1, <3>1, <3>2, <3>3 DEF FollowTypes
  <2>8. DueBeforeNow'
      BY <1>1, <2>1, <2>2, <2>3, <2>4, <2>o DEF DueBeforeNow, OthersStay
  <2>9. \A e \in Sender \ {s} : Delivering(e) =>
            follow.last # Never /\ sender[e].now <= Period(s) /\ sender[s].previous # Never
      BY <1>1, <1>2, <2>2, PeriodsAreMoments DEF FollowsAreSound, SpansBeforeLast
  <2>10. SpansBeforeLast'
    <3> SUFFICES ASSUME NEW e \in Sender, Delivering(e)'
                 PROVE  follow'.last # Never /\ sender'[e].now <= follow'.last
        BY DEF SpansBeforeLast
    <3>1. CASE e = s
      <4>1. sender[s].now <= sender[s].now
          BY <2>2
      <4> QED BY <2>3, <2>5, <3>1, <4>1
    <3>2. CASE e # s
      <4>1. sender'[e] = sender[e] /\ sender[e].now <= Period(s) /\ sender[e].now \in Nat
          BY <1>1, <2>1, <2>9, <3>2, <2>o, PeriodsAreMoments DEF OthersStay
      <4> QED BY <2>2, <2>5, <4>1
    <3> QED BY <3>1, <3>2
  <2>11. SpansApart'
    <3> SUFFICES ASSUME NEW e \in Sender, NEW r \in Sender, e # r, Delivering(e)', Delivering(r)'
                 PROVE  (Apart(e, r) \/ Apart(r, e))'
        BY DEF SpansApart
    <3>1. CASE e = s
      <4>1. Delivering(r) /\ sender'[r] = sender[r]
          BY <1>1, <2>1, <3>1, <2>o DEF OthersStay
      <4> QED BY <2>3, <2>4, <2>9, <3>1, <4>1 DEF Apart
    <3>2. CASE r = s
      <4>1. Delivering(e) /\ sender'[e] = sender[e]
          BY <1>1, <2>1, <3>2, <2>o DEF OthersStay
      <4> QED BY <2>3, <2>4, <2>9, <3>2, <4>1 DEF Apart
    <3>3. CASE e # s /\ r # s
        BY <1>1, <2>1, <3>3, <2>o DEF FollowsAreSound, SpansApart, Apart, OthersStay
    <3> QED BY <3>1, <3>2, <3>3
  <2>12. ToldLiesBehind'
    <3> SUFFICES ASSUME ~upset.told, NEW p \in notices
                 PROVE  /\ p < From(follow'.last)
                        /\ \A e \in Sender : StillToTell(e)' => p < Period(e)' \/ sender'[e].now <= p
        BY <2>1, <2>6 DEF ToldLiesBehind
    <3>1. p < Period(s) /\ p \in Nat
        BY <1>1, <2>2 DEF FollowsAreSound, ToldLiesBehind, FollowTypes
    <3>2. p < From(follow'.last)
        BY <2>2, <2>5, <3>1
    <3>3. \A e \in Sender \ {s} : StillToTell(e)' => p < Period(e)' \/ sender'[e].now <= p
        BY <1>1, <2>1, <2>o DEF FollowsAreSound, ToldLiesBehind, OthersStay
    <3> QED BY <2>4, <3>1, <3>2, <3>3
  <2>13. OneNoticePerPeriod' /\ EmailsAreOfNotices'
      BY <2>1, <2>6 DEF FollowsAreSound, OneNoticePerPeriod, EmailsAreOfNotices
  <2>14. EmailAfterNotice'
      BY <1>1, <2>1, <2>3, <2>o DEF FollowsAreSound, EmailAfterNotice, OthersStay
  <2>15. NoUpdateLost'
    <3> SUFFICES ASSUME NEW p \in upset'.claimed
                 PROVE  \/ p \in notices' \cup upset'.lost
                        \/ \E e \in Sender : Delivering(e)' /\ Period(e)' = p
                        \/ From(follow'.last) <= p
        BY DEF NoUpdateLost
    <3>1. CASE p = Period(s)
        BY <2>4, <3>1
    <3>2. CASE p # Period(s)
      <4>1. p \in upset.claimed /\ p < Period(s) /\ p \in Nat
          BY <1>1, <2>2, <2>6, <3>2 DEF FollowTypes
      <4>2. p \in notices \cup upset.lost \/ \E e \in Sender : Delivering(e) /\ Period(e) = p
          BY <1>2, <2>2, <4>1 DEF FollowsAreSound, NoUpdateLost
      <4> QED BY <1>1, <2>1, <2>4, <2>6, <4>2, <2>o DEF OthersStay
    <3> QED BY <3>1, <3>2
  <2> QED BY <2>7, <2>8, <2>10, <2>11, <2>12, <2>13, <2>14, <2>15 DEF FollowsAreSound
<1>3. CASE ~(follow.status # "ended" /\ follow.last = sender[s].previous)
  <2>1. /\ sender[s].at = "listed" /\ Rest(s) /\ follow' = follow /\ canOpen' = canOpen
        /\ time' = time /\ notices' = notices /\ emails' = emails /\ upset' = upset
      BY <1>3 DEF ClaimFollow
  <2>2. ~Delivering(s) /\ sender' \in [Sender -> SenderState]
      BY <2>1, DoneSpansNothing DEF Delivering
  <2>3. FollowTypes' /\ EmailsAreOfNotices'
      BY <1>1, <2>1, <2>2 DEF FollowTypes, FollowsAreSound, EmailsAreOfNotices
  <2> QED BY <2>1, <2>2, <2>3, DoneKeeps
<1> QED BY <1>2, <1>3

\* A delivery goes on, or the follow ends.
LEMMA OpenKeeps ==
    ASSUME FollowsAreSound, NEW s \in Sender, Open(s)
    PROVE  FollowsAreSound'
<1>1. /\ FollowTypes /\ sender[s].at = "deliver" /\ Delivering(s) /\ StillToTell(s)
      /\ canOpen' = canOpen /\ time' = time /\ notices' = notices /\ emails' = emails /\ upset' = upset
    BY DEF FollowsAreSound, Open, Delivering, StillToTell
<1>2. EmailsAreOfNotices' /\ OneNoticePerPeriod'
    BY <1>1 DEF FollowsAreSound, EmailsAreOfNotices, OneNoticePerPeriod
<1>3. CASE canOpen
  <2>1. At(s, "draw") /\ follow' = follow
      BY <1>3 DEF Open
  <2>2. /\ sender' \in [Sender -> SenderState] /\ DueBeforeNow' /\ SpansApart'
        /\ sender'[s].at = "draw" /\ sender'[s].now = sender[s].now /\ Period(s)' = Period(s)
        /\ Delivering(s)' /\ OthersStay(s)
      BY <1>1, <2>1, MovesWithin
  <2>3. FollowTypes'
      BY <1>1, <2>1, <2>2 DEF FollowTypes
  <2>4. SpansBeforeLast'
      BY <1>1, <2>1, <2>2 DEF FollowsAreSound, SpansBeforeLast, OthersStay
  <2>5. ToldLiesBehind'
      BY <1>1, <2>1, <2>2 DEF FollowsAreSound, ToldLiesBehind, OthersStay
  <2>6. EmailAfterNotice'
      BY <1>1, <2>2 DEF FollowsAreSound, EmailAfterNotice, OthersStay
  <2>7. \A e \in Sender : Delivering(e) => Delivering(e)' /\ Period(e)' = Period(e)
      BY <2>2 DEF OthersStay
  <2>8. NoUpdateLost'
      BY <1>1, <2>1, <2>7 DEF FollowsAreSound, NoUpdateLost
  <2> QED BY <1>2, <2>2, <2>3, <2>4, <2>5, <2>6, <2>8 DEF FollowsAreSound
<1>4. CASE ~canOpen
  <2>1. Rest(s) /\ follow' = [follow EXCEPT !.status = "ended"]
      BY <1>4 DEF Open
  <2>2. follow' \in FollowRow /\ follow'.last = follow.last /\ follow'.status = "ended"
      BY <1>1, <2>1 DEF FollowTypes, FollowRow
  <2>3. FollowTypes'
      BY <1>1, <2>1, <2>2, DoneSpansNothing DEF FollowTypes
  <2> QED BY <1>1, <1>2, <2>1, <2>2, <2>3, DoneKeeps
<1> QED BY <1>3, <1>4

\* A notice is of a period no other delivery reaches.
LEMMA GiveNoticeKeeps ==
    ASSUME FollowsAreSound, NEW s \in Sender, GiveNotice(s)
    PROVE  FollowsAreSound'
<1>1. /\ FollowTypes /\ sender[s].at = "draw" /\ Delivering(s) /\ StillToTell(s) /\ At(s, "email")
      /\ notices' = notices \cup {Period(s)}
      /\ upset' = [upset EXCEPT !.twice = @ \/ (Period(s) \in notices /\ ~upset.told)]
      /\ follow' = follow /\ canOpen' = canOpen /\ time' = time /\ emails' = emails
    BY DEF FollowsAreSound, GiveNotice, Delivering, StillToTell
<1>2. /\ sender' \in [Sender -> SenderState] /\ DueBeforeNow' /\ SpansApart'
      /\ sender'[s].at = "email" /\ sender'[s].now = sender[s].now /\ Period(s)' = Period(s)
      /\ Delivering(s)' /\ OthersStay(s) /\ ~StillToTell(s)'
    BY <1>1, MovesWithin DEF StillToTell
<1>3. /\ Period(s) \in Time /\ Period(s) \in Nat /\ sender[s].now \in Nat
      /\ Period(s) < sender[s].now /\ Time \subseteq Nat
      /\ follow.last # Never /\ follow.last \in Nat /\ sender[s].now <= follow.last
      /\ From(follow.last) = follow.last
    BY <1>1, PeriodsAreMoments DEF FollowsAreSound, DueBeforeNow, SpansBeforeLast
<1>4. ~upset.told => Period(s) \notin notices
  <2> SUFFICES ASSUME ~upset.told, Period(s) \in notices PROVE FALSE
      OBVIOUS
  <2>1. Period(s) < Period(s) \/ sender[s].now <= Period(s)
      BY <1>1 DEF FollowsAreSound, ToldLiesBehind
  <2> QED BY <1>3, <2>1
<1>5. /\ upset'.told = upset.told /\ upset'.lost = upset.lost /\ upset'.claimed = upset.claimed
      /\ upset'.twice = upset.twice
    BY <1>1, <1>4 DEF FollowTypes
<1>6. FollowTypes'
  <2>1. upset' = upset
      BY <1>1, <1>4 DEF FollowTypes
  <2> QED BY <1>1, <1>2, <1>3, <2>1 DEF FollowTypes
<1>7. SpansBeforeLast'
    BY <1>1, <1>2 DEF FollowsAreSound, SpansBeforeLast, OthersStay
<1>8. ToldLiesBehind'
  <2> SUFFICES ASSUME ~upset.told, NEW p \in notices'
               PROVE  /\ p < From(follow.last)
                      /\ \A e \in Sender : StillToTell(e)' => p < Period(e)' \/ sender'[e].now <= p
      BY <1>1, <1>5 DEF ToldLiesBehind
  <2>1. CASE p \in notices
      BY <1>2, <2>1 DEF FollowsAreSound, ToldLiesBehind, OthersStay
  <2>2. CASE p = Period(s)
    <3>1. p < From(follow.last)
        BY <1>3, <2>2
    <3>2. ASSUME NEW e \in Sender, StillToTell(e)'
          PROVE  p < Period(e)' \/ sender'[e].now <= p
      <4>1. e # s /\ StillToTell(e) /\ Delivering(e) /\ sender'[e] = sender[e] /\ Period(e)' = Period(e)
          BY <1>2, <3>2 DEF OthersStay, StillToTell, Delivering
      <4>2. sender[e].now <= Period(s) \/ sender[s].now <= Period(e)
          BY <1>1, <4>1 DEF FollowsAreSound, SpansApart, Apart
      <4>3. Period(e) \in Nat
          BY <1>1, <1>3, PeriodsAreMoments
      <4>4. sender[s].now <= Period(e) => Period(s) < Period(e)
          BY <1>3, <4>3
      <4> QED BY <2>2, <4>1, <4>2, <4>4
    <3> QED BY <3>1, <3>2
  <2> QED BY <1>1, <2>1, <2>2
<1>9. OneNoticePerPeriod' /\ EmailsAreOfNotices'
    BY <1>1, <1>5 DEF FollowsAreSound, OneNoticePerPeriod, EmailsAreOfNotices
<1>10. EmailAfterNotice'
    BY <1>1, <1>2 DEF FollowsAreSound, EmailAfterNotice, OthersStay
<1>11. NoUpdateLost'
  <2>1. \A e \in Sender : Delivering(e) => Delivering(e)' /\ Period(e)' = Period(e)
      BY <1>2 DEF OthersStay
  <2> QED BY <1>1, <1>5, <2>1 DEF FollowsAreSound, NoUpdateLost
<1> QED BY <1>2, <1>6, <1>7, <1>8, <1>9, <1>10, <1>11 DEF FollowsAreSound

\* The email goes with the notice of the same period.
LEMMA QueueEmailKeeps ==
    ASSUME FollowsAreSound, NEW s \in Sender, QueueEmail(s)
    PROVE  FollowsAreSound'
<1>1. /\ FollowTypes /\ sender[s].at = "email" /\ Rest(s) /\ Period(s) \in notices
      /\ emails' \subseteq emails \cup {Period(s)}
      /\ follow' = follow /\ canOpen' = canOpen /\ time' = time /\ notices' = notices /\ upset' = upset
    BY DEF FollowsAreSound, EmailAfterNotice, QueueEmail
<1>2. EmailsAreOfNotices'
    BY <1>1 DEF FollowsAreSound, EmailsAreOfNotices
<1>3. FollowTypes'
    BY <1>1, <1>2, DoneSpansNothing DEF FollowTypes, EmailsAreOfNotices
<1> QED BY <1>1, <1>2, <1>3, DoneKeeps

\* A delivery given back while it was the last: the others end before its period.
LEMMA ReleaseFollowKeeps ==
    ASSUME FollowsAreSound, NEW s \in Sender, ReleaseFollow(s)
    PROVE  FollowsAreSound'
<1>1. /\ FollowTypes /\ Delivering(s) /\ Rest(s)
      /\ canOpen' = canOpen /\ time' = time /\ notices' = notices /\ emails' = emails
    BY DEF FollowsAreSound, ReleaseFollow
<1>2. /\ sender' \in [Sender -> SenderState] /\ DueBeforeNow' /\ SpansApart' /\ OthersStay(s)
      /\ sender'[s].at = "idle" /\ ~Delivering(s)' /\ ~StillToTell(s)'
    BY <1>1, DoneSpansNothing
<1>3. EmailsAreOfNotices'
    BY <1>1 DEF FollowsAreSound, EmailsAreOfNotices
<1>4. Period(s) \in Time
    BY <1>1, PeriodsAreMoments
<1>5. CASE follow.last = sender[s].now
  <2>1. /\ follow' = [follow EXCEPT !.last = sender[s].previous]
        /\ upset' = [upset EXCEPT !.told = @ \/ sender[s].at = "email"]
      BY <1>5 DEF ReleaseFollow
  <2>2. /\ follow'.last = sender[s].previous /\ follow'.status = follow.status
        /\ From(follow'.last) = Period(s) /\ follow' \in FollowRow
      BY <1>1, <2>1, PeriodsAreMoments DEF FollowTypes, FollowRow, Period
  <2>3. /\ upset'.twice = upset.twice /\ upset'.lost = upset.lost /\ upset'.claimed = upset.claimed
        /\ upset'.told = (upset.told \/ sender[s].at = "email")
        /\ upset' \in [claimed : SUBSET Time, told : BOOLEAN, twice : BOOLEAN, lost : SUBSET Time]
      BY <1>1, <2>1 DEF FollowTypes
  <2>4. /\ Period(s) \in Nat /\ sender[s].now \in Nat /\ Period(s) < sender[s].now
        /\ Time \subseteq Nat /\ From(follow.last) = sender[s].now
    <3>1. sender[s].at # "idle"
        BY <1>1 DEF Delivering
    <3>2. Period(s) < sender[s].now /\ follow.last # Never
        BY <1>1, <3>1 DEF FollowsAreSound, DueBeforeNow, SpansBeforeLast
    <3> QED BY <1>1, <1>5, <3>2, PeriodsAreMoments
  <2>5. FollowTypes'
      BY <1>1, <1>2, <2>2, <2>3 DEF FollowTypes
  <2>6. SpansBeforeLast'
    <3> SUFFICES ASSUME NEW e \in Sender, Delivering(e)'
                 PROVE  follow'.last # Never /\ sender'[e].now <= follow'.last
        BY DEF SpansBeforeLast
    <3>1. e # s /\ Delivering(e) /\ sender'[e] = sender[e]
        BY <1>2 DEF OthersStay
    <3>2. /\ sender[e].now \in Nat /\ Period(e) \in Nat /\ Period(e) < sender[e].now
          /\ sender[e].now <= sender[s].now
        BY <1>1, <1>5, <2>4, <3>1, PeriodsAreMoments
        DEF FollowsAreSound, DueBeforeNow, SpansBeforeLast, Delivering
    <3>3. Apart(e, s)
      <4>1. Apart(e, s) \/ sender[s].now <= Period(e)
          BY <1>1, <3>1 DEF FollowsAreSound, SpansApart, Apart
      <4> QED BY <2>4, <3>2, <4>1
    <3>4. Period(s) = sender[s].previous
        BY <3>3 DEF Apart, Period, From
    <3> QED BY <2>2, <3>1, <3>3, <3>4 DEF Apart
  <2>7. ToldLiesBehind'
    <3> SUFFICES ASSUME ~upset'.told, NEW p \in notices
                 PROVE  /\ p < From(follow'.last)
                        /\ \A e \in Sender : StillToTell(e)' => p < Period(e)' \/ sender'[e].now <= p
        BY <1>1 DEF ToldLiesBehind
    <3>1. ~upset.told /\ StillToTell(s) /\ p \in Nat
        BY <1>1, <2>3, <2>4 DEF StillToTell, Delivering, FollowTypes
    <3>2. p < sender[s].now /\ (p < Period(s) \/ sender[s].now <= p)
        BY <2>4, <3>1 DEF FollowsAreSound, ToldLiesBehind
    <3>3. p < From(follow'.last)
        BY <2>2, <2>4, <3>1, <3>2
    <3>4. \A e \in Sender : StillToTell(e)' => p < Period(e)' \/ sender'[e].now <= p
        BY <1>2, <3>1 DEF FollowsAreSound, ToldLiesBehind, OthersStay
    <3> QED BY <3>3, <3>4
  <2>8. OneNoticePerPeriod'
      BY <2>3 DEF FollowsAreSound, OneNoticePerPeriod
  <2>9. EmailAfterNotice'
      BY <1>1, <1>2 DEF FollowsAreSound, EmailAfterNotice, OthersStay
  <2>10. NoUpdateLost'
    <3> SUFFICES ASSUME follow.status # "ended", NEW p \in upset.claimed
                 PROVE  \/ p \in notices \cup upset.lost
                        \/ \E e \in Sender : Delivering(e)' /\ Period(e)' = p
                        \/ From(follow'.last) <= p
        BY <1>1, <2>2, <2>3 DEF NoUpdateLost
    <3>1. \/ p \in notices \cup upset.lost
          \/ \E e \in Sender : Delivering(e) /\ Period(e) = p
          \/ From(follow.last) <= p
        BY DEF FollowsAreSound, NoUpdateLost
    <3>2. CASE \E e \in Sender : Delivering(e) /\ Period(e) = p
      <4> PICK e \in Sender : Delivering(e) /\ Period(e) = p
          BY <3>2
      <4>1. CASE e = s
        <5>1. From(follow'.last) <= Period(s)
            BY <2>2, <2>4
        <5> QED BY <4>1, <5>1
      <4>2. CASE e # s
          BY <1>2, <4>2 DEF OthersStay
      <4> QED BY <4>1, <4>2
    <3>3. CASE From(follow.last) <= p
      <4>1. p \in Nat
          BY <1>1, <2>4 DEF FollowTypes
      <4> QED BY <2>2, <2>4, <3>3, <4>1
    <3> QED BY <3>1, <3>2, <3>3
  <2> QED BY <1>2, <1>3, <2>5, <2>6, <2>7, <2>8, <2>9, <2>10 DEF FollowsAreSound
<1>6. CASE follow.last # sender[s].now
  <2>1. follow' = follow /\ upset' = [upset EXCEPT !.lost = @ \cup {Period(s)}]
      BY <1>6 DEF ReleaseFollow
  <2>2. /\ upset'.told = upset.told /\ upset'.twice = upset.twice /\ upset'.claimed = upset.claimed
        /\ upset'.lost = upset.lost \cup {Period(s)}
        /\ upset' \in [claimed : SUBSET Time, told : BOOLEAN, twice : BOOLEAN, lost : SUBSET Time]
      BY <1>1, <1>4, <2>1 DEF FollowTypes
  <2>3. FollowTypes'
      BY <1>1, <1>2, <2>1, <2>2 DEF FollowTypes
  <2> QED BY <1>1, <1>3, <2>1, <2>2, <2>3, DoneKeeps
<1> QED BY <1>5, <1>6

\* A process that ends loses its period, and nothing else.
LEMMA StopKeeps ==
    ASSUME FollowsAreSound, NEW s \in Sender, Stop(s)
    PROVE  FollowsAreSound'
<1>1. /\ FollowTypes /\ Delivering(s) /\ Rest(s) /\ upset' = [upset EXCEPT !.lost = @ \cup {Period(s)}]
      /\ follow' = follow /\ canOpen' = canOpen /\ time' = time /\ notices' = notices /\ emails' = emails
    BY DEF FollowsAreSound, Stop
<1>2. EmailsAreOfNotices' /\ Period(s) \in Time
    BY <1>1, PeriodsAreMoments DEF FollowsAreSound, EmailsAreOfNotices
<1>3. /\ upset'.told = upset.told /\ upset'.twice = upset.twice /\ upset'.claimed = upset.claimed
      /\ upset'.lost = upset.lost \cup {Period(s)}
      /\ upset' \in [claimed : SUBSET Time, told : BOOLEAN, twice : BOOLEAN, lost : SUBSET Time]
    BY <1>1, <1>2 DEF FollowTypes
<1>4. FollowTypes'
    BY <1>1, <1>3, DoneSpansNothing DEF FollowTypes
<1> QED BY <1>1, <1>2, <1>3, <1>4, DoneKeeps

-----------------------------------------------------------------------------
\* What the reader, or a share taken away, does to the row; and time.
LEMMA RowKeeps ==
    ASSUME FollowsAreSound, FollowTypes', UNCHANGED <<sender, notices, emails, upset>>,
           follow'.last = follow.last, follow'.status # "ended" => follow.status # "ended"
    PROVE  FollowsAreSound'
<1>1. \A s \in Sender : /\ sender'[s] = sender[s] /\ Period(s)' = Period(s)
                        /\ Delivering(s)' = Delivering(s) /\ StillToTell(s)' = StillToTell(s)
    BY DEF Period, Delivering, StillToTell
<1>2. DueBeforeNow' /\ SpansBeforeLast' /\ SpansApart'
    BY <1>1 DEF FollowsAreSound, DueBeforeNow, SpansBeforeLast, SpansApart, Apart
<1>3. ToldLiesBehind' /\ EmailAfterNotice'
    BY <1>1 DEF FollowsAreSound, ToldLiesBehind, EmailAfterNotice
<1>4. OneNoticePerPeriod' /\ EmailsAreOfNotices'
    BY DEF FollowsAreSound, OneNoticePerPeriod, EmailsAreOfNotices
<1>5. NoUpdateLost'
    BY <1>1 DEF FollowsAreSound, NoUpdateLost
<1> QED BY <1>2, <1>3, <1>4, <1>5 DEF FollowsAreSound

\* Pausing, ending and losing the dashboard change no moment.
LEMMA ReadersKeep ==
    ASSUME FollowsAreSound, PauseFollow \/ LoseAccess \/ Unfollow
    PROVE  FollowsAreSound'
<1>1. FollowTypes
    BY DEF FollowsAreSound
<1>2. /\ follow' \in FollowRow /\ canOpen' \in BOOLEAN /\ time' = time
      /\ UNCHANGED <<sender, notices, emails, upset>>
      /\ follow'.last = follow.last
      /\ follow'.status # "ended" => follow.status # "ended"
  <2>1. CASE PauseFollow
      BY <1>1, <2>1 DEF PauseFollow, FollowTypes, FollowRow
  <2>2. CASE LoseAccess
      BY <1>1, <2>2 DEF LoseAccess, FollowTypes, FollowRow
  <2>3. CASE Unfollow
      BY <1>1, <2>3 DEF Unfollow, FollowTypes, FollowRow
  <2> QED BY <2>1, <2>2, <2>3
<1>3. FollowTypes'
    BY <1>1, <1>2 DEF FollowTypes
<1> QED BY <1>2, <1>3, RowKeeps

\* The clock touches nothing else.
LEMMA LaterKeeps ==
    ASSUME FollowsAreSound, Later
    PROVE  FollowsAreSound'
<1>1. FollowTypes'
    BY FollowConstants DEF FollowsAreSound, FollowTypes, Later, Time
<1> QED BY <1>1, RowKeeps DEF Later

\* A follow starts with nothing claimed and nothing told.
LEMMA FollowsStartSound == FollowInit => FollowsAreSound
<1> SUFFICES ASSUME FollowInit PROVE FollowsAreSound
    OBVIOUS
<1>1. 0 \in Time
    BY FollowConstants DEF Time
<1>2. FollowTypes
    BY <1>1, FollowConstants DEF FollowInit, FollowTypes, FollowRow, SenderState, Resting
<1>3. \A s \in Sender : sender[s].at = "idle"
    BY DEF FollowInit, Resting
<1>4. DueBeforeNow /\ SpansBeforeLast /\ SpansApart /\ EmailAfterNotice
    BY <1>3 DEF DueBeforeNow, SpansBeforeLast, SpansApart, EmailAfterNotice, Delivering
<1>5. ToldLiesBehind /\ OneNoticePerPeriod /\ EmailsAreOfNotices /\ NoUpdateLost
    BY DEF FollowInit, ToldLiesBehind, OneNoticePerPeriod, EmailsAreOfNotices, NoUpdateLost
<1> QED BY <1>2, <1>4, <1>5 DEF FollowsAreSound

\* Every step keeps the invariant.
LEMMA FollowsKeepSound == FollowsAreSound /\ [FollowNext]_followVars => FollowsAreSound'
<1> SUFFICES ASSUME FollowsAreSound, [FollowNext]_followVars PROVE FollowsAreSound'
    OBVIOUS
<1>1. ASSUME NEW s \in Sender, SenderStep(s) PROVE FollowsAreSound'
  <2>1. CASE ListFollows(s)
      BY <2>1, ListFollowsKeeps
  <2>2. CASE ClaimFollow(s)
      BY <2>2, ClaimFollowKeeps
  <2>3. CASE Open(s)
      BY <2>3, OpenKeeps
  <2>4. CASE GiveNotice(s)
      BY <2>4, GiveNoticeKeeps
  <2>5. CASE QueueEmail(s)
      BY <2>5, QueueEmailKeeps
  <2>6. CASE ReleaseFollow(s)
      BY <2>6, ReleaseFollowKeeps
  <2>7. CASE Stop(s)
      BY <2>7, StopKeeps
  <2> QED BY <1>1, <2>1, <2>2, <2>3, <2>4, <2>5, <2>6, <2>7 DEF SenderStep
<1>2. CASE PauseFollow \/ LoseAccess \/ Unfollow
    BY <1>2, ReadersKeep
<1>3. CASE Later
    BY <1>3, LaterKeeps
<1>4. CASE UNCHANGED followVars
  <2>1. FollowTypes'
      BY <1>4 DEF FollowsAreSound, FollowTypes, followVars
  <2> QED BY <1>4, <2>1, RowKeeps DEF followVars
<1> QED BY <1>1, <1>2, <1>3, <1>4 DEF FollowNext

-----------------------------------------------------------------------------
\* The invariant holds of every behaviour: of each of its parts, the theorems below.
THEOREM FollowsStaySound == FollowSpec => []FollowsAreSound
<1> QED BY FollowsStartSound, FollowsKeepSound, PTL DEF FollowSpec

\* The rows, the places of the schedulers and the moments are what the code keeps.
THEOREM FollowsHaveTypes == FollowSpec => []FollowTypes
<1>1. FollowsAreSound => FollowTypes
    BY DEF FollowsAreSound
<1> QED BY <1>1, FollowsStaySound, PTL

\* "two schedulers never send the same update twice" (store/dashboard_store.py:986), until a
\* delivery fails that had given its notice.
THEOREM FollowsTellOnce == FollowSpec => []OneNoticePerPeriod
<1>1. FollowsAreSound => OneNoticePerPeriod
    BY DEF FollowsAreSound
<1> QED BY <1>1, FollowsStaySound, PTL

\* A period claimed is told, under way or due again (core/dashboard_follow.py:47-50), whatever
\* the order in which schedulers claim, fail and pause.
THEOREM FollowsLoseNothing == FollowSpec => []NoUpdateLost
<1>1. FollowsAreSound => NoUpdateLost
    BY DEF FollowsAreSound
<1> QED BY <1>1, FollowsStaySound, PTL

\* An email never goes without the notice of its period (core/dashboard_follow.py:54-103).
THEOREM FollowsEmailWhatWasTold == FollowSpec => []EmailsAreOfNotices
<1>1. FollowsAreSound => EmailsAreOfNotices
    BY DEF FollowsAreSound
<1> QED BY <1>1, FollowsStaySound, PTL

-----------------------------------------------------------------------------
(***************************************************************************)
(* The turns of chat messages, for any number of deliveries, messages and  *)
(* users, and any bound on the locks.                                      *)
(*                                                                         *)
(* TurnsAreSound is the inductive invariant.  As long as no clean-up       *)
(* dropped a lock that was waited for, whoever holds a lock or waits for   *)
(* one has the one its user has now, and one alone holds it.  Those in     *)
(* line wait for a lock, and each stands there once.                       *)
(***************************************************************************)

UsesLock(t) == Works(t) \/ turn[t].at \in Waits

\* The parts of the types the proofs use.
TurnsTyped ==
    /\ turn \in [Turn -> TurnState]
    /\ locks \in [User -> LockId \cup {NoLock}]
    /\ seen \subseteq Message
    /\ late \in BOOLEAN
    /\ dropped \in BOOLEAN

LocksInUse == \A t \in Turn : turn[t].lock # NoLock <=> UsesLock(t)

LocksAreCurrent ==
    ~dropped => \A t \in Turn : UsesLock(t) => turn[t].lock = locks[UserOf[t]]

UnderWayIsSeen == ~late => \A t \in Turn : UnderWay(t) => MessageOf[t] \in seen

\* Those in line wait, and each stands there once.
InLine ==
    /\ waiting \in Seq(Turn) /\ IsInjective(waiting)
    /\ \A i \in 1 .. Len(waiting) : turn[waiting[i]].at \in Waits

TurnsAreSound ==
    /\ TurnsTyped
    /\ InLine
    /\ LocksInUse
    /\ LocksAreCurrent
    /\ OneTurnAtATime
    /\ UnderWayIsSeen
    /\ NoRetryMeanwhile

-----------------------------------------------------------------------------
\* There is always a lock nothing refers to: there are more of them than turns.
LEMMA ALockIsFree ==
    ASSUME TurnsTyped, NEW u \in User, locks[u] = NoLock
    PROVE  NewLock(u) \in LockId
<1> DEFINE used == {turn[t].lock : t \in Turn}
<1>1. IsFiniteSet(Turn) /\ Cardinality(Turn) \in Nat
    BY TurnConstants, FS_CardinalityType
<1>2. IsFiniteSet(used) /\ Cardinality(used) <= Cardinality(Turn) /\ Cardinality(used) \in Nat
  <2>1. [t \in Turn |-> turn[t].lock] \in Surjection(Turn, used)
      BY DEF Surjection
  <2>2. IsFiniteSet(used) /\ Cardinality(used) <= Cardinality(Turn)
      BY <1>1, <2>1, FS_Surjection
  <2> QED BY <2>2, FS_CardinalityType
<1>3. IsFiniteSet(LockId) /\ Cardinality(LockId) = Cardinality(Turn) + 1
    BY <1>1, FS_Interval DEF LockId
<1>4. ~(LockId \subseteq used)
    BY <1>1, <1>2, <1>3, FS_Subset
<1>5. PICK l \in LockId : l \notin used
    BY <1>4
<1>6. l # locks[u] /\ \A t \in Turn : UserOf[t] = u => turn[t].lock # l
    BY <1>1, <1>5 DEF LockId, NoLock
<1> QED BY <1>6 DEF NewLock

\* The lock of a user is one.
LEMMA LockOfIsALock ==
    ASSUME TurnsTyped, NEW u \in User
    PROVE  LockOf(u) \in LockId /\ LockOf(u) # NoLock
<1>1. Cardinality(Turn) \in Nat
    BY TurnConstants, FS_CardinalityType
<1>2. LockOf(u) \in LockId
    BY ALockIsFree DEF LockOf, TurnsTyped
<1> QED BY <1>1, <1>2 DEF LockId, NoLock

\* One that did not wait gets in line.
LEMMA OneMoreInLine ==
    ASSUME InLine, NEW t \in Turn, turn[t].at \notin Waits,
           waiting' = Append(waiting, t), turn'[t].at \in Waits,
           \A s \in Turn \ {t} : turn'[s] = turn[s]
    PROVE  InLine'
<1>1. waiting' \in Seq(Turn) /\ Len(waiting') = Len(waiting) + 1 /\ Len(waiting) \in Nat
    BY DEF InLine
<1>2. /\ \A i \in 1 .. Len(waiting) : /\ waiting'[i] = waiting[i] /\ waiting[i] \in Turn
                                      /\ waiting[i] # t
      /\ waiting'[Len(waiting) + 1] = t
    BY DEF InLine
<1>3. IsInjective(waiting')
  <2> SUFFICES ASSUME NEW i \in 1 .. Len(waiting'), NEW j \in 1 .. Len(waiting'),
                      waiting'[i] = waiting'[j]
               PROVE  i = j
      BY <1>1 DEF IsInjective
  <2>1. \A a, b \in 1 .. Len(waiting) : waiting[a] = waiting[b] => a = b
      BY DEF InLine, IsInjective
  <2> QED BY <1>1, <1>2, <2>1
<1>4. \A i \in 1 .. Len(waiting') : turn'[waiting'[i]].at \in Waits
    BY <1>1, <1>2 DEF InLine
<1> QED BY <1>1, <1>3, <1>4 DEF InLine

\* The one that is woken leaves the line.
LEMMA OneLessInLine ==
    ASSUME InLine, NEW t \in Turn, NEW n \in DOMAIN waiting, waiting[n] = t,
           waiting' = RemoveAt(waiting, n), \A s \in Turn \ {t} : turn'[s] = turn[s]
    PROVE  InLine'
<1>1. /\ waiting \in Seq(Turn) /\ Len(waiting) \in Nat /\ n \in 1 .. Len(waiting)
      /\ \A a, b \in 1 .. Len(waiting) : waiting[a] = waiting[b] => a = b
    BY DEF InLine, IsInjective
<1> DEFINE front == SubSeq(waiting, 1, n - 1)
           back == SubSeq(waiting, n + 1, Len(waiting))
<1>2. /\ front \in Seq(Turn) /\ Len(front) = n - 1
      /\ \A i \in 1 .. n - 1 : front[i] = waiting[i]
    BY <1>1
<1>3. /\ back \in Seq(Turn) /\ Len(back) = Len(waiting) - n
      /\ \A i \in 1 .. Len(waiting) - n : back[i] = waiting[n + i]
    BY <1>1
<1>4. waiting' = front \o back
    BY DEF RemoveAt
<1> HIDE DEF front, back
<1>5. waiting' \in Seq(Turn) /\ Len(waiting') = Len(waiting) - 1
    BY <1>1, <1>2, <1>3, <1>4
<1>6. \A i \in 1 .. Len(waiting') : waiting'[i] = IF i < n THEN waiting[i] ELSE waiting[i + 1]
  <2> SUFFICES ASSUME NEW i \in 1 .. Len(waiting')
               PROVE  waiting'[i] = IF i < n THEN waiting[i] ELSE waiting[i + 1]
      OBVIOUS
  <2>1. CASE i < n
      BY <1>1, <1>2, <1>3, <1>4, <1>5, <2>1
  <2>2. CASE ~(i < n)
    <3>1. i - Len(front) \in 1 .. Len(back) /\ n + (i - Len(front)) = i + 1
        BY <1>1, <1>2, <1>3, <1>5, <2>2
    <3>2. waiting'[i] = back[i - Len(front)]
        BY <1>1, <1>2, <1>3, <1>4, <1>5, <2>2
    <3> QED BY <1>2, <1>3, <2>2, <3>1, <3>2
  <2> QED BY <2>1, <2>2
<1>7. IsInjective(waiting')
  <2> SUFFICES ASSUME NEW i \in 1 .. Len(waiting'), NEW j \in 1 .. Len(waiting'),
                      waiting'[i] = waiting'[j]
               PROVE  i = j
      BY <1>5 DEF IsInjective
  <2> QED BY <1>1, <1>5, <1>6
<1>8. \A i \in 1 .. Len(waiting') : turn'[waiting'[i]].at \in Waits
  <2> SUFFICES ASSUME NEW i \in 1 .. Len(waiting') PROVE turn'[waiting'[i]].at \in Waits
      OBVIOUS
  <2>1. PICK k \in 1 .. Len(waiting) : k # n /\ waiting'[i] = waiting[k]
      BY <1>1, <1>5, <1>6
  <2>2. waiting[k] \in Turn /\ waiting[k] # t
      BY <1>1, <2>1
  <2> QED BY <2>1, <2>2 DEF InLine
<1> QED BY <1>5, <1>7, <1>8 DEF InLine

\* The line stays while no one of it moves.
LEMMA LineStays ==
    ASSUME InLine, NEW t, turn[t].at \notin Waits, waiting' = waiting,
           \A s \in Turn \ {t} : turn'[s] = turn[s]
    PROVE  InLine'
<1>1. /\ waiting \in Seq(Turn) /\ IsInjective(waiting)
      /\ \A i \in 1 .. Len(waiting) : waiting[i] \in Turn /\ waiting[i] # t
    BY DEF InLine
<1> QED BY <1>1 DEF InLine

\* A turn whose user's lock is taken or waited for: the others of its user use that lock, and
\* a lock that was dropped is used by nobody.
LEMMA TakeKeeps ==
    ASSUME TurnsAreSound, NEW t \in Turn, NEW at, NEW waits, NEW from, turn[t].at = from,
           \/ from = "accepted" /\ at = "dispatch" /\ waits = "dispatch waits"
           \/ from = "enqueued" /\ at = "answer" /\ waits = "answer waits",
           Take(t, at, waits)
    PROVE  TurnsAreSound'
<1> DEFINE u == UserOf[t]
           l == LockOf(u)
           gone == IF MustClean(u) THEN Cleaned ELSE {}
<1>1. /\ u \in User /\ l \in LockId /\ l # NoLock /\ TurnsTyped
      /\ \A s \in Turn : UserOf[s] \in User
    BY LockOfIsALock DEF TurnsAreSound, User
<1>2. PICK now \in {at, waits} :
          /\ turn' = [turn EXCEPT ![t] = [at |-> now, lock |-> l]]
          /\ now = at => ~Locked(u, l)
          /\ waiting' = waiting \/ (now = waits /\ waiting' = Append(waiting, t))
    BY DEF Take
<1>3. /\ locks' = [v \in User |-> IF v = u THEN l ELSE IF v \in gone THEN NoLock ELSE locks[v]]
      /\ dropped' = (dropped \/ \E v \in gone : Awaited(v, locks[v]))
      /\ seen' = seen /\ late' = late
    BY DEF Take
<1> HIDE DEF u, l, gone
<1>4. /\ turn'[t].at = now /\ turn'[t].lock = l /\ turn'[t] \in TurnState
      /\ \A s \in Turn \ {t} : turn'[s] = turn[s]
    BY <1>1, <1>2 DEF TurnsTyped, TurnState
<1>5. /\ UsesLock(t)' /\ ~UsesLock(t) /\ UnderWay(t) /\ UnderWay(t)'
      /\ \A s \in Turn \ {t} : /\ UsesLock(s)' = UsesLock(s) /\ Works(s)' = Works(s)
                               /\ UnderWay(s)' = UnderWay(s)
    BY <1>2, <1>4 DEF UsesLock, Works, Waits, UnderWay
<1>6. TurnsTyped'
  <2>1. turn' \in [Turn -> TurnState]
      BY <1>1, <1>2, <1>4 DEF TurnsTyped
  <2>2. locks' \in [User -> LockId \cup {NoLock}]
      BY <1>1, <1>3 DEF TurnsTyped
  <2> QED BY <1>1, <1>3, <2>1, <2>2 DEF TurnsTyped
<1>7. LocksInUse'
    BY <1>1, <1>4, <1>5 DEF TurnsAreSound, LocksInUse
<1>8. ASSUME ~dropped', NEW s \in Turn, s # t, UsesLock(s)
      PROVE  turn[s].lock = locks[UserOf[s]] /\ turn[s].lock = locks'[UserOf[s]]
  <2>1. turn[s].lock = locks[UserOf[s]] /\ turn[s].lock # NoLock
      BY <1>3, <1>8 DEF TurnsAreSound, LocksAreCurrent, LocksInUse
  <2>2. CASE UserOf[s] = u
      BY <1>1, <1>3, <2>1, <2>2 DEF l, LockOf
  <2>3. CASE UserOf[s] # u
    <3>1. Locked(UserOf[s], turn[s].lock) \/ Awaited(UserOf[s], turn[s].lock)
        BY <1>8 DEF Locked, Awaited
    <3>2. UserOf[s] \notin gone
        BY <1>3, <1>8, <2>1, <3>1 DEF gone, Cleaned
    <3> QED BY <1>1, <1>3, <2>1, <2>3, <3>2
  <2> QED BY <2>1, <2>2, <2>3
<1>9. LocksAreCurrent'
  <2>1. locks'[u] = l
      BY <1>1, <1>3
  <2> QED BY <1>4, <1>5, <1>8, <2>1 DEF LocksAreCurrent, u
<1>10. OneTurnAtATime'
  <2>1. ASSUME ~dropped', NEW s \in Turn, s # t, UserOf[s] = u, Works(s), Works(t)'
        PROVE  FALSE
    <3>1. now = at
        BY <1>2, <1>4, <2>1 DEF Works
    <3>2. UsesLock(s) /\ turn[s].lock # NoLock /\ turn[s].at \notin Waits
        BY <2>1 DEF UsesLock, Works, Waits, TurnsAreSound, LocksInUse
    <3>3. turn[s].lock = locks[u]
        BY <1>8, <2>1, <3>2
    <3>4. turn[s].lock = l
        BY <3>2, <3>3 DEF l, LockOf
    <3> QED BY <1>2, <2>1, <3>1, <3>2, <3>4 DEF Locked
  <2>2. ASSUME ~dropped', NEW s \in Turn, NEW r \in Turn, UserOf[s] = UserOf[r], s # r,
               Works(s)', Works(r)'
        PROVE  FALSE
    <3>1. CASE s # t /\ r # t
        BY <1>3, <1>5, <2>2, <3>1 DEF TurnsAreSound, OneTurnAtATime
    <3>2. CASE s = t
        BY <1>5, <2>1, <2>2, <3>2 DEF u
    <3>3. CASE r = t
        BY <1>5, <2>1, <2>2, <3>3 DEF u
    <3> QED BY <3>1, <3>2, <3>3
  <2> QED BY <2>2 DEF OneTurnAtATime
<1>11. UnderWayIsSeen' /\ NoRetryMeanwhile'
    BY <1>3, <1>5 DEF TurnsAreSound, UnderWayIsSeen, NoRetryMeanwhile
<1>12. InLine'
  <2>1. InLine /\ turn[t].at \notin Waits
      BY DEF TurnsAreSound, Waits
  <2>2. CASE waiting' = waiting
      BY <1>4, <2>1, <2>2, LineStays
  <2>3. CASE now = waits /\ waiting' = Append(waiting, t)
    <3>1. turn'[t].at \in Waits
        BY <1>4, <2>3 DEF Waits
    <3> QED BY <1>4, <2>1, <2>3, <3>1, OneMoreInLine
  <2> QED BY <1>2, <2>2, <2>3
<1> QED BY <1>6, <1>7, <1>9, <1>10, <1>11, <1>12 DEF TurnsAreSound

\* The first in line runs when nobody works under its lock.
LEMMA WakeKeeps ==
    ASSUME TurnsAreSound, NEW t \in Turn, NEW from, NEW at,
           \/ from = "dispatch waits" /\ at = "dispatch"
           \/ from = "answer waits" /\ at = "answer",
           Wake(t, from, at)
    PROVE  TurnsAreSound'
<1>1. /\ TurnsTyped /\ turn[t].at = from /\ ~Locked(UserOf[t], turn[t].lock)
      /\ turn' = [turn EXCEPT ![t].at = at]
      /\ locks' = locks /\ seen' = seen /\ late' = late /\ dropped' = dropped
    BY DEF TurnsAreSound, Wake
<1>2. /\ turn'[t].at = at /\ turn'[t].lock = turn[t].lock /\ turn'[t] \in TurnState
      /\ \A s \in Turn \ {t} : turn'[s] = turn[s]
    BY <1>1 DEF TurnsTyped, TurnState
<1>3. /\ UsesLock(t)' /\ UsesLock(t) /\ UnderWay(t) /\ UnderWay(t)'
      /\ \A s \in Turn \ {t} : /\ UsesLock(s)' = UsesLock(s) /\ Works(s)' = Works(s)
                               /\ UnderWay(s)' = UnderWay(s)
    BY <1>1, <1>2 DEF UsesLock, Works, Waits, UnderWay
<1>4. TurnsTyped'
  <2>1. turn' \in [Turn -> TurnState]
      BY <1>1, <1>2 DEF TurnsTyped
  <2> QED BY <1>1, <2>1 DEF TurnsTyped
<1>5. LocksInUse' /\ LocksAreCurrent'
    BY <1>1, <1>2, <1>3 DEF TurnsAreSound, LocksInUse, LocksAreCurrent
<1>6. OneTurnAtATime'
  <2>1. ASSUME ~dropped, NEW s \in Turn, s # t, UserOf[s] = UserOf[t], Works(s)
        PROVE  FALSE
    <3>1. turn[s].lock = turn[t].lock /\ turn[s].at \notin Waits
        BY <1>3, <2>1 DEF TurnsAreSound, LocksAreCurrent, UsesLock, Works, Waits
    <3> QED BY <1>1, <2>1, <3>1 DEF Locked
  <2> QED BY <1>1, <1>3, <2>1 DEF TurnsAreSound, OneTurnAtATime
<1>7. UnderWayIsSeen' /\ NoRetryMeanwhile'
    BY <1>1, <1>3 DEF TurnsAreSound, UnderWayIsSeen, NoRetryMeanwhile
<1>8. InLine'
  <2>1. PICK i \in DOMAIN waiting : waiting[i] = t /\ waiting' = RemoveAt(waiting, i)
      BY DEF Wake, FirstInLine
  <2>2. InLine
      BY DEF TurnsAreSound
  <2> QED BY <1>2, <2>1, <2>2, OneLessInLine
<1> QED BY <1>4, <1>5, <1>6, <1>7, <1>8 DEF TurnsAreSound

\* A lock let go is used by its turn no longer.
LEMMA EndKeeps ==
    ASSUME TurnsAreSound, NEW t \in Turn, EndDispatch(t) \/ EndTurn(t)
    PROVE  TurnsAreSound'
<1>1. PICK at \in {"enqueued", "done"} : turn' = [turn EXCEPT ![t] = [at |-> at, lock |-> NoLock]]
    BY DEF EndDispatch, EndTurn
<1>2. /\ TurnsTyped /\ UnderWay(t)
      /\ locks' = locks /\ seen' = seen /\ late' = late /\ dropped' = dropped
    BY DEF TurnsAreSound, EndDispatch, EndTurn, UnderWay
<1>3. /\ turn'[t].at = at /\ turn'[t].lock = NoLock /\ turn'[t] \in TurnState
      /\ \A s \in Turn \ {t} : turn'[s] = turn[s]
    BY <1>1, <1>2 DEF TurnsTyped, TurnState
<1>4. /\ ~UsesLock(t)' /\ ~Works(t)'
      /\ \A s \in Turn \ {t} : /\ UsesLock(s)' = UsesLock(s) /\ Works(s)' = Works(s)
                               /\ UnderWay(s)' = UnderWay(s)
    BY <1>1, <1>3 DEF UsesLock, Works, Waits, UnderWay
<1>5. TurnsTyped'
  <2>1. turn' \in [Turn -> TurnState]
      BY <1>1, <1>2, <1>3 DEF TurnsTyped
  <2> QED BY <1>2, <2>1 DEF TurnsTyped
<1>6. LocksInUse' /\ LocksAreCurrent' /\ OneTurnAtATime'
    BY <1>2, <1>3, <1>4 DEF TurnsAreSound, LocksInUse, LocksAreCurrent, OneTurnAtATime
<1>7. UnderWayIsSeen' /\ NoRetryMeanwhile'
    BY <1>2, <1>4 DEF TurnsAreSound, UnderWayIsSeen, NoRetryMeanwhile
<1>8. InLine'
  <2>1. InLine /\ turn[t].at \notin Waits /\ waiting' = waiting
      BY DEF TurnsAreSound, EndDispatch, EndTurn, Waits
  <2> QED BY <1>3, <2>1, LineStays
<1> QED BY <1>5, <1>6, <1>7, <1>8 DEF TurnsAreSound

\* A delivery is taken in only when no other of its message is under way, or one was forgotten.
LEMMA DeliverKeeps ==
    ASSUME TurnsAreSound, NEW t \in Turn, Deliver(t)
    PROVE  TurnsAreSound'
<1>1. /\ TurnsTyped /\ turn[t].at = "new" /\ MessageOf[t] \in Message
      /\ turn' = [turn EXCEPT ![t].at = IF MessageOf[t] \in seen THEN "done" ELSE "accepted"]
      /\ seen' = seen \cup {MessageOf[t]} /\ locks' = locks /\ late' = late /\ dropped' = dropped
    BY DEF TurnsAreSound, Deliver, Message
<1>2. /\ turn'[t].at = (IF MessageOf[t] \in seen THEN "done" ELSE "accepted")
      /\ turn'[t].lock = turn[t].lock /\ turn'[t] \in TurnState
      /\ \A s \in Turn \ {t} : turn'[s] = turn[s]
    BY <1>1 DEF TurnsTyped, TurnState
<1>3. /\ ~UsesLock(t)' /\ ~UsesLock(t) /\ ~Works(t)' /\ (UnderWay(t)' => MessageOf[t] \notin seen)
      /\ \A s \in Turn \ {t} : /\ UsesLock(s)' = UsesLock(s) /\ Works(s)' = Works(s)
                               /\ UnderWay(s)' = UnderWay(s)
  <2>1. turn'[t].at \in {"done", "accepted"} /\ (turn'[t].at = "accepted" => MessageOf[t] \notin seen)
      BY <1>2
  <2>2. ~UsesLock(t)' /\ ~UsesLock(t) /\ ~Works(t)'
      BY <1>1, <2>1 DEF UsesLock, Works, Waits
  <2>3. UnderWay(t)' => MessageOf[t] \notin seen
      BY <2>1 DEF UnderWay
  <2>4. \A s \in Turn \ {t} : /\ UsesLock(s)' = UsesLock(s) /\ Works(s)' = Works(s)
                               /\ UnderWay(s)' = UnderWay(s)
      BY <1>2 DEF UsesLock, Works, UnderWay
  <2> QED BY <2>2, <2>3, <2>4
<1>4. TurnsTyped'
  <2>1. turn' \in [Turn -> TurnState]
      BY <1>1, <1>2 DEF TurnsTyped
  <2> QED BY <1>1, <2>1 DEF TurnsTyped
<1>5. LocksInUse' /\ LocksAreCurrent' /\ OneTurnAtATime'
    BY <1>1, <1>2, <1>3 DEF TurnsAreSound, LocksInUse, LocksAreCurrent, OneTurnAtATime
<1>6. UnderWayIsSeen'
    BY <1>1, <1>3 DEF TurnsAreSound, UnderWayIsSeen
<1>7. NoRetryMeanwhile'
    BY <1>1, <1>3 DEF TurnsAreSound, UnderWayIsSeen, NoRetryMeanwhile
<1>8. InLine'
  <2>1. InLine /\ turn[t].at \notin Waits /\ waiting' = waiting
      BY <1>1 DEF TurnsAreSound, Deliver, Waits
  <2> QED BY <1>2, <2>1, LineStays
<1> QED BY <1>4, <1>5, <1>6, <1>7, <1>8 DEF TurnsAreSound

\* A message forgotten while a turn of it is under way is noted.
LEMMA ExpireKeeps ==
    ASSUME TurnsAreSound, NEW m \in Message, Expire(m)
    PROVE  TurnsAreSound'
<1>1. /\ seen' = seen \ {m} /\ turn' = turn /\ locks' = locks /\ dropped' = dropped
      /\ late' = (late \/ \E t \in Turn : MessageOf[t] = m /\ turn[t].at \notin {"new", "done"})
    BY DEF Expire
<1>2. TurnsTyped' /\ LocksInUse' /\ LocksAreCurrent' /\ OneTurnAtATime'
    BY <1>1 DEF TurnsAreSound, TurnsTyped, LocksInUse, LocksAreCurrent, OneTurnAtATime, UsesLock, Works
<1>3. UnderWayIsSeen' /\ NoRetryMeanwhile'
    BY <1>1 DEF TurnsAreSound, UnderWayIsSeen, NoRetryMeanwhile, UnderWay
<1>4. InLine'
    BY <1>1 DEF TurnsAreSound, InLine, Expire
<1> QED BY <1>2, <1>3, <1>4 DEF TurnsAreSound

\* Nothing is under way at first.
LEMMA TurnsStartSound == TurnInit => TurnsAreSound
<1> SUFFICES ASSUME TurnInit PROVE TurnsAreSound
    OBVIOUS
<1>1. \A t \in Turn : turn[t].at = "new" /\ turn[t].lock = NoLock
    BY DEF TurnInit
<1>2. TurnsTyped
    BY DEF TurnInit, TurnsTyped, TurnState
<1>3. LocksInUse /\ LocksAreCurrent /\ OneTurnAtATime
    BY <1>1 DEF LocksInUse, LocksAreCurrent, OneTurnAtATime, UsesLock, Works, Waits
<1>4. UnderWayIsSeen /\ NoRetryMeanwhile
    BY <1>1 DEF UnderWayIsSeen, NoRetryMeanwhile, UnderWay
<1>5. InLine
    BY DEF TurnInit, InLine, IsInjective
<1> QED BY <1>2, <1>3, <1>4, <1>5 DEF TurnsAreSound

\* Every step keeps the invariant.
LEMMA TurnsKeepSound == TurnsAreSound /\ [TurnNext]_turnVars => TurnsAreSound'
<1> SUFFICES ASSUME TurnsAreSound, [TurnNext]_turnVars PROVE TurnsAreSound'
    OBVIOUS
<1>1. ASSUME NEW t \in Turn, GoesOn(t) PROVE TurnsAreSound'
  <2>1. CASE TakeDispatch(t)
      BY <2>1, TakeKeeps DEF TakeDispatch
  <2>2. CASE WakeDispatch(t)
      BY <2>2, WakeKeeps DEF WakeDispatch
  <2>3. CASE EndDispatch(t) \/ EndTurn(t)
      BY <2>3, EndKeeps
  <2>4. CASE TakeAnswer(t)
      BY <2>4, TakeKeeps DEF TakeAnswer
  <2>5. CASE WakeAnswer(t)
      BY <2>5, WakeKeeps DEF WakeAnswer
  <2> QED BY <1>1, <2>1, <2>2, <2>3, <2>4, <2>5 DEF GoesOn
<1>2. CASE UNCHANGED turnVars
  <2>1. turn' = turn /\ locks' = locks /\ seen' = seen /\ late' = late /\ dropped' = dropped
      BY <1>2 DEF turnVars
  <2>2. TurnsTyped' /\ LocksInUse' /\ LocksAreCurrent' /\ OneTurnAtATime'
      BY <2>1 DEF TurnsAreSound, TurnsTyped, LocksInUse, LocksAreCurrent, OneTurnAtATime, UsesLock, Works
  <2>3. UnderWayIsSeen' /\ NoRetryMeanwhile'
      BY <2>1 DEF TurnsAreSound, UnderWayIsSeen, NoRetryMeanwhile, UnderWay
  <2>4. InLine'
      BY <1>2 DEF TurnsAreSound, InLine, turnVars
  <2> QED BY <2>2, <2>3, <2>4 DEF TurnsAreSound
<1> QED BY <1>1, <1>2, DeliverKeeps, ExpireKeeps DEF TurnNext

-----------------------------------------------------------------------------
\* The invariant holds of every behaviour: of each of its parts, the theorems below.
THEOREM TurnsStaySound == TurnSpec => []TurnsAreSound
<1> QED BY TurnsStartSound, TurnsKeepSound, PTL DEF TurnSpec

\* Until a clean-up drops a lock somebody waits for, one user's dispatches and answers never
\* run at once (core/dispatcher.py:754), however the locks are made, dropped and made again.
THEOREM TurnsAreTakenOneByOne == TurnSpec => []OneTurnAtATime
<1>1. TurnsAreSound => OneTurnAtATime
    BY DEF TurnsAreSound
<1> QED BY <1>1, TurnsStaySound, PTL

\* A retry of a message is not taken in while its first delivery is under way and remembered
\* (core/webhook_dedup.py:98-124).
THEOREM TurnsTakeNoRetry == TurnSpec => []NoRetryMeanwhile
<1>1. TurnsAreSound => NoRetryMeanwhile
    BY DEF TurnsAreSound
<1> QED BY <1>1, TurnsStaySound, PTL
=============================================================================
