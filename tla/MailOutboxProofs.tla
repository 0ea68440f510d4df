-------------------------- MODULE MailOutboxProofs --------------------------
(***************************************************************************)
(* Theorems about MailOutbox: its types, what the outbox guarantees of a    *)
(* message nobody lost track of, and that it implements MailContract.       *)
(***************************************************************************)
EXTENDS MailOutbox, TLAPS

USE DEF Email, Many

\* Where the threads start: facts about the two records they are reset to.
LEMMA IdleTypes == NoCaller \in CallerState /\ NoSender \in SenderState
<1>1. (CHOOSE m \in Message : TRUE) \in Message
  BY OutboxConstants
<1>2. 1 \in 1 .. LastEmail + 1
  BY OutboxConstants
<1>. QED
  BY <1>1, <1>2, OutboxConstants DEF NoCaller, NoSender, CallerState, SenderState, Answer

\* A sender's record stays one when it takes up a row.
LEMMA TakesUp ==
  ASSUME NEW r \in SenderState, NEW e \in Email, NEW b \in BOOLEAN
  PROVE  /\ [r EXCEPT !.at = "claimed", !.email = e] \in SenderState
         /\ [r EXCEPT !.at = "claimed", !.email = e, !.ready = b] \in SenderState
<1>1. e \in 1 .. LastEmail + 1
  BY OutboxConstants
<1>. QED
  BY <1>1 DEF SenderState

\* The tables start well typed.
LEMMA InitTypes == Init => TypeOK
<1>. SUFFICES ASSUME Init PROVE TypeOK
  OBVIOUS
<1>1. (CHOOSE m \in Message : TRUE) \in Message
  BY OutboxConstants
<1>. QED
  BY <1>1, IdleTypes, OutboxConstants DEF Init, TypeOK, Status

-----------------------------------------------------------------------------
\* Every action keeps the types; the row a thread works on exists, so what is written
\* there is written to a row.
LEMMA StepTypes ==
  ASSUME TypeOK, ThreadsOnRows, [Next]_vars
  PROVE  TypeOK'
<1>. USE OutboxConstants, IdleTypes DEF TypeOK
<1>1. ASSUME NEW c \in Caller, NEW m \in Message, QueueDecide(c, m)
      PROVE  TypeOK'
  <2>1. Refused(m) \in BOOLEAN
    BY DEF Refused, Unwelcome
  <2>. QED
    BY <1>1, <2>1 DEF QueueDecide, rowVars, worldVars, mailVars, countVars, CallerState
<1>2. ASSUME NEW c \in Caller, QueueLookup(c)
      PROVE  TypeOK'
  BY <1>2 DEF QueueLookup, rowVars, worldVars, mailVars, countVars, CallerState
<1>3. ASSUME NEW c \in Caller, QueueInsert(c)
      PROVE  TypeOK'
  <2>. DEFINE m == caller[c].message
  <2>1. PICK e \in Email :
          /\ status' = [status EXCEPT ![e] = IF caller[c].skip THEN "skipped" ELSE "queued"]
          /\ content' = [content EXCEPT ![e] = m]
          /\ attempts' = [attempts EXCEPT ![e] = 0]
          /\ due' = due \cup {e}
          /\ caller' = [caller EXCEPT ![c] = IF m \in WithFiles
                                             THEN [@ EXCEPT !.at = "inserted", !.email = e]
                                             ELSE NoCaller]
    BY <1>3 DEF QueueInsert
  <2>2. e \in 1 .. LastEmail + 1 /\ caller[c] \in CallerState
    OBVIOUS
  <2>3. caller' \in [Caller -> CallerState]
    BY <2>1, <2>2 DEF CallerState
  <2>4. /\ status' \in [Email -> Status] /\ content' \in [Email -> Message] /\ due' \subseteq Email
        /\ attempts' \in [Email -> 0 .. Backoffs + 1]
    BY <2>1, <2>2 DEF Status, CallerState
  <2>. QED
    BY <1>3, <2>3, <2>4 DEF QueueInsert, worldVars, mailVars, countVars
<1>4. ASSUME NEW c \in Caller, QueueRefused(c)
      PROVE  TypeOK'
  BY <1>4 DEF QueueRefused, rowVars, worldVars, mailVars, countVars
<1>5. ASSUME NEW c \in Caller, QueueAttach(c)
      PROVE  TypeOK'
  <2>1. caller[c].email \in Email
    BY <1>5 DEF QueueAttach, ThreadsOnRows
  <2>. QED
    BY <1>5, <2>1 DEF QueueAttach, worldVars, mailVars, countVars
<1>6. ASSUME NEW s \in Scheduler, ReleaseStuck(s)
      PROVE  TypeOK'
  BY <1>6 DEF ReleaseStuck, Stuck, Sender, Status, SenderState, worldVars, countVars
<1>7. ASSUME NEW s \in Sender, ReadDue(s)
      PROVE  TypeOK'
  <2>1. DueEmails \in SUBSET Email
    BY DEF DueEmails, Waiting
  <2>. QED
    BY <1>7, <2>1 DEF ReadDue, SenderState, rowVars, worldVars, mailVars, countVars
<1>8. ASSUME NEW e \in Email, Claim(e)
      PROVE  /\ status' \in [Email -> Status] /\ content' \in [Email -> Message]
             /\ attempts' \in [Email -> 0 .. Backoffs + 1]
             /\ due' \subseteq Email /\ aged' \subseteq Email /\ filed' \subseteq Email
  BY <1>8 DEF Claim, Status
<1>9. ASSUME NEW s \in Sender, ClaimNext(s)
      PROVE  TypeOK'
  <2>1. PICK e \in sender[s].todo :
          \/ /\ Claim(e)
             /\ sender' = [sender EXCEPT ![s] = [Without(s, e) EXCEPT !.at = "claimed",
                                                                     !.email = e]]
          \/ /\ sender' = [sender EXCEPT ![s] = Without(s, e)]
             /\ UNCHANGED rowVars
    BY <1>9 DEF ClaimNext
  <2>2. e \in Email
    BY DEF SenderState
  <2>3. Without(s, e) \in SenderState
    BY DEF Without, SenderState
  <2>4. [Without(s, e) EXCEPT !.at = "claimed", !.email = e] \in SenderState
    BY <2>2, <2>3, TakesUp
  <2>6. sender' \in [Sender -> SenderState]
    BY <2>1, <2>3, <2>4
  <2>. QED
    BY <1>9, <2>1, <2>2, <2>6, <1>8 DEF ClaimNext, rowVars, worldVars, mailVars, countVars
<1>10. ASSUME NEW s \in Sender, EndPass(s)
       PROVE  TypeOK'
  BY <1>10 DEF EndPass, rowVars, worldVars, mailVars, countVars
<1>11. ASSUME NEW s \in Request, NEW e \in Email, SendNow(s, e)
       PROVE  TypeOK'
  <2>1. [NoSender EXCEPT !.at = "claimed", !.email = e, !.ready = configured] \in SenderState
    BY TakesUp
  <2>2. sender' \in [Sender -> SenderState]
    BY <1>11, <2>1 DEF SendNow, Sender
  <2>. QED
    BY <1>11, <1>8, <2>2 DEF SendNow, worldVars, mailVars, countVars
<1>12. ASSUME NEW s \in Sender, Attempt(s)
       PROVE  TypeOK'
  <2>. DEFINE e == sender[s].email
  <2>1. e \in Email
    BY <1>12 DEF Attempt, ThreadsOnRows
  <2>2. PICK answer \in Answers(s), arrived \in BOOLEAN :
          /\ sender' = [sender EXCEPT ![s] = [@ EXCEPT !.at = "answered", !.answer = answer,
                                                       !.tries = attempts[e]]]
          /\ copies' = [copies EXCEPT ![e] = IF arrived /\ @ < Many THEN @ + 1 ELSE @]
          /\ bare' = IF arrived /\ content[e] \in WithFiles /\ e \notin filed
                     THEN bare \cup {e} ELSE bare
          /\ disturbed' = IF arrived /\ answer # "accepted" THEN disturbed \cup {e} ELSE disturbed
    BY <1>12 DEF Attempt, Arrival
  <2>3. answer \in Answer
    BY DEF Answers, Answer
  <2>4. sender' \in [Sender -> SenderState]
    BY <2>1, <2>2, <2>3 DEF SenderState
  <2>5. copies' \in [Email -> 0 .. Many] /\ bare' \subseteq Email /\ disturbed' \subseteq Email
    BY <2>1, <2>2
  <2>. QED
    BY <1>12, <2>4, <2>5 DEF Attempt, rowVars, worldVars, countVars
<1>13. ASSUME NEW s \in Sender, Record(s)
       PROVE  TypeOK'
  <2>1. Outcome(s) \in Status
    BY DEF Outcome, Status
  <2>2. NextOfPass(s) \in SenderState
    BY DEF NextOfPass, SenderState
  <2>3. status' \in [Email -> Status] /\ due' \subseteq Email /\ aged' \subseteq Email
    BY <1>13, <2>1 DEF Record
  <2>4. sender' \in [Sender -> SenderState]
    BY <1>13, <2>2 DEF Record
  <2>. QED
    BY <1>13, <2>3, <2>4 DEF Record, worldVars, mailVars, countVars
<1>14. ASSUME NEW e \in Email, Requeue(e)
       PROVE  TypeOK'
  BY <1>14 DEF Requeue, Status, worldVars, mailVars
<1>15. ASSUME NEW on \in BOOLEAN, NEW out \in DomainRules, SaveSettings(on, out)
       PROVE  TypeOK'
  BY <1>15 DEF SaveSettings, rowVars, mailVars, countVars
<1>16. ASSUME NEW m \in Stoppable, OptOut(m) \/ OptBackIn(m)
       PROVE  TypeOK'
  BY <1>16 DEF OptOut, OptBackIn, rowVars, mailVars, countVars
<1>17. ASSUME NEW e \in Email, ClaimAges(e) \/ BackoffEnds(e)
       PROVE  TypeOK'
  BY <1>17 DEF ClaimAges, BackoffEnds, worldVars, mailVars, countVars
<1>18. ASSUME NEW s \in Sender, SenderStops(s)
       PROVE  TypeOK'
  BY <1>18 DEF SenderStops, rowVars, worldVars, mailVars
<1>19. ASSUME NEW c \in Caller, CallerStops(c)
       PROVE  TypeOK'
  BY <1>19 DEF CallerStops, rowVars, worldVars, mailVars
<1>20. CASE UNCHANGED vars
  BY <1>20 DEF vars, rowVars, worldVars, mailVars, countVars
<1>. QED
  BY <1>1, <1>2, <1>3, <1>4, <1>5, <1>6, <1>7, <1>9, <1>10, <1>11, <1>12, <1>13, <1>14,
     <1>15, <1>16, <1>17, <1>18, <1>19, <1>20 DEF Next, Queueing, Sending

-----------------------------------------------------------------------------
\* A row is never taken out of the outbox, and the mail service never gives a copy back.
LEMMA RowsStay ==
  ASSUME TypeOK, ThreadsOnRows, [Next]_vars, NEW e \in Email
  PROVE  /\ status[e] # "none" => status'[e] # "none"
         /\ copies[e] > 0 => copies'[e] > 0
<1>. USE DEF TypeOK
<1>1. ASSUME NEW c \in Caller, QueueInsert(c)
      PROVE  status[e] # "none" => status'[e] # "none"
  BY <1>1 DEF QueueInsert
<1>2. ASSUME NEW s \in Scheduler, ReleaseStuck(s)
      PROVE  status[e] # "none" => status'[e] # "none"
  BY <1>2 DEF ReleaseStuck
<1>3. ASSUME NEW f \in Email, Claim(f)
      PROVE  status[e] # "none" => status'[e] # "none"
  BY <1>3 DEF Claim
<1>4. ASSUME NEW s \in Sender, ClaimNext(s)
      PROVE  status[e] # "none" => status'[e] # "none"
  <2>1. PICK f \in sender[s].todo : Claim(f) \/ UNCHANGED rowVars
    BY <1>4 DEF ClaimNext
  <2>2. f \in Email
    BY DEF SenderState
  <2>. QED
    BY <1>3, <2>1, <2>2 DEF rowVars
<1>5. ASSUME NEW s \in Sender, Attempt(s)
      PROVE  copies[e] > 0 => copies'[e] > 0
  <2>1. sender[s].email \in Email
    BY <1>5 DEF Attempt, ThreadsOnRows
  <2>. QED
    BY <1>5, <2>1 DEF Attempt
<1>6. ASSUME NEW s \in Sender, Record(s)
      PROVE  status[e] # "none" => status'[e] # "none"
  BY <1>6 DEF Record, Outcome
<1>7. ASSUME NEW f \in Email, Requeue(f)
      PROVE  status[e] # "none" => status'[e] # "none"
  BY <1>7 DEF Requeue
<1>. QED
  BY <1>1, <1>2, <1>3, <1>4, <1>5, <1>6, <1>7
  DEF Next, vars, rowVars, mailVars, Queueing, Sending, QueueDecide, QueueLookup, QueueInsert,
      QueueRefused, QueueAttach, ReleaseStuck, ReadDue, ClaimNext, EndPass, SendNow, Attempt, Record,
      Requeue, SaveSettings, OptOut, OptBackIn, ClaimAges, BackoffEnds, SenderStops, CallerStops

\* The rows threads work on exist, and an accepted answer stands for a copy.
LEMMA StepThreads ==
  ASSUME TypeOK, ThreadsOnRows, [Next]_vars
  PROVE  ThreadsOnRows'
<1>. USE DEF TypeOK
<1>1. ASSUME NEW c \in Caller, NEW m \in Message, QueueDecide(c, m)
      PROVE  ThreadsOnRows'
  BY <1>1 DEF QueueDecide, ThreadsOnRows, rowVars, mailVars
<1>2. ASSUME NEW c \in Caller, QueueLookup(c) \/ QueueRefused(c) \/ QueueAttach(c) \/ CallerStops(c)
      PROVE  ThreadsOnRows'
  <2>1. /\ UNCHANGED <<sender, status, copies>>
        /\ \/ caller' = [caller EXCEPT ![c] = NoCaller]
           \/ caller' = [caller EXCEPT ![c] = [@ EXCEPT !.at = "looked"]]
    BY <1>2 DEF QueueLookup, QueueRefused, QueueAttach, CallerStops, rowVars, mailVars
  <2>. QED
    <3>1. caller'[c].at # "inserted"
      BY <2>1 DEF NoCaller, CallerState
    <3>2. \A d \in Caller \ {c} : caller'[d] = caller[d]
      BY <2>1
    <3>. QED
      BY <2>1, <3>1, <3>2 DEF ThreadsOnRows
<1>3. ASSUME NEW c \in Caller, QueueInsert(c)
      PROVE  ThreadsOnRows'
  <2>1. PICK e \in Email :
          /\ status' = [status EXCEPT ![e] = IF caller[c].skip THEN "skipped" ELSE "queued"]
          /\ \/ caller' = [caller EXCEPT ![c] = NoCaller]
             \/ caller' = [caller EXCEPT ![c] = [@ EXCEPT !.at = "inserted", !.email = e]]
    BY <1>3 DEF QueueInsert
  <2>2. status'[e] # "none" /\ UNCHANGED <<sender, copies>>
    BY <1>3, <2>1 DEF QueueInsert, mailVars
  <2>. QED
    <3>1. caller'[c].at = "inserted" => caller'[c].email = e
      <4>1. CASE caller' = [caller EXCEPT ![c] = NoCaller]
        BY <4>1 DEF NoCaller
      <4>2. CASE caller' = [caller EXCEPT ![c] = [@ EXCEPT !.at = "inserted", !.email = e]]
        BY <4>2 DEF CallerState
      <4>. QED
        BY <2>1, <4>1, <4>2
    <3>2. \A d \in Caller \ {c} : caller'[d] = caller[d]
      BY <2>1
    <3>3. \A f \in Email : status[f] # "none" => status'[f] # "none"
      BY RowsStay
    <3>. HIDE DEF TypeOK
    <3>4. \A d \in Caller : caller'[d].at = "inserted"
            => caller'[d].email \in Email /\ status'[caller'[d].email] # "none"
      BY <2>2, <3>1, <3>2, <3>3 DEF ThreadsOnRows
    <3>5. \A t \in Sender : sender[t].at \in {"claimed", "answered"}
            => sender[t].email \in Email /\ status'[sender[t].email] # "none"
      BY <3>3 DEF ThreadsOnRows
    <3>. QED
      BY <2>2, <3>4, <3>5 DEF ThreadsOnRows
<1>4. ASSUME NEW s \in Sender, UNCHANGED caller,
             sender'[s].at \notin {"claimed", "answered"},
             \A t \in Sender \ {s} : sender'[t] = sender[t]
      PROVE  ThreadsOnRows'
  BY <1>4, RowsStay DEF ThreadsOnRows
<1>5. ASSUME NEW s \in Sender, UNCHANGED caller, NEW e \in Email, status'[e] # "none",
             sender'[s].at = "claimed", sender'[s].email = e,
             \A t \in Sender \ {s} : sender'[t] = sender[t]
      PROVE  ThreadsOnRows'
  BY <1>5, RowsStay DEF ThreadsOnRows
<1>6. ASSUME NEW s \in Sender, ReleaseStuck(s) \/ ReadDue(s) \/ EndPass(s) \/ Record(s) \/ SenderStops(s)
      PROVE  ThreadsOnRows'
  <2>1. sender'[s].at \notin {"claimed", "answered"}
    <3>1. CASE ReleaseStuck(s)
      BY <3>1 DEF ReleaseStuck, SenderState
    <3>2. CASE ReadDue(s)
      BY <3>2 DEF ReadDue, SenderState
    <3>3. CASE EndPass(s) \/ SenderStops(s)
      BY <3>3 DEF EndPass, SenderStops, NoSender
    <3>4. CASE Record(s)
      BY <3>4 DEF Record, NextOfPass, NoSender
    <3>. QED
      BY <1>6, <3>1, <3>2, <3>3, <3>4
  <2>2. UNCHANGED caller /\ \A t \in Sender \ {s} : sender'[t] = sender[t]
    BY <1>6 DEF ReleaseStuck, ReadDue, EndPass, Record, SenderStops
  <2>. QED
    BY <1>4, <2>1, <2>2
<1>7. ASSUME NEW s \in Sender, ClaimNext(s)
       PROVE  ThreadsOnRows'
  <2>1. PICK e \in sender[s].todo :
          \/ /\ Claim(e)
             /\ sender' = [sender EXCEPT ![s] = [Without(s, e) EXCEPT !.at = "claimed",
                                                                     !.email = e]]
          \/ sender' = [sender EXCEPT ![s] = Without(s, e)]
    BY <1>7 DEF ClaimNext
  <2>2. e \in Email /\ UNCHANGED caller /\ sender[s].at = "batch"
    BY <1>7 DEF SenderState, ClaimNext
  <2>3. CASE sender' = [sender EXCEPT ![s] = Without(s, e)]
    BY <1>4, <2>2, <2>3 DEF Without
  <2>4. CASE Claim(e) /\ sender' = [sender EXCEPT ![s] = [Without(s, e) EXCEPT !.at = "claimed",
                                                                             !.email = e]]
    <3>1. sender'[s].at = "claimed" /\ sender'[s].email = e /\ status'[e] # "none"
      BY <2>2, <2>4 DEF Without, Claim, SenderState
    <3>. QED
      BY <1>5, <2>2, <2>4, <3>1
  <2>. QED
    BY <2>1, <2>3, <2>4
<1>8. ASSUME NEW s \in Request, NEW e \in Email, SendNow(s, e)
       PROVE  ThreadsOnRows'
  <2>1. sender'[s].at = "claimed" /\ sender'[s].email = e /\ status'[e] # "none" /\ s \in Sender
    BY <1>8 DEF SendNow, Claim, NoSender, Sender
  <2>. QED
    BY <1>5, <1>8, <2>1 DEF SendNow
<1>9. ASSUME NEW s \in Sender, Attempt(s)
       PROVE  ThreadsOnRows'
  <2>. DEFINE e == sender[s].email
  <2>1. e \in Email /\ status[e] # "none"
    BY <1>9 DEF Attempt, ThreadsOnRows
  <2>2. PICK answer \in Answers(s), arrived \in BOOLEAN :
          /\ arrived \in Arrival(s, answer)
          /\ sender' = [sender EXCEPT ![s] = [@ EXCEPT !.at = "answered", !.answer = answer,
                                                       !.tries = attempts[e]]]
          /\ copies' = [copies EXCEPT ![e] = IF arrived /\ @ < Many THEN @ + 1 ELSE @]
    BY <1>9 DEF Attempt, Arrival
  <2>3. /\ sender'[s].email = e /\ sender'[s].answer = answer
        /\ \A t \in Sender \ {s} : sender'[t] = sender[t]
    BY <2>2 DEF SenderState
  <2>4. answer = "accepted" => copies'[e] > 0
    <3>1. answer = "accepted" => arrived = TRUE
      BY <2>2 DEF Arrival
    <3>2. copies[e] \in 0 .. 2
      BY <2>1
    <3>3. arrived = TRUE => copies'[e] = IF copies[e] < 2 THEN copies[e] + 1 ELSE copies[e]
      BY <2>1, <2>2
    <3>. QED
      BY <3>1, <3>2, <3>3
  <2>5. UNCHANGED <<caller, status>>
    BY <1>9 DEF Attempt, rowVars
  <2>. QED
    BY <2>1, <2>3, <2>4, <2>5, RowsStay DEF ThreadsOnRows
<1>10. ASSUME UNCHANGED <<caller, sender>>
       PROVE  ThreadsOnRows'
  BY <1>10, RowsStay DEF ThreadsOnRows
<1>11. Scheduler \subseteq Sender
  BY DEF Sender
<1>. QED
  BY <1>1, <1>2, <1>3, <1>6, <1>7, <1>8, <1>9, <1>10, <1>11
  DEF Next, Queueing, Sending, Requeue, SaveSettings, OptOut, OptBackIn, ClaimAges, BackoffEnds, vars

-----------------------------------------------------------------------------
\* A row logged as sent has gone: mark_sent only follows an accepted answer.
LEMMA StepSent ==
  ASSUME TypeOK, ThreadsOnRows, SentHasGone, [Next]_vars
  PROVE  SentHasGone'
<1>. SUFFICES ASSUME NEW e \in Email, status'[e] = "sent"
              PROVE  copies'[e] > 0
  BY DEF SentHasGone
<1>1. CASE status[e] = "sent"
  BY <1>1, RowsStay DEF SentHasGone
<1>2. CASE status[e] # "sent"
  <2>. USE <1>2 DEF TypeOK
  <2>1. ASSUME NEW s \in Sender, Record(s)
        PROVE  copies'[e] > 0
    <3>1. sender[s].email = e /\ Outcome(s) = "sent"
      BY <2>1, <1>2 DEF Record
    <3>2. sender[s].at = "answered" /\ sender[s].answer = "accepted"
      BY <2>1, <3>1 DEF Record, Outcome
    <3>. QED
      BY <2>1, <3>1, <3>2, RowsStay DEF ThreadsOnRows
  <2>2. ASSUME NEW c \in Caller, QueueInsert(c)
        PROVE  FALSE
    BY <2>2 DEF QueueInsert
  <2>3. ASSUME NEW f \in Email, Claim(f)
        PROVE  FALSE
    BY <2>3 DEF Claim
  <2>4. ASSUME NEW s \in Sender, ClaimNext(s)
        PROVE  FALSE
    <3>1. PICK f \in sender[s].todo : Claim(f) \/ UNCHANGED rowVars
      BY <2>4 DEF ClaimNext
    <3>2. f \in Email
      BY DEF SenderState
    <3>. QED
      BY <2>3, <3>1, <3>2 DEF rowVars
  <2>5. ASSUME NEW f \in Email, Requeue(f)
        PROVE  FALSE
    BY <2>5 DEF Requeue
  <2>6. ASSUME NEW s \in Sender, ReleaseStuck(s)
        PROVE  FALSE
    BY <2>6 DEF ReleaseStuck
  <2>7. Scheduler \subseteq Sender
    BY DEF Sender
  <2>. QED
    BY <2>1, <2>2, <2>3, <2>4, <2>5, <2>6, <2>7
    DEF Next, vars, rowVars, Queueing, Sending, QueueDecide, QueueLookup, QueueRefused, QueueAttach,
        ReadDue, EndPass, SendNow, Attempt, SaveSettings, OptOut, OptBackIn, ClaimAges, BackoffEnds,
        SenderStops, CallerStops
<1>. QED
  BY <1>1, <1>2

-----------------------------------------------------------------------------
\* A row nobody disturbed stays sound, one way of touching it at a time.

\* Threads that go on without it: whoever holds a row is as it was.
LEMMA SoundUntouched ==
  ASSUME NEW e \in Email, RowSound(e),
         \A s \in Sender : Holds(s, e)' => sender'[s] = sender[s],
         status'[e] = status[e], attempts'[e] = attempts[e], copies'[e] = copies[e]
  PROVE  RowSound(e)'
BY DEF RowSound, Holds

\* A row inserted, or put back in the queue by an admin: nobody holds it.
LEMMA SoundQueued ==
  ASSUME NEW e \in Email, TypeOK, ThreadsOnRows, RowSound(e),
         sender' = sender, copies'[e] = copies[e],
         status[e] \in {"none", "failed", "skipped"}, status'[e] \in {"queued", "skipped"},
         attempts'[e] = 0
  PROVE  RowSound(e)'
<1>1. \A s \in Sender : ~Holds(s, e)
  BY DEF RowSound
<1>2. \A s \in Sender : ~Holds(s, e)'
  BY <1>1 DEF Holds
<1>3. copies'[e] = 0
  BY DEF RowSound
<1>. QED
  BY <1>2, <1>3, OutboxConstants DEF RowSound

\* A row claimed: from nobody to one sender.
LEMMA SoundClaimed ==
  ASSUME NEW e \in Email, RowSound(e), NEW s \in Sender,
         status[e] = "queued", status'[e] = "sending", copies'[e] = copies[e],
         sender'[s].at = "claimed",
         \A t \in Sender \ {s} : sender'[t] = sender[t]
  PROVE  RowSound(e)'
<1>1. \A t \in Sender : ~Holds(t, e)
  BY DEF RowSound
<1>2. \A t \in Sender : Holds(t, e)' => t = s
  BY <1>1 DEF Holds
<1>3. copies'[e] = 0
  BY DEF RowSound
<1>. QED
  BY <1>2, <1>3 DEF RowSound

\* A row tried: the answer is all its holder adds, or the service takes one copy.
LEMMA SoundTried ==
  ASSUME NEW e \in Email, RowSound(e), NEW s \in Sender, Holds(s, e), sender[s].at = "claimed",
         status'[e] = status[e], attempts'[e] = attempts[e],
         sender'[s].at = "answered", sender'[s].email = e, sender'[s].tries = attempts[e],
         copies'[e] = IF sender'[s].answer = "accepted" THEN copies[e] + 1 ELSE copies[e],
         \A t \in Sender \ {s} : sender'[t] = sender[t]
  PROVE  RowSound(e)'
<1>1. \A t \in Sender : Holds(t, e)' => t = s
  BY DEF RowSound, Holds
<1>2. status'[e] = "sending" /\ copies[e] = 0
  BY DEF RowSound
<1>. QED
  BY <1>1, <1>2 DEF RowSound

\* A row recorded: its holder lets go of it.
LEMMA SoundRecorded ==
  ASSUME NEW e \in Email, RowSound(e), NEW s \in Sender, Holds(s, e), sender[s].at = "answered",
         TypeOK, status'[e] = Outcome(s), attempts'[e] = attempts[e], copies'[e] = copies[e],
         sender'[s].at \notin {"claimed", "answered"},
         \A t \in Sender \ {s} : sender'[t] = sender[t]
  PROVE  RowSound(e)'
<1>1. \A t \in Sender : ~Holds(t, e)'
  BY DEF RowSound, Holds
<1>2. status'[e] \in {"queued", "failed"} => copies'[e] = 0
  BY DEF RowSound, Outcome
<1>3. status'[e] = "queued" => attempts'[e] <= Backoffs
  <2>1. attempts[e] \in Nat /\ Backoffs \in Nat /\ sender[s].tries = attempts[e]
    BY OutboxConstants DEF TypeOK, RowSound
  <2>. QED
    BY <2>1 DEF Outcome, PutOff
<1>4. status'[e] \in {"sent", "queued", "failed"} /\ copies'[e] <= 1
  BY DEF Outcome, RowSound
<1>. QED
  BY <1>1, <1>2, <1>3, <1>4 DEF RowSound

\* A step keeps what is known of a row that is not disturbed.
LEMMA StepSound ==
  ASSUME TypeOK, ThreadsOnRows, [Next]_vars,
         NEW e \in Email, e \notin disturbed', e \notin disturbed => RowSound(e)
  PROVE  RowSound(e)'
<1>. USE DEF TypeOK
<1>1. ASSUME NEW c \in Caller,
             (\E m \in Message : QueueDecide(c, m)) \/ QueueLookup(c) \/ QueueRefused(c)
                \/ QueueAttach(c) \/ CallerStops(c)
      PROVE  RowSound(e)'
  <2>1. UNCHANGED <<status, attempts, sender, copies, disturbed>>
    BY <1>1 DEF QueueDecide, QueueLookup, QueueRefused, QueueAttach, CallerStops, rowVars, mailVars
  <2>. QED
    BY <2>1, SoundUntouched
<1>2. ASSUME NEW c \in Caller, QueueInsert(c)
      PROVE  RowSound(e)'
  <2>1. PICK f \in Email :
          /\ status[f] = "none"
          /\ status' = [status EXCEPT ![f] = IF caller[c].skip THEN "skipped" ELSE "queued"]
          /\ attempts' = [attempts EXCEPT ![f] = 0]
    BY <1>2 DEF QueueInsert, NextEmail
  <2>2. UNCHANGED <<sender, copies, disturbed>>
    BY <1>2 DEF QueueInsert, mailVars
  <2>3. CASE e = f
    BY <2>1, <2>2, <2>3, SoundQueued
  <2>4. CASE e # f
    BY <2>1, <2>2, <2>4, SoundUntouched
  <2>. QED
    BY <2>3, <2>4
<1>3. ASSUME NEW s \in Scheduler, ReleaseStuck(s)
      PROVE  RowSound(e)'
  <2>1. e \notin Stuck /\ e \notin disturbed
    BY <1>3 DEF ReleaseStuck
  <2>2. status'[e] = status[e] /\ attempts'[e] = attempts[e] /\ copies'[e] = copies[e]
    BY <1>3, <2>1 DEF ReleaseStuck
  <2>3. \A t \in Sender : Holds(t, e)' => sender'[t] = sender[t]
    BY <1>3 DEF ReleaseStuck, Holds, Sender, SenderState
  <2>. QED
    BY <2>1, <2>2, <2>3, SoundUntouched
<1>4. ASSUME NEW s \in Sender, ReadDue(s) \/ EndPass(s) \/ SenderStops(s)
      PROVE  RowSound(e)'
  <2>1. UNCHANGED <<status, attempts, copies, disturbed>>
    BY <1>4 DEF ReadDue, EndPass, SenderStops, rowVars, mailVars
  <2>2. ~Holds(s, e)' /\ \A t \in Sender \ {s} : sender'[t] = sender[t]
    <3>1. CASE ReadDue(s)
      BY <3>1 DEF ReadDue, Holds, SenderState
    <3>2. CASE EndPass(s) \/ SenderStops(s)
      BY <3>2 DEF EndPass, SenderStops, NoSender, Holds
    <3>. QED
      BY <1>4, <3>1, <3>2
  <2>. QED
    BY <2>1, <2>2, SoundUntouched
<1>5. ASSUME NEW s \in Sender, NEW f \in Email, Claimable(f), Claim(f),
             sender'[s].at = "claimed", sender'[s].email = f, UNCHANGED mailVars,
             sender[s].at \in {"idle", "batch"},
             \A t \in Sender \ {s} : sender'[t] = sender[t]
      PROVE  RowSound(e)'
  <2>1. UNCHANGED <<copies, disturbed>> /\ ~Holds(s, e)
    BY <1>5 DEF mailVars, Holds
  <2>2. CASE e = f
    <3>1. status[e] = "queued" /\ status'[e] = "sending"
      BY <1>5, <2>2 DEF Claimable, Claim
    <3>. QED
      BY <1>5, <2>1, <3>1, SoundClaimed
  <2>3. CASE e # f
    <3>1. status'[e] = status[e] /\ attempts'[e] = attempts[e]
      BY <1>5, <2>3 DEF Claim
    <3>2. \A t \in Sender : Holds(t, e)' => sender'[t] = sender[t]
      BY <1>5, <2>3 DEF Holds
    <3>. QED
      BY <2>1, <3>1, <3>2, SoundUntouched
  <2>. QED
    BY <2>2, <2>3
<1>6. ASSUME NEW s \in Sender, ClaimNext(s)
      PROVE  RowSound(e)'
  <2>1. PICK f \in sender[s].todo :
          \/ /\ Claimable(f)
             /\ Claim(f)
             /\ sender' = [sender EXCEPT ![s] = [Without(s, f) EXCEPT !.at = "claimed",
                                                                     !.email = f]]
          \/ /\ sender' = [sender EXCEPT ![s] = Without(s, f)]
             /\ UNCHANGED rowVars
    BY <1>6 DEF ClaimNext
  <2>2. f \in Email /\ sender[s].at = "batch" /\ UNCHANGED mailVars
    BY <1>6 DEF ClaimNext, SenderState
  <2>3. CASE /\ Claimable(f)
             /\ Claim(f)
             /\ sender' = [sender EXCEPT ![s] = [Without(s, f) EXCEPT !.at = "claimed",
                                                                     !.email = f]]
    <3>1. sender'[s].at = "claimed" /\ sender'[s].email = f
      BY <2>3 DEF Without, SenderState
    <3>. QED
      BY <1>5, <2>2, <2>3, <3>1
  <2>4. CASE sender' = [sender EXCEPT ![s] = Without(s, f)] /\ UNCHANGED rowVars
    <3>1. ~Holds(s, e)' /\ \A t \in Sender \ {s} : sender'[t] = sender[t]
      BY <2>2, <2>4 DEF Without, Holds
    <3>. QED
      BY <2>2, <2>4, <3>1, SoundUntouched DEF rowVars, mailVars
  <2>. QED
    BY <2>1, <2>3, <2>4
<1>7. ASSUME NEW s \in Request, NEW f \in Email, SendNow(s, f)
      PROVE  RowSound(e)'
  <2>1. s \in Sender /\ sender'[s].at = "claimed" /\ sender'[s].email = f
    BY <1>7 DEF SendNow, NoSender, Sender
  <2>. QED
    BY <1>5, <1>7, <2>1 DEF SendNow
<1>8. ASSUME NEW s \in Sender, Attempt(s)
      PROVE  RowSound(e)'
  <2>. DEFINE f == sender[s].email
  <2>1. PICK answer \in Answers(s), arrived \in BOOLEAN :
          /\ arrived \in Arrival(s, answer)
          /\ sender' = [sender EXCEPT ![s] = [@ EXCEPT !.at = "answered", !.answer = answer,
                                                       !.tries = attempts[f]]]
          /\ copies' = [copies EXCEPT ![f] = IF arrived /\ @ < Many THEN @ + 1 ELSE @]
          /\ disturbed' = IF arrived /\ answer # "accepted" THEN disturbed \cup {f} ELSE disturbed
    BY <1>8 DEF Attempt, Arrival
  <2>2. e \notin disturbed /\ UNCHANGED rowVars /\ sender[s].at = "claimed"
    BY <1>8, <2>1 DEF Attempt
  <2>3. /\ sender'[s].at = "answered" /\ sender'[s].email = f /\ sender'[s].answer = answer
        /\ sender'[s].tries = attempts[f]
        /\ \A t \in Sender \ {s} : sender'[t] = sender[t]
    BY <2>1 DEF SenderState
  <2>4. CASE e = f
    <3>1. Holds(s, e) /\ copies[e] = 0
      BY <2>2, <2>4 DEF Holds, RowSound
    <3>2. arrived <=> answer = "accepted"
      BY <2>1, <2>4 DEF Arrival
    <3>3. copies'[e] = IF answer = "accepted" THEN copies[e] + 1 ELSE copies[e]
      <4>1. copies'[e] = IF arrived /\ copies[e] < Many THEN copies[e] + 1 ELSE copies[e]
        BY <2>1, <2>4
      <4>. QED
        BY <3>1, <3>2, <4>1
    <3>4. status'[e] = status[e] /\ attempts'[e] = attempts[e]
      BY <2>2 DEF rowVars
    <3>5. copies'[e] = IF sender'[s].answer = "accepted" THEN copies[e] + 1 ELSE copies[e]
      BY <2>3, <3>3
    <3>. HIDE DEF f
    <3>. QED
      BY <2>2, <2>3, <2>4, <3>1, <3>4, <3>5, SoundTried
  <2>5. CASE e # f
    <3>1. \A t \in Sender : Holds(t, e)' => sender'[t] = sender[t]
      BY <2>3, <2>5 DEF Holds
    <3>2. copies'[e] = copies[e]
      BY <2>1, <2>5
    <3>. QED
      BY <2>2, <3>1, <3>2, SoundUntouched DEF rowVars
  <2>. QED
    BY <2>4, <2>5
<1>9. ASSUME NEW s \in Sender, Record(s)
      PROVE  RowSound(e)'
  <2>1. sender'[s].at \notin {"claimed", "answered"} /\ \A t \in Sender \ {s} : sender'[t] = sender[t]
    BY <1>9 DEF Record, NextOfPass, NoSender
  <2>2. UNCHANGED <<attempts, copies, disturbed>> /\ sender[s].at = "answered"
    BY <1>9 DEF Record, mailVars
  <2>3. CASE e = sender[s].email
    <3>1. Holds(s, e) /\ status'[e] = Outcome(s)
      BY <1>9, <2>2, <2>3 DEF Record, Holds
    <3>. QED
      BY <2>1, <2>2, <3>1, SoundRecorded
  <2>4. CASE e # sender[s].email
    <3>1. status'[e] = status[e]
      BY <1>9, <2>4 DEF Record
    <3>2. \A t \in Sender : Holds(t, e)' => sender'[t] = sender[t]
      BY <2>1 DEF Holds
    <3>. QED
      BY <2>2, <3>1, <3>2, SoundUntouched
  <2>. QED
    BY <2>3, <2>4
<1>10. ASSUME NEW f \in Email, Requeue(f)
       PROVE  RowSound(e)'
  <2>1. UNCHANGED <<sender, copies, disturbed>>
    BY <1>10 DEF Requeue, mailVars
  <2>2. CASE e = f
    <3>1. status[e] \in {"failed", "skipped"} /\ status'[e] = "queued" /\ attempts'[e] = 0
      BY <1>10, <2>2 DEF Requeue
    <3>. QED
      BY <2>1, <3>1, SoundQueued
  <2>3. CASE e # f
    <3>1. status'[e] = status[e] /\ attempts'[e] = attempts[e]
      BY <1>10, <2>3 DEF Requeue
    <3>. QED
      BY <2>1, <3>1, SoundUntouched
  <2>. QED
    BY <2>2, <2>3
<1>11. ASSUME UNCHANGED <<status, attempts, sender, copies, disturbed>>
       PROVE  RowSound(e)'
  BY <1>11, SoundUntouched
<1>. QED
  BY <1>1, <1>2, <1>3, <1>4, <1>6, <1>7, <1>8, <1>9, <1>10, <1>11
  DEF Next, Queueing, Sending, SaveSettings, OptOut, OptBackIn, ClaimAges, BackoffEnds, vars, rowVars,
      mailVars

\* Only rows that exist are disturbed.
LEMMA StepDisturbed ==
  ASSUME TypeOK, ThreadsOnRows, DisturbedExist, [Next]_vars
  PROVE  DisturbedExist'
<1>1. \A e \in disturbed' : e \in disturbed \/ (e \in Email /\ status[e] # "none")
  <2>1. ASSUME NEW s \in Scheduler, ReleaseStuck(s)
        PROVE  \A e \in disturbed' : e \in disturbed \/ (e \in Email /\ status[e] # "none")
    BY <2>1 DEF ReleaseStuck, Stuck, TypeOK
  <2>2. ASSUME NEW s \in Sender, Attempt(s)
        PROVE  \A e \in disturbed' : e \in disturbed \/ (e \in Email /\ status[e] # "none")
    BY <2>2 DEF Attempt, ThreadsOnRows
  <2>. QED
    BY <2>1, <2>2
    DEF Next, Queueing, Sending, QueueDecide, QueueLookup, QueueInsert, QueueRefused, QueueAttach,
        ReadDue, ClaimNext, EndPass, SendNow, Record, Requeue, SaveSettings, OptOut, OptBackIn,
        ClaimAges, BackoffEnds, SenderStops, CallerStops, vars, mailVars
<1>. QED
  BY <1>1, RowsStay DEF DisturbedExist, TypeOK

\* Only an INSERT adds a row or says what message a row holds.
LEMMA OnlyInsertsAdd ==
  ASSUME TypeOK, ThreadsOnRows, [Next]_vars, \A c \in Caller : ~QueueInsert(c), NEW e \in Email
  PROVE  /\ status[e] = "none" => status'[e] = "none"
         /\ content' = content
<1>. USE DEF TypeOK
<1>1. ASSUME NEW s \in Scheduler, ReleaseStuck(s)
      PROVE  status[e] = "none" => status'[e] = "none"
  BY <1>1 DEF ReleaseStuck, Stuck
<1>2. ASSUME NEW f \in Email, Claimable(f), Claim(f)
      PROVE  status[e] = "none" => status'[e] = "none"
  BY <1>2 DEF Claim, Claimable
<1>3. ASSUME NEW s \in Sender, ClaimNext(s)
      PROVE  status[e] = "none" => status'[e] = "none"
  <2>1. PICK f \in sender[s].todo : (Claimable(f) /\ Claim(f)) \/ UNCHANGED rowVars
    BY <1>3 DEF ClaimNext
  <2>2. f \in Email
    BY DEF SenderState
  <2>. QED
    BY <1>2, <2>1, <2>2 DEF rowVars
<1>4. ASSUME NEW s \in Sender, Record(s)
      PROVE  status[e] = "none" => status'[e] = "none"
  BY <1>4 DEF Record, ThreadsOnRows
<1>5. ASSUME NEW f \in Email, Requeue(f)
      PROVE  status[e] = "none" => status'[e] = "none"
  BY <1>5 DEF Requeue
<1>6. status[e] = "none" => status'[e] = "none"
  BY <1>1, <1>2, <1>3, <1>4, <1>5
  DEF Next, vars, rowVars, Queueing, Sending, QueueDecide, QueueLookup, QueueRefused,
      QueueAttach, ReadDue, EndPass, SendNow, Attempt, SaveSettings, OptOut, OptBackIn, ClaimAges,
      BackoffEnds, SenderStops, CallerStops
<1>7. content' = content
  BY DEF Next, vars, rowVars, Queueing, Sending, QueueDecide, QueueLookup, QueueRefused,
      QueueAttach, ReleaseStuck, ReadDue, ClaimNext, Claim, EndPass, SendNow, Attempt, Record, Requeue,
      SaveSettings, OptOut, OptBackIn, ClaimAges, BackoffEnds, SenderStops, CallerStops
<1>. QED
  BY <1>6, <1>7

\* A key stays one row: an INSERT finds no other row of it, and nothing else adds one.
LEMMA StepKeys ==
  ASSUME OutboxSound, OneRowPerKey, [Next]_vars
  PROVE  OneRowPerKey'
<1>1. TypeOK /\ ThreadsOnRows
  BY DEF OutboxSound
<1>2. CASE \A c \in Caller : ~QueueInsert(c)
  <2>1. \A e \in Email : content' = content /\ (status'[e] # "none" => status[e] # "none")
    BY <1>1, <1>2, OnlyInsertsAdd
  <2>. QED
    BY <2>1 DEF OneRowPerKey
<1>3. ASSUME NEW c \in Caller, QueueInsert(c)
      PROVE  OneRowPerKey'
  <2>1. PICK e \in Email :
          /\ status' = [status EXCEPT ![e] = IF caller[c].skip THEN "skipped" ELSE "queued"]
          /\ content' = [content EXCEPT ![e] = caller[c].message]
    BY <1>3 DEF QueueInsert
  <2>2. /\ content'[e] = caller[c].message
        /\ \A f \in Email \ {e} : status'[f] = status[f] /\ content'[f] = content[f]
    BY <1>1, <2>1 DEF TypeOK
  <2>3. \A f \in Email : status[f] # "none" /\ caller[c].message \in Keyed
            => content[f] # caller[c].message
    BY <1>3 DEF QueueInsert, KeyTaken, RowsOfKey
  <2>. QED
    BY <2>2, <2>3 DEF OneRowPerKey
<1>. QED
  BY <1>2, <1>3

-----------------------------------------------------------------------------
\* The inductive invariant: whatever threads race, stop or retry, for any number of
\* messages, callers and senders, a row that was never disturbed has one holder at most
\* and its log entry tells the truth.
THEOREM OutboxIsSound == Spec => []OutboxSound
<1>1. Init => OutboxSound
  <2>. SUFFICES ASSUME Init PROVE OutboxSound
    OBVIOUS
  <2>1. ThreadsOnRows /\ SentHasGone /\ DisturbedExist
    BY DEF Init, ThreadsOnRows, SentHasGone, DisturbedExist, NoCaller, NoSender
  <2>2. \A e \in Email : RowSound(e)
    BY OutboxConstants DEF Init, RowSound, Holds, NoSender
  <2>. QED
    BY <2>1, <2>2, InitTypes DEF OutboxSound
<1>2. OutboxSound /\ [Next]_vars => OutboxSound'
  <2>. SUFFICES ASSUME OutboxSound, [Next]_vars PROVE OutboxSound'
    OBVIOUS
  <2>1. TypeOK /\ ThreadsOnRows /\ SentHasGone /\ DisturbedExist
    BY DEF OutboxSound
  <2>2. TypeOK'
    BY <2>1, StepTypes
  <2>3. ThreadsOnRows' /\ SentHasGone' /\ DisturbedExist'
    BY <2>1, StepThreads, StepSent, StepDisturbed
  <2>4. ASSUME NEW e \in Email, e \notin disturbed'
        PROVE  RowSound(e)'
    BY <2>1, <2>4, StepSound DEF OutboxSound
  <2>. QED
    BY <2>2, <2>3, <2>4 DEF OutboxSound
<1>. QED
  BY <1>1, <1>2, PTL DEF Spec

\* The types hold in every reachable state.
THEOREM OutboxTypes == Spec => []TypeOK
<1>1. OutboxSound => TypeOK
  BY DEF OutboxSound
<1>. QED
  BY <1>1, OutboxIsSound, PTL

\* Callers that queue one key at once leave one row of it, whichever of them finds the key
\* taken at its look and whichever only at its INSERT (store/email_store.py, queue_email).
THEOREM OutboxKeepsKeysApart == Spec => []OneRowPerKey
<1>1. Init => OneRowPerKey
  BY DEF Init, OneRowPerKey
<1>2. OutboxSound /\ OneRowPerKey /\ [Next]_vars => OneRowPerKey'
  BY StepKeys
<1>. QED
  BY <1>1, <1>2, OutboxIsSound, PTL DEF Spec

\* The mail service takes a second copy only of a message whose claim lapsed or whose
\* answer was lost.
THEOREM OutboxSendsOnce == Spec => []OncePerMessage
<1>1. OutboxSound => OncePerMessage
  BY DEF OutboxSound, TypeOK, OncePerMessage, RowSound
<1>. QED
  BY <1>1, OutboxIsSound, PTL

\* The delivery log tells what happened to every message nobody lost track of, and
\* "sent" is always true.
THEOREM OutboxLogIsTrue == Spec => []LogIsTrue
<1>1. OutboxSound => LogIsTrue
  BY DEF OutboxSound, LogIsTrue, RowSound, SentHasGone
<1>. QED
  BY <1>1, OutboxIsSound, PTL

\* A message out of tries is not queued again while one sender holds it.
THEOREM OutboxGivesUp == Spec => []GivesUp
<1>1. OutboxSound => GivesUp
  <2>. SUFFICES ASSUME OutboxSound, NEW e \in Email, status[e] = "queued", attempts[e] > Backoffs,
                       e \notin disturbed
                PROVE  FALSE
    BY DEF GivesUp
  <2>1. attempts[e] <= Backoffs /\ attempts[e] \in Nat /\ Backoffs \in Nat
    BY OutboxConstants DEF OutboxSound, RowSound, TypeOK
  <2>. QED
    BY <2>1
<1>. QED
  BY <1>1, OutboxIsSound, PTL

-----------------------------------------------------------------------------
\* A step that leaves every row where it was in its life is a stutter of the contract; one
\* that moves a single row along its life is a step of it.
Outcome0 == [e \in Email |-> RowOutcome(e)]

\* A row that moves alone, as the contract lets it, is a step of the contract.
LEMMA OneRowMoves ==
  ASSUME NEW e \in Email,
         \A f \in Email \ {e} : RowOutcome(f)' = RowOutcome(f),
         \/ RowOutcome(e)' = RowOutcome(e)
         \/ RowOutcome(e) \in {"none", "refused"} /\ RowOutcome(e)' = "open"
         \/ RowOutcome(e) \in {"none", "open"} /\ RowOutcome(e)' = "refused"
         \/ RowOutcome(e) = "open" /\ RowOutcome(e)' = "delivered"
         \/ RowOutcome(e) \in {"open", "delivered"} /\ RowOutcome(e)' = "unsure"
  PROVE  [Contract!Next]_Outcome0
<1>. DEFINE o == RowOutcome(e)'
<1>1. Outcome0' = [Outcome0 EXCEPT ![e] = o]
  BY DEF Outcome0
<1>2. Outcome0' = [f \in Email |-> IF f \in {e} THEN o ELSE Outcome0[f]]
  BY DEF Outcome0
<1>3. Outcome0[e] = RowOutcome(e)
  BY DEF Outcome0
<1>4. CASE o = RowOutcome(e)
  BY <1>1, <1>3, <1>4 DEF Outcome0
<1>5. CASE RowOutcome(e) \in {"none", "refused"} /\ o = "open"
  <2>1. Contract!Open(e)
    BY <1>1, <1>3, <1>5 DEF Contract!Open, Contract!Becomes, Outcome0
  <2>. QED
    BY <2>1 DEF Contract!Next
<1>6. CASE RowOutcome(e) \in {"none", "open"} /\ o = "refused"
  <2>1. Contract!Refuse(e)
    BY <1>1, <1>3, <1>6 DEF Contract!Refuse, Contract!Becomes, Outcome0
  <2>. QED
    BY <2>1 DEF Contract!Next
<1>7. CASE RowOutcome(e) = "open" /\ o = "delivered"
  <2>1. Contract!Deliver(e)
    BY <1>1, <1>3, <1>7 DEF Contract!Deliver, Contract!Becomes, Outcome0
  <2>. QED
    BY <2>1 DEF Contract!Next
<1>8. CASE RowOutcome(e) \in {"open", "delivered"} /\ o = "unsure"
  <2>1. Contract!LoseTrack({e})
    BY <1>2, <1>3, <1>8 DEF Contract!LoseTrack, Outcome0
  <2>2. {e} \in SUBSET Email
    OBVIOUS
  <2>. QED
    BY <2>1, <2>2 DEF Contract!Next
<1>. QED
  BY <1>4, <1>5, <1>6, <1>7, <1>8

\* Where no row moves it is a stutter of it.
LEMMA NoRowMoves ==
  ASSUME \A f \in Email : RowOutcome(f)' = RowOutcome(f)
  PROVE  [Contract!Next]_Outcome0
BY DEF Outcome0

\* A row whose status stays on the same side, with the same copies, does not move.
LEMMA RowStays ==
  ASSUME NEW f \in Email, status'[f] = status[f], copies'[f] = copies[f],
         f \in disturbed' <=> f \in disturbed
  PROVE  RowOutcome(f)' = RowOutcome(f)
BY DEF RowOutcome

\* Every step of the outbox is a step of the contract or leaves every row where it was.
LEMMA StepContract ==
  ASSUME OutboxSound, [Next]_vars
  PROVE  [Contract!Next]_Outcome0
<1>. USE DEF TypeOK
<1>1. TypeOK /\ ThreadsOnRows /\ DisturbedExist /\ \A e \in Email \ disturbed : RowSound(e)
  BY DEF OutboxSound
<1>2. ASSUME UNCHANGED <<status, copies, disturbed>>
      PROVE  [Contract!Next]_Outcome0
  BY <1>2, RowStays, NoRowMoves
<1>3. ASSUME NEW c \in Caller, QueueInsert(c)
      PROVE  [Contract!Next]_Outcome0
  <2>1. PICK e \in Email :
          /\ status[e] = "none"
          /\ status' = [status EXCEPT ![e] = IF caller[c].skip THEN "skipped" ELSE "queued"]
    BY <1>3 DEF QueueInsert, NextEmail
  <2>2. UNCHANGED <<copies, disturbed>>
    BY <1>3 DEF QueueInsert, mailVars
  <2>3. e \notin disturbed /\ copies[e] = 0
    BY <1>1, <2>1 DEF DisturbedExist, RowSound
  <2>4. RowOutcome(e) = "none" /\ RowOutcome(e)' \in {"open", "refused"}
    BY <1>1, <2>1, <2>2, <2>3 DEF RowOutcome
  <2>5. \A f \in Email \ {e} : RowOutcome(f)' = RowOutcome(f)
    BY <1>1, <2>1, <2>2, RowStays
  <2>. QED
    BY <2>4, <2>5, OneRowMoves
<1>4. ASSUME NEW s \in Scheduler, ReleaseStuck(s)
      PROVE  [Contract!Next]_Outcome0
  <2>. DEFINE S == Stuck \ disturbed
  <2>1. S \in SUBSET Email
    BY <1>1 DEF Stuck
  <2>2. ASSUME NEW e \in S
        PROVE  RowOutcome(e) \in {"open", "delivered"} /\ RowOutcome(e)' = "unsure"
    <3>1. e \in Email /\ status[e] = "sending" /\ e \notin disturbed
      BY <1>1 DEF Stuck
    <3>2. copies[e] \in {0, 1}
      BY <1>1, <3>1 DEF RowSound
    <3>3. status'[e] # "none" /\ e \in disturbed'
      BY <1>1, <1>4, <3>1, RowsStay DEF ReleaseStuck
    <3>. QED
      BY <3>1, <3>2, <3>3 DEF RowOutcome
  <2>3. ASSUME NEW e \in Email, e \notin S
        PROVE  RowOutcome(e)' = RowOutcome(e)
    <3>1. CASE e \in disturbed
      <4>1. status[e] # "none" /\ status'[e] # "none" /\ e \in disturbed'
        BY <1>1, <1>4, <3>1, RowsStay DEF DisturbedExist, ReleaseStuck
      <4>. QED
        BY <3>1, <4>1 DEF RowOutcome
    <3>2. CASE e \notin disturbed
      <4>1. e \notin Stuck
        BY <2>3, <3>2
      <4>2. status'[e] = status[e] /\ copies'[e] = copies[e] /\ e \notin disturbed'
        BY <1>1, <1>4, <3>2, <4>1 DEF ReleaseStuck
      <4>. QED
        BY <3>2, <4>2, RowStays
    <3>. QED
      BY <3>1, <3>2
  <2>4. Contract!LoseTrack(S)
    <3>1. Outcome0' = [e \in Email |-> IF e \in S THEN "unsure" ELSE Outcome0[e]]
      BY <2>1, <2>2, <2>3 DEF Outcome0
    <3>2. \A e \in S : Outcome0[e] \in {"open", "delivered"}
      BY <2>1, <2>2 DEF Outcome0
    <3>. QED
      BY <3>1, <3>2 DEF Contract!LoseTrack, Outcome0
  <2>. QED
    BY <2>1, <2>4 DEF Contract!Next
<1>5. ASSUME NEW f \in Email, Claimable(f), Claim(f), UNCHANGED mailVars
      PROVE  [Contract!Next]_Outcome0
  <2>1. RowOutcome(f)' = RowOutcome(f)
    BY <1>1, <1>5 DEF Claimable, Claim, mailVars, RowOutcome
  <2>2. \A e \in Email \ {f} : RowOutcome(e)' = RowOutcome(e)
    BY <1>1, <1>5, RowStays DEF Claim, mailVars
  <2>. QED
    BY <2>1, <2>2, OneRowMoves
<1>6. ASSUME NEW s \in Sender, ClaimNext(s)
      PROVE  [Contract!Next]_Outcome0
  <2>1. PICK f \in sender[s].todo : (Claimable(f) /\ Claim(f)) \/ UNCHANGED rowVars
    BY <1>6 DEF ClaimNext
  <2>2. f \in Email /\ UNCHANGED mailVars
    BY <1>1, <1>6 DEF ClaimNext, SenderState
  <2>. QED
    BY <1>2, <1>5, <2>1, <2>2 DEF rowVars, mailVars
<1>7. ASSUME NEW s \in Request, NEW f \in Email, SendNow(s, f)
      PROVE  [Contract!Next]_Outcome0
  BY <1>5, <1>7 DEF SendNow
<1>8. ASSUME NEW s \in Sender, Attempt(s)
      PROVE  [Contract!Next]_Outcome0
  <2>1. PICK e \in Email : e = sender[s].email /\ status[e] # "none" /\ UNCHANGED status
    BY <1>1, <1>8 DEF Attempt, ThreadsOnRows, rowVars
  <2>2. PICK answer \in Answers(s), arrived \in BOOLEAN :
          /\ answer = "accepted" => arrived
          /\ copies' = [copies EXCEPT ![e] = IF arrived /\ @ < Many THEN @ + 1 ELSE @]
          /\ disturbed' = IF arrived /\ answer # "accepted" THEN disturbed \cup {e} ELSE disturbed
    BY <1>8, <2>1 DEF Attempt, Arrival
  <2>3. \A f \in Email \ {e} : RowOutcome(f)' = RowOutcome(f)
    BY <1>1, <2>1, <2>2, RowStays
  <2>4. CASE e \in disturbed
    BY <2>1, <2>2, <2>3, <2>4, OneRowMoves DEF RowOutcome
  <2>5. CASE e \notin disturbed
    <3>1. status[e] = "sending" /\ copies[e] = 0
      BY <1>1, <1>8, <2>1, <2>5 DEF Attempt, RowSound, Holds
    <3>2. RowOutcome(e) = "open"
      BY <2>5, <3>1 DEF RowOutcome
    <3>3. CASE arrived /\ answer = "accepted"
      <4>1. copies'[e] = 1 /\ e \notin disturbed'
        BY <1>1, <2>1, <2>2, <2>5, <3>1, <3>3
      <4>. QED
        BY <2>1, <2>3, <3>1, <3>2, <4>1, OneRowMoves DEF RowOutcome
    <3>4. CASE arrived /\ answer # "accepted"
      BY <2>1, <2>2, <2>3, <3>1, <3>2, <3>4, OneRowMoves DEF RowOutcome
    <3>5. CASE ~arrived
      <4>1. copies'[e] = copies[e] /\ disturbed' = disturbed
        BY <1>1, <2>1, <2>2, <3>5
      <4>. QED
        BY <2>1, <2>3, <4>1, OneRowMoves, RowStays
    <3>. QED
      BY <3>3, <3>4, <3>5
  <2>. QED
    BY <2>4, <2>5
<1>9. ASSUME NEW s \in Sender, Record(s)
      PROVE  [Contract!Next]_Outcome0
  <2>1. PICK e \in Email :
          /\ e = sender[s].email /\ status[e] # "none" /\ sender[s].at = "answered"
          /\ sender[s].answer = "accepted" => copies[e] > 0
    BY <1>1, <1>9 DEF Record, ThreadsOnRows
  <2>2. status' = [status EXCEPT ![e] = Outcome(s)] /\ UNCHANGED <<copies, disturbed>>
    BY <1>9, <2>1 DEF Record, mailVars
  <2>3. \A f \in Email \ {e} : RowOutcome(f)' = RowOutcome(f)
    BY <1>1, <2>1, <2>2, RowStays
  <2>4. status'[e] = Outcome(s) /\ Outcome(s) \in {"sent", "queued", "failed"}
    BY <1>1, <2>1, <2>2 DEF Outcome
  <2>5. CASE e \in disturbed
    BY <2>1, <2>2, <2>3, <2>4, <2>5, OneRowMoves DEF RowOutcome
  <2>6. CASE e \notin disturbed
    <3>1. /\ status[e] = "sending" /\ copies[e] \in {0, 1}
          /\ sender[s].answer # "accepted" => copies[e] = 0
      BY <1>1, <2>1, <2>6 DEF RowSound, Holds
    <3>2. copies'[e] = copies[e] /\ e \notin disturbed'
      BY <2>2, <2>6
    <3>3. CASE sender[s].answer = "accepted"
      <4>1. Outcome(s) = "sent" /\ copies[e] = 1
        BY <2>1, <3>1, <3>3 DEF Outcome
      <4>2. RowOutcome(e) = "delivered"
        BY <2>6, <3>1, <4>1 DEF RowOutcome
      <4>3. RowOutcome(e)' = "delivered"
        BY <2>4, <3>2, <4>1 DEF RowOutcome
      <4>. QED
        BY <2>1, <2>3, <4>2, <4>3, OneRowMoves
    <3>4. CASE sender[s].answer # "accepted"
      <4>1. Outcome(s) \in {"queued", "failed"} /\ copies[e] = 0
        BY <3>1, <3>4 DEF Outcome
      <4>2. RowOutcome(e) = "open"
        BY <2>6, <3>1, <4>1 DEF RowOutcome
      <4>3. RowOutcome(e)' \in {"open", "refused"}
        BY <2>4, <3>2, <4>1 DEF RowOutcome
      <4>. QED
        BY <2>1, <2>3, <4>2, <4>3, OneRowMoves
    <3>. QED
      BY <3>3, <3>4
  <2>. QED
    BY <2>5, <2>6
<1>10. ASSUME NEW f \in Email, Requeue(f)
       PROVE  [Contract!Next]_Outcome0
  <2>1. /\ status[f] \in {"failed", "skipped"}
        /\ status' = [status EXCEPT ![f] = "queued"]
        /\ UNCHANGED <<copies, disturbed>>
    BY <1>10 DEF Requeue, mailVars
  <2>2. \A e \in Email \ {f} : RowOutcome(e)' = RowOutcome(e)
    BY <1>1, <2>1, RowStays
  <2>3. status'[f] = "queued"
    BY <1>1, <2>1
  <2>4. CASE f \in disturbed
    BY <2>1, <2>2, <2>3, <2>4, OneRowMoves DEF RowOutcome
  <2>5. CASE f \notin disturbed
    <3>1. copies[f] = 0
      BY <1>1, <2>1, <2>5 DEF RowSound
    <3>2. RowOutcome(f) = "refused" /\ RowOutcome(f)' = "open"
      BY <2>1, <2>3, <2>5, <3>1 DEF RowOutcome
    <3>. QED
      BY <2>2, <3>2, OneRowMoves
  <2>. QED
    BY <2>4, <2>5
<1>. QED
  BY <1>2, <1>3, <1>4, <1>6, <1>7, <1>8, <1>9, <1>10
  DEF Next, Queueing, Sending, QueueDecide, QueueLookup, QueueRefused, QueueAttach, ReadDue, EndPass,
      SaveSettings, OptOut, OptBackIn, ClaimAges, BackoffEnds, SenderStops, CallerStops, vars, rowVars,
      mailVars

\* The outbox implements MailContract: every message is opened or refused, delivered once or
\* refused, and stays delivered, unless the server lost track of it.
THEOREM OutboxKeepsContract == Spec => KeepsContract
<1>1. Init => Contract!Init
  BY DEF Init, Contract!Init, RowOutcome
<1>2. OutboxSound /\ [Next]_vars => [Contract!Next]_Outcome0
  BY StepContract
<1>. QED
  BY <1>1, <1>2, OutboxIsSound, PTL DEF Spec, KeepsContract, Contract!Spec, Outcome0
=============================================================================
