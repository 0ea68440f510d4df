---------------------------- MODULE MailContract ----------------------------
(***************************************************************************)
(* What the outbox (core/mail/outbox.py) promises of every message, with no *)
(* sender, claim or clock in sight: a message is opened or refused at once; *)
(* an open one is delivered, once, or refused; a refused one may be opened  *)
(* again by an admin; a delivered one stays delivered.  The one escape is a *)
(* message the server lost track of while the mail service may have it.     *)
(***************************************************************************)
EXTENDS Naturals

CONSTANT Email

VARIABLE outcome

Outcomes == {"none", "open", "delivered", "refused", "unsure"}

Init == outcome = [e \in Email |-> "none"]

Becomes(e, before, after) ==
    /\ outcome[e] \in before
    /\ outcome' = [outcome EXCEPT ![e] = after]

Open(e) == Becomes(e, {"none", "refused"}, "open")
Refuse(e) == Becomes(e, {"none", "open"}, "refused")
Deliver(e) == Becomes(e, {"open"}, "delivered")

\* Several rows at once: one pass releases every claim that lapsed.
LoseTrack(S) ==
    /\ \A e \in S : outcome[e] \in {"open", "delivered"}
    /\ outcome' = [e \in Email |-> IF e \in S THEN "unsure" ELSE outcome[e]]

Next ==
    \/ \E e \in Email : Open(e) \/ Refuse(e) \/ Deliver(e)
    \/ \E S \in SUBSET Email : LoseTrack(S)

Spec == Init /\ [][Next]_outcome
=============================================================================
