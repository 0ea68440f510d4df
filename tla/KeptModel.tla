----------------------------- MODULE KeptModel ------------------------------
(***************************************************************************)
(* The model questions are answered with, kept between questions            *)
(* (core2/bootstrap/service.py: answering_model, load_model).               *)
(*                                                                          *)
(* It is made of the version learned last, the admin's decisions on it and  *)
(* what discovery masks now.  A question reads the stamp of the three, and  *)
(* takes the model kept under that stamp; else it reads the three, one      *)
(* after the other, and keeps the model under the stamp it read before; one *)
(* masked only as Learn read it answers too, and is not kept.  Learns,      *)
(* decisions and discovery fall between any two reads.  Versions and        *)
(* discovery's file (its time and size) never come back; decisions do, and  *)
(* a Learn saves the masking of the file it read as it began, a while ago.  *)
(*                                                                          *)
(* One workspace: that only so many are kept (ANSWERING_KEPT) costs a model *)
(* its place, as a restart does.                                            *)
(*                                                                          *)
(* A definition X_Something is X with a plausible bug (README, Mutants).    *)
(***************************************************************************)
EXTENDS Naturals

CONSTANTS
    Asker,        \* threads that answer questions, one after another
    Decisions,    \* what the decisions come to
    NoModel,
    MaxUpdates    \* bound: Learns, decisions and discoveries

ASSUME KeptModelConstants ==
    /\ MaxUpdates \in Nat
    /\ Decisions # {}

Made == [version : Nat, decided : Decisions, masked : Nat]

VARIABLES
    current,   \* the latest version, the decisions and discovery's file
    learned,   \* the masking the latest version was learned with
    answering, \* _ANSWERING: NoModel, or the stamp and what the model was made of
    asking,    \* where each thread is, and what it has read
    saw,       \* history, for each thread's question: the version and the file as it began, and what the
               \* decisions, and the maskings of the versions learned, have been since
    updates

modelVars == <<current, learned, answering, asking, saw, updates>>

ASSUME NoModelIsNone == NoModel \notin [stamp : Made, made : Made]

\* `torn`: the model it answers with is kept under other decisions than it was made of; `unread`: it
\* is masked only as its version was learned.
AskerState ==
    [at : {"idle", "decisions", "lookup", "row", "overrides", "masking", "answered"},
     stamp : Made \cup {NoModel}, made : Made \cup {NoModel}, torn : BOOLEAN,
     unread : BOOLEAN]
Saw == [version : Nat, masked : Nat, decided : SUBSET Decisions, learned : SUBSET Nat]

Away == [at |-> "idle", stamp |-> NoModel, made |-> NoModel, torn |-> FALSE, unread |-> FALSE]
Nothing == [version |-> 0, masked |-> 0, decided |-> {}, learned |-> {}]

ModelInit ==
    /\ current \in [version : {1}, decided : Decisions, masked : {1}]
    /\ learned = 1
    /\ answering = NoModel
    /\ asking = [a \in Asker |-> Away]
    /\ saw = [a \in Asker |-> Nothing]
    /\ updates = 0

Reads(a, from, fields) ==
    /\ asking[a].at = from
    /\ asking' = [asking EXCEPT ![a] = fields]
    /\ UNCHANGED <<current, learned, saw, updates>>
Has(a) == asking[a]
Ends(a) ==
    /\ asking' = [asking EXCEPT ![a] = Away]
    /\ saw' = [saw EXCEPT ![a] = Nothing]
    /\ UNCHANGED <<current, learned, answering, updates>>

-----------------------------------------------------------------------------
(***************************************************************************)
(* A question: answering_model                                              *)
(***************************************************************************)

\* core2_model_stamp reads the latest version...
Ask(a) ==
    /\ asking[a].at = "idle"
    /\ asking' = [asking EXCEPT ![a] = [Away EXCEPT !.at = "decisions", !.stamp = current]]
    /\ saw' = [saw EXCEPT ![a] = [version |-> current.version, masked |-> current.masked,
                                  decided |-> {current.decided}, learned |-> {learned}]]
    /\ UNCHANGED <<current, learned, answering, updates>>

\* ...then the decisions.
StampDecisions(a) ==
    Reads(a, "decisions", [Has(a) EXCEPT !.at = "lookup", !.stamp.decided = current.decided]) /\ UNCHANGED answering

Takes(a, kept, stamp) ==
    Reads(a, "lookup",
          IF kept
          THEN [at |-> "answered", stamp |-> stamp, made |-> answering.made,
                torn |-> answering.made.decided # answering.stamp.decided, unread |-> FALSE]
          ELSE [Has(a) EXCEPT !.at = "row", !.stamp = stamp])

\* The time and size of discovery's file complete the stamp; the model kept under it answers.
LookUpKept(a) ==
    LET stamp == [Has(a).stamp EXCEPT !.masked = current.masked]
    IN  /\ Takes(a, answering # NoModel /\ answering.stamp = stamp, stamp)
        /\ UNCHANGED answering

\* load_model: the latest row, masked as it was learned, then the decisions.
LoadRow(a) ==
    Reads(a, "row", [Has(a) EXCEPT !.at = "overrides", !.made = [current EXCEPT !.masked = learned]])
        /\ UNCHANGED answering
LoadDecisions(a) ==
    Reads(a, "overrides", [Has(a) EXCEPT !.at = "masking", !.made.decided = current.decided])
        /\ UNCHANGED answering

\* mask_as_discovered; the model is kept, under the stamp that was read first.
Keep(a) ==
    LET made == [Has(a).made EXCEPT !.masked = current.masked]
    IN  /\ Reads(a, "masking", [Has(a) EXCEPT !.at = "answered", !.made = made])
        /\ answering' = [stamp |-> Has(a).stamp, made |-> made]

MaskingFails_Kept(a) ==
    /\ Reads(a, "masking", [Has(a) EXCEPT !.at = "answered", !.unread = TRUE])
    /\ answering' = [stamp |-> Has(a).stamp, made |-> Has(a).made]

\* Discovery's file could not be read: the model answers masked as it was learned, and is not kept.
MaskingFails(a) ==
    Reads(a, "masking", [Has(a) EXCEPT !.at = "answered", !.unread = TRUE]) /\ UNCHANGED answering

EndQuestion(a) == asking[a].at = "answered" /\ Ends(a)

-----------------------------------------------------------------------------
(***************************************************************************)
(* What changes it                                                          *)
(***************************************************************************)

Update(now, masking) ==
    /\ updates < MaxUpdates /\ updates' = updates + 1
    /\ current' = now
    /\ learned' = masking
    /\ saw' = [a \in Asker |->
                  IF asking[a].at = "idle" THEN saw[a]
                  ELSE [saw[a] EXCEPT !.decided = @ \cup {now.decided}, !.learned = @ \cup {masking}]]
    /\ UNCHANGED <<answering, asking>>

\* save_core2_model, of a model masked as discovery's file was when build_workspace read it; two
\* Learns may be saved in the other order than they read it.
Learned == \E masking \in 1 .. current.masked : Update([current EXCEPT !.version = @ + 1], masking)
\* set_core2_override, delete_core2_override: another's decision, or the same one taken back
Decide == \E d \in Decisions \ {current.decided} : Update([current EXCEPT !.decided = d], learned)
\* Discovery writes its file again.
Discovered == Update([current EXCEPT !.masked = @ + 1], learned)

\* A restart: nothing is kept, and what was being answered is not.
ForgetModel ==
    /\ answering # NoModel
    /\ answering' = NoModel
    /\ asking' = [a \in Asker |-> Away]
    /\ saw' = [a \in Asker |-> Nothing]
    /\ UNCHANGED <<current, learned, updates>>

AskerStep(a) ==
    \/ Ask(a)
    \/ StampDecisions(a)
    \/ LookUpKept(a)
    \/ LoadRow(a)
    \/ LoadDecisions(a)
    \/ Keep(a)
    \/ MaskingFails(a)
    \/ EndQuestion(a)

ModelNext ==
    \/ \E a \in Asker : AskerStep(a)
    \/ Learned
    \/ Decide
    \/ Discovered
    \/ ForgetModel

ModelSpec == ModelInit /\ [][ModelNext]_modelVars

-----------------------------------------------------------------------------
ModelTypes ==
    /\ current \in Made
    /\ learned \in Nat
    /\ answering \in [stamp : Made, made : Made] \cup {NoModel}
    /\ asking \in [Asker -> AskerState]
    /\ saw \in [Asker -> Saw]
    /\ updates \in 0 .. MaxUpdates

\* core2/bootstrap/service.py:255 "built again when any of them changes": a question is answered
\* with a version no older than when it was asked, with decisions that were in force while it was
\* (unless the kept model was read while decisions changed and they are back), and with a masking
\* no older than when it was asked; or, when discovery's file cannot be read as its model is made,
\* with that of a version in force while it was asked (298 "the masking Learn read still holds"),
\* which no other question is then answered with.
AnsweredAsOfNow ==
    \A a \in Asker :
        LET made == asking[a].made
        IN  asking[a].at = "answered" =>
                /\ made.version >= saw[a].version
                /\ made.decided \in saw[a].decided \/ asking[a].torn
                /\ IF asking[a].unread THEN made.masked \in saw[a].learned ELSE made.masked >= saw[a].masked
=============================================================================
