--------------------------- MODULE ReaderRequests ----------------------------
(***************************************************************************)
(* Readers' requests to change what a workspace's data means, the admin's   *)
(* answers to them and the decisions an accepted one writes                 *)
(* (core2/request_service.py, store/core2_store.py).                        *)
(*                                                                          *)
(* A decision is a row of core2_override: one for an object's field.        *)
(* Accepting a request claims it, writes its decisions one by one, keeping  *)
(* what stood before each, and then records the list; undoing it claims it  *)
(* and puts each back that still stands.  Every read and every write is a   *)
(* transaction of its own.                                                  *)
(*                                                                          *)
(* The pages' handlers run on the event loop and do not wait while they     *)
(* accept or undo, so one runs at a time ("page").  A setup check is        *)
(* applied on a thread ("check"): it decides on the metrics Solviz proposed, *)
(* and writes and takes out decisions of its own beside the page's.         *)
(*                                                                          *)
(* A value is named by the request that suggests it.                        *)
(* A definition X_Something is X with a plausible bug (README, Mutants).    *)
(***************************************************************************)
EXTENDS Naturals, Sequences

CONSTANTS
    Request,
    Field,
    WritesOf,    \* the fields a request changes, in order
    ByCheck,     \* requests that propose a metric: a setup check may decide them
    MaxEdits,    \* bound: decisions an admin writes or takes out on the Data pages, or a setup check writes
    Own,         \* the value of an admin's decision that no request suggests
    Nobody       \* no decision

ASSUME RequestConstants ==
    /\ \A r \in Request : WritesOf[r] \in Seq(Field) /\ WritesOf[r] # <<>>
    /\ \A r \in Request : \A i, j \in 1 .. Len(WritesOf[r]) : WritesOf[r][i] = WritesOf[r][j] => i = j
    /\ ByCheck \subseteq Request
    /\ MaxEdits \in Nat
    /\ {Own, Nobody} \cap Request = {} /\ Own # Nobody

VARIABLES
    request,   \* core2_request: status, and applied: what stood before each decision it wrote
    override,  \* core2_override: the decision on each field
    doing,     \* what the page and the setup check are doing
    edits,
    cut,       \* history: requests whose list is not whole (accepting was cut short, or undone before it
               \* was recorded) or whose undoing was cut short
    back       \* history: requests whose decision came back, undone, when another was undone

requestVars == <<request, override, doing, edits, cut, back>>

\* Who wrote it: a request, or an admin (Own).
Standing == [value : Request \cup {Own}, by : Request \cup {Own}] \cup {Nobody}
Status == {"waiting", "accepted", "rejected", "withdrawn", "undone"}
RequestRow == [status : Status, applied : Seq(Standing)]

Doer == {"page", "check"}
Doing ==
    [at : {"idle", "read", "write", "record", "claim", "now", "put"},
     request : Request \cup {Nobody},
     before : Standing,           \* read and not yet used
     applied : Seq(Standing)]

NotAtWork == [at |-> "idle", request |-> Nobody, before |-> Nobody, applied |-> <<>>]

RequestInit ==
    /\ request = [r \in Request |-> [status |-> "waiting", applied |-> <<>>]]
    /\ override = [f \in Field |-> Nobody]
    /\ doing = [d \in Doer |-> NotAtWork]
    /\ edits = 0
    /\ cut = {} /\ back = {}

Does(d, work) == doing' = [doing EXCEPT ![d] = work]
Mine(d) == doing[d].request
\* The field it is at: accepting, the first not yet written; undoing, the last not yet put back.
FieldToWrite(d) == WritesOf[Mine(d)][Len(doing[d].applied) + 1]
FieldToPut(d) == WritesOf[Mine(d)][Len(doing[d].applied)]

-----------------------------------------------------------------------------
(***************************************************************************)
(* Accepting: accept                                                        *)
(***************************************************************************)

\* Claimed before anything is written.  One decided since it was read is refused, and nothing
\* changes.
ClaimRequest(d, r) ==
    /\ doing[d].at = "idle"
    /\ d = "page" \/ r \in ByCheck
    /\ request[r].status = "waiting"
    /\ request' = [request EXCEPT ![r] = [status |-> "accepted", applied |-> <<>>]]
    /\ Does(d, [NotAtWork EXCEPT !.at = "read", !.request = r])
    /\ UNCHANGED <<override, edits, cut, back>>

ReadBefore(d) ==
    /\ doing[d].at = "read"
    /\ Does(d, [doing[d] EXCEPT !.at = "write", !.before = override[FieldToWrite(d)]])
    /\ UNCHANGED <<request, override, edits, cut, back>>

WriteDecision(d) ==
    /\ doing[d].at = "write"
    /\ override' = [override EXCEPT ![FieldToWrite(d)] = [value |-> Mine(d), by |-> Mine(d)]]
    /\ LET applied == Append(doing[d].applied, doing[d].before)
           more == Len(applied) < Len(WritesOf[Mine(d)])
       IN  Does(d, [doing[d] EXCEPT !.at = IF more THEN "read" ELSE "record",
                                    !.before = Nobody, !.applied = applied])
    /\ UNCHANGED <<request, edits, cut, back>>

RecordApplied_Missed(d) ==
    /\ doing[d].at = "record"
    /\ Does(d, NotAtWork)
    /\ UNCHANGED <<request, override, edits, cut, back>>

\* expect=("accepted",): one undone meanwhile keeps no list.
RecordApplied(d) ==
    /\ doing[d].at = "record"
    /\ request' = [request EXCEPT ![Mine(d)].applied =
                      IF request[Mine(d)].status = "accepted" THEN doing[d].applied ELSE @]
    /\ Does(d, NotAtWork)
    /\ UNCHANGED <<override, edits, cut, back>>

\* A write raises (the database stays locked), or the service restarts.
CutShort(d) ==
    /\ doing[d].at # "idle"
    /\ cut' = IF doing[d].at = "claim" THEN cut ELSE cut \cup {Mine(d)}
    /\ Does(d, NotAtWork)
    /\ UNCHANGED <<request, override, edits, back>>

-----------------------------------------------------------------------------
(***************************************************************************)
(* Undoing: undo                                                            *)
(***************************************************************************)

\* The request is read with its list.
BeginUndo(r) ==
    /\ doing["page"].at = "idle"
    /\ request[r].status = "accepted"
    /\ Does("page", [NotAtWork EXCEPT !.at = "claim", !.request = r, !.applied = request[r].applied])
    /\ UNCHANGED <<request, override, edits, cut, back>>

NextPut_Once(d) == NotAtWork

\* On to the decision written before it.
NextPut(d) ==
    IF Len(doing[d].applied) <= 1 THEN NotAtWork
    ELSE [doing[d] EXCEPT !.at = "now", !.applied = SubSeq(@, 1, Len(@) - 1)]

\* Only the page undoes: the request is accepted still.  Its list is empty when it is not whole.
ClaimUndo ==
    LET r == Mine("page") whole == Len(doing["page"].applied) = Len(WritesOf[r]) IN
    /\ doing["page"].at = "claim"
    /\ request[r].status = "accepted"
    /\ request' = [request EXCEPT ![r].status = "undone"]
    /\ cut' = IF whole THEN cut ELSE cut \cup {r}
    /\ Does("page", IF whole THEN [doing["page"] EXCEPT !.at = "now"] ELSE NotAtWork)
    /\ UNCHANGED <<override, edits, back>>

\* What it wrote still stands: a decision of that value, whoever made it.
StillThere(now) == now # Nobody /\ now.value = Mine("page")

ReadNow ==
    LET now == override[FieldToPut("page")] IN
    /\ doing["page"].at = "now"
    /\ Does("page", IF StillThere(now) THEN [doing["page"] EXCEPT !.at = "put"] ELSE NextPut("page"))
    /\ UNCHANGED <<request, override, edits, cut, back>>

PutBack ==
    LET before == doing["page"].applied[Len(doing["page"].applied)] IN
    /\ doing["page"].at = "put"
    /\ override' = [override EXCEPT ![FieldToPut("page")] = before]
    /\ back' = IF before # Nobody /\ before.by \in Request /\ request[before.by].status = "undone"
               THEN back \cup {before.by} ELSE back
    /\ Does("page", NextPut("page"))
    /\ UNCHANGED <<request, edits, cut>>

-----------------------------------------------------------------------------
\* reject, by an admin or a setup check; withdraw, by the reader.
Refuse(d, r, status) ==
    /\ doing[d].at = "idle"
    /\ d = "page" \/ (r \in ByCheck /\ status = "rejected")
    /\ request[r].status = "waiting"
    /\ request' = [request EXCEPT ![r].status = status]
    /\ UNCHANGED <<override, doing, edits, cut, back>>

\* A decision written or taken out on the Data pages or by a setup check, as a request suggests
\* it or not.
Edit(d, f) ==
    /\ doing[d].at = "idle"
    /\ edits < MaxEdits
    /\ \E decision \in [value : Request \cup {Own}, by : {Own}] \cup {Nobody} :
        override' = [override EXCEPT ![f] = decision]
    /\ edits' = edits + 1
    /\ UNCHANGED <<request, doing, cut, back>>

DoerStep(d) ==
    \/ \E r \in Request :
        ClaimRequest(d, r) \/ Refuse(d, r, "rejected") \/ Refuse(d, r, "withdrawn")
    \/ ReadBefore(d)
    \/ WriteDecision(d)
    \/ RecordApplied(d)
    \/ CutShort(d)
    \/ \E f \in Field : Edit(d, f)

RequestNext ==
    \/ \E d \in Doer : DoerStep(d)
    \/ \E r \in Request : BeginUndo(r)
    \/ ClaimUndo
    \/ ReadNow
    \/ PutBack

RequestSpec == RequestInit /\ [][RequestNext]_requestVars

-----------------------------------------------------------------------------
RequestTypes ==
    /\ request \in [Request -> RequestRow]
    /\ override \in [Field -> Standing]
    /\ doing \in [Doer -> Doing]
    /\ edits \in 0 .. MaxEdits
    /\ cut \subseteq Request /\ back \subseteq Request

Accepting(d, r) == doing[d].at \in {"read", "write", "record"} /\ doing[d].request = r

\* core2/request_service.py:138 "two admins cannot both apply it": one applies a request at a
\* time, and none that was refused.
AppliedByOne ==
    \A d \in Doer, r \in Request :
        Accepting(d, r) =>
            /\ request[r].status \in {"accepted", "undone"}
            /\ request[r].applied = <<>>
            /\ \A e \in Doer \ {d} : ~Accepting(e, r)

\* No decision of a request that waits, or was refused, is in force.
NothingOfTheRefused ==
    \A f \in Field : override[f] # Nobody /\ override[f].by \in Request =>
        request[override[f].by].status \in {"accepted", "undone"}

\* core2/request_service.py:7 "Every accepted request can be undone": an accepted one that
\* nobody is applying has what stood before each of its decisions, unless accepting it was cut
\* short.
CanBeUndone ==
    \A r \in Request :
        request[r].status = "accepted" /\ r \notin cut /\ (\A d \in Doer : ~Accepting(d, r)) =>
            Len(request[r].applied) = Len(WritesOf[r])

\* core2/request_service.py:195 undoing "puts back what an accepted request changed": once a
\* request is undone none of its decisions is in force, unless its list was not whole, its
\* undoing was cut short, or undoing a later request brought its decision back.
UndoneGoesBack ==
    \A f \in Field : override[f] # Nobody /\ override[f].by \in Request =>
        \/ request[override[f].by].status # "undone"
        \/ override[f].by \in cut \cup back
        \/ doing["page"].at \in {"now", "put"} /\ doing["page"].request = override[f].by
=============================================================================
