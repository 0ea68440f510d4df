------------------------ MODULE ReaderRequestsProofs -------------------------
(***************************************************************************)
(* Proofs about readers' requests, for every set of requests, fields and    *)
(* decisions of admins.                                                     *)
(*                                                                          *)
(* RequestsAreSound is the inductive invariant.  A decision of a request is *)
(* met in four places: in force, just read by an accept, in the list an     *)
(* accept or an undo carries, and in a request's row; in each it must be of *)
(* an applied request, on one of that request's fields (SoundIn), for an    *)
(* undo puts it back from there.                                            *)
(***************************************************************************)
EXTENDS ReaderRequests, TLAPS

FieldsOf(r) == {WritesOf[r][i] : i \in 1 .. Len(WritesOf[r])}
Applied(s) == s \in {"accepted", "undone"}

\* A decision that stands on field f, or stood there and is kept to be put back.
SoundIn(rows, decision, f) ==
    decision # Nobody /\ decision.by \in Request =>
        /\ decision.value = decision.by
        /\ Applied(rows[decision.by].status)
        /\ f \in FieldsOf(decision.by)

\* What stood before the first decisions of a request.
ListIn(rows, list, r) ==
    /\ Len(list) <= Len(WritesOf[r])
    /\ \A i \in 1 .. Len(list) : SoundIn(rows, list[i], WritesOf[r][i])

Writing(d) == doing[d].at \in {"read", "write", "record"}
Undoing == doing["page"].at \in {"now", "put"}

MineIsARequest(d) == doing[d].at # "idle" => Mine(d) \in Request

WritingIsSound(d) ==
    Writing(d) =>
        /\ Applied(request[Mine(d)].status)
        /\ request[Mine(d)].status = "undone" => Mine(d) \in cut
        /\ request[Mine(d)].applied = <<>>
        /\ ListIn(request, doing[d].applied, Mine(d))

WritesInTurn(d) ==
    /\ doing[d].at \in {"read", "write"} => Len(doing[d].applied) < Len(WritesOf[Mine(d)])
    /\ doing[d].at = "record" => Len(doing[d].applied) = Len(WritesOf[Mine(d)])
    /\ doing[d].at = "write" => SoundIn(request, doing[d].before, FieldToWrite(d))

OneWriter == Writing("page") /\ Writing("check") => Mine("page") # Mine("check")

UndoIsClaimed ==
    doing["page"].at = "claim" =>
        /\ request[Mine("page")].status = "accepted"
        /\ ListIn(request, doing["page"].applied, Mine("page"))
        /\ Len(doing["page"].applied) \in {0, Len(WritesOf[Mine("page")])}
        /\ Writing("check") /\ Mine("check") = Mine("page") => doing["page"].applied = <<>>

UndoIsSound ==
    Undoing =>
        /\ request[Mine("page")].status = "undone"
        /\ ListIn(request, doing["page"].applied, Mine("page"))
        /\ Len(doing["page"].applied) # 0

OnlyThePageUndoes == doing["check"].at \notin {"claim", "now", "put"}

ListsAreSound ==
    \A r \in Request :
        /\ ListIn(request, request[r].applied, r)
        /\ Len(request[r].applied) \in {0, Len(WritesOf[r])}
        /\ request[r].status \notin {"accepted", "undone"} => request[r].applied = <<>>

InForceIsSound == \A f \in Field : SoundIn(request, override[f], f)

\* A request's decisions are all put back, but for those the page has still to look at.
PutBackInTurn ==
    \A f \in Field : override[f] # Nobody /\ override[f].by \in Request =>
        \/ request[override[f].by].status # "undone"
        \/ override[f].by \in cut \cup back
        \/ /\ Undoing /\ Mine("page") = override[f].by
           /\ \E i \in 1 .. Len(doing["page"].applied) : f = WritesOf[Mine("page")][i]

RequestsAreSound ==
    /\ RequestTypes
    /\ \A d \in Doer : MineIsARequest(d) /\ WritingIsSound(d) /\ WritesInTurn(d)
    /\ OneWriter
    /\ UndoIsClaimed
    /\ UndoIsSound
    /\ OnlyThePageUndoes
    /\ ListsAreSound
    /\ InForceIsSound
    /\ CanBeUndone
    /\ PutBackInTurn

-----------------------------------------------------------------------------
\* What is known of a decision stays true while applied requests stay applied.
LEMMA SoundStays ==
    ASSUME NEW rows, NEW later, NEW decision, NEW f,
           SoundIn(rows, decision, f),
           \A r \in Request : Applied(rows[r].status) => Applied(later[r].status)
    PROVE  SoundIn(later, decision, f)
BY DEF SoundIn

\* And of a list of them.
LEMMA ListStays ==
    ASSUME NEW rows, NEW later, NEW list, NEW r,
           ListIn(rows, list, r),
           \A q \in Request : Applied(rows[q].status) => Applied(later[q].status)
    PROVE  ListIn(later, list, r)
BY SoundStays DEF ListIn

\* The fields a request changes are fields, and there is one at least.
LEMMA WritesAreFields ==
    ASSUME NEW r \in Request
    PROVE  /\ Len(WritesOf[r]) \in Nat \ {0}
           /\ \A i \in 1 .. Len(WritesOf[r]) : WritesOf[r][i] \in Field /\ WritesOf[r][i] \in FieldsOf(r)
BY RequestConstants DEF FieldsOf

\* No list is not whole.
LEMMA EmptyList ==
    ASSUME NEW rows, NEW r \in Request PROVE ListIn(rows, <<>>, r)
BY WritesAreFields DEF ListIn

\* Accepting begins with a request that waits: nothing of it is written, and nobody is at it.
LEMMA ClaimKeeps ==
    ASSUME RequestsAreSound, NEW d \in Doer, NEW r \in Request, ClaimRequest(d, r)
    PROVE  RequestsAreSound'
<1>1. /\ doing[d].at = "idle" /\ request[r].status = "waiting"
      /\ request' = [request EXCEPT ![r] = [status |-> "accepted", applied |-> <<>>]]
      /\ doing' = [doing EXCEPT ![d] = [NotAtWork EXCEPT !.at = "read", !.request = r]]
      /\ override' = override /\ edits' = edits /\ cut' = cut /\ back' = back
    BY DEF ClaimRequest, Does
<1>2. /\ request \in [Request -> RequestRow] /\ doing \in [Doer -> Doing]
      /\ override \in [Field -> Standing]
    BY DEF RequestsAreSound, RequestTypes
<1>3. /\ doing'[d] = [at |-> "read", request |-> r, before |-> Nobody, applied |-> <<>>]
      /\ \A e \in Doer \ {d} : doing'[e] = doing[e]
      /\ request'[r] = [status |-> "accepted", applied |-> <<>>]
      /\ \A q \in Request \ {r} : request'[q] = request[q]
    BY <1>1, <1>2 DEF NotAtWork
<1>4. \A q \in Request : Applied(request[q].status) => Applied(request'[q].status)
    BY <1>3 DEF Applied
<1>5. RequestTypes'
  <2>1. [status |-> "accepted", applied |-> <<>>] \in RequestRow
      BY DEF RequestRow, Status
  <2>2. [at |-> "read", request |-> r, before |-> Nobody, applied |-> <<>>] \in Doing
      BY DEF Doing, Standing
  <2> QED BY <1>1, <1>2, <1>3, <2>1, <2>2 DEF RequestsAreSound, RequestTypes, NotAtWork
<1>6. \A e \in Doer : Writing(e) => Mine(e) # r
    BY <1>1 DEF RequestsAreSound, WritingIsSound, Applied
<1>7. ASSUME NEW e \in Doer PROVE (MineIsARequest(e) /\ WritingIsSound(e) /\ WritesInTurn(e))'
  <2>1. CASE e = d
    <3>1. ListIn(request', <<>>, r)
        BY EmptyList
    <3> QED BY <1>3, <2>1, <3>1, WritesAreFields
            DEF MineIsARequest, WritingIsSound, WritesInTurn, Writing, Mine, Applied
  <2>2. CASE e # d
    <3>1. MineIsARequest(e) /\ WritingIsSound(e) /\ WritesInTurn(e) /\ doing'[e] = doing[e]
        BY <1>3, <2>2 DEF RequestsAreSound
    <3>2. Writing(e) => Mine(e) \in Request /\ request'[Mine(e)] = request[Mine(e)]
        BY <1>3, <1>6, <3>1 DEF MineIsARequest, Writing
    <3>3. Writing(e) => ListIn(request', doing[e].applied, Mine(e))
        BY <1>4, <3>1, ListStays DEF WritingIsSound
    <3>5. WritingIsSound(e)'
      <4>1. Writing(e)' = Writing(e) /\ Mine(e)' = Mine(e)
          BY <3>1 DEF Writing, Mine
      <4> QED BY <1>1, <3>1, <3>2, <3>3, <4>1 DEF WritingIsSound
    <3>4. WritesInTurn(e)'
        BY <1>4, <3>1, SoundStays DEF WritesInTurn, Mine, FieldToWrite
    <3> QED BY <3>1, <3>4, <3>5 DEF MineIsARequest, Mine
  <2> QED BY <2>1, <2>2
<1>8. OneWriter'
    BY <1>1, <1>3, <1>6 DEF RequestsAreSound, OneWriter, Writing, Mine, Doer
<1>9. UndoIsClaimed'
  <2>1. UndoIsClaimed /\ MineIsARequest("page")
      BY DEF RequestsAreSound, Doer
  <2>2. CASE doing'["page"].at # "claim"
      BY <2>2 DEF UndoIsClaimed
  <2>3. CASE doing'["page"].at = "claim"
    <3>1. d # "page" /\ doing'["page"] = doing["page"]
        BY <1>3, <2>3 DEF Doer
    <3>2. Mine("page") # r /\ request'[Mine("page")] = request[Mine("page")]
        BY <1>1, <1>3, <2>1, <2>3, <3>1 DEF UndoIsClaimed, MineIsARequest
    <3>3. ListIn(request', doing["page"].applied, Mine("page"))
        BY <1>4, <2>1, <2>3, <3>1, ListStays DEF UndoIsClaimed
    <3>4. d = "check"
        BY <3>1 DEF Doer
    <3> QED BY <1>3, <2>1, <2>3, <3>1, <3>2, <3>3, <3>4 DEF UndoIsClaimed, Mine
  <2> QED BY <2>2, <2>3
<1>10. UndoIsSound'
  <2>1. UndoIsSound /\ MineIsARequest("page")
      BY DEF RequestsAreSound, Doer
  <2>2. CASE Undoing'
    <3>1. doing'["page"] = doing["page"]
        BY <1>3, <2>2 DEF Undoing, Doer
    <3>2. request'[Mine("page")] = request[Mine("page")] /\ Undoing
        BY <1>1, <1>3, <2>1, <2>2, <3>1 DEF UndoIsSound, MineIsARequest, Undoing
    <3>3. ListIn(request', doing["page"].applied, Mine("page"))
        BY <1>4, <2>1, <3>2, ListStays DEF UndoIsSound
    <3> QED BY <2>1, <3>1, <3>2, <3>3 DEF UndoIsSound, Mine
  <2> QED BY <2>2 DEF UndoIsSound
<1>11. OnlyThePageUndoes'
    BY <1>3 DEF RequestsAreSound, OnlyThePageUndoes, Doer
<1>12. ListsAreSound'
  <2> SUFFICES ASSUME NEW q \in Request
               PROVE  /\ ListIn(request', request'[q].applied, q)
                      /\ Len(request'[q].applied) \in {0, Len(WritesOf[q])}
                      /\ request'[q].status \notin {"accepted", "undone"} => request'[q].applied = <<>>
      BY DEF ListsAreSound
  <2>1. CASE q = r
      BY <1>3, <2>1, EmptyList
  <2>2. CASE q # r
      BY <1>3, <1>4, <2>2, ListStays DEF RequestsAreSound, ListsAreSound
  <2> QED BY <2>1, <2>2
<1>13. InForceIsSound'
    BY <1>1, <1>4, SoundStays DEF RequestsAreSound, InForceIsSound
<1>14. CanBeUndone'
  <2>1. Accepting(d, r)'
      BY <1>3 DEF Accepting
  <2>2. \A e \in Doer, q \in Request \ {r} : Accepting(e, q) => Accepting(e, q)'
      BY <1>1, <1>3 DEF Accepting
  <2> QED BY <1>1, <1>3, <2>1, <2>2 DEF RequestsAreSound, CanBeUndone
<1>15. PutBackInTurn'
  <2> SUFFICES ASSUME NEW f \in Field, override'[f] # Nobody, override'[f].by \in Request
               PROVE  \/ request'[override'[f].by].status # "undone"
                      \/ override'[f].by \in cut' \cup back'
                      \/ /\ Undoing' /\ Mine("page")' = override'[f].by
                         /\ \E i \in 1 .. Len(doing'["page"].applied) : f = WritesOf[Mine("page")'][i]
      BY DEF PutBackInTurn, Mine
  <2>1. CASE override[f].by = r
      BY <1>1, <1>3, <2>1
  <2>2. CASE ~Undoing /\ override[f].by # r
      BY <1>1, <1>3, <2>2 DEF RequestsAreSound, PutBackInTurn
  <2>3. CASE Undoing /\ override[f].by # r
    <3>1. doing'["page"] = doing["page"]
        BY <1>1, <1>3, <2>3 DEF Undoing, Doer
    <3> QED BY <1>1, <1>3, <2>3, <3>1 DEF RequestsAreSound, PutBackInTurn, Undoing, Mine
  <2> QED BY <2>1, <2>2, <2>3
<1> QED BY <1>5, <1>7, <1>8, <1>9, <1>10, <1>11, <1>12, <1>13, <1>14, <1>15 DEF RequestsAreSound

\* A step of one leaves what the other is at as it was.
LEMMA OtherKeeps ==
    ASSUME RequestsAreSound, NEW d \in Doer, request' = request, cut \subseteq cut',
           \A e \in Doer \ {d} : doing'[e] = doing[e]
    PROVE  \A e \in Doer \ {d} : (MineIsARequest(e) /\ WritingIsSound(e) /\ WritesInTurn(e))'
<1> SUFFICES ASSUME NEW e \in Doer \ {d}
             PROVE  (MineIsARequest(e) /\ WritingIsSound(e) /\ WritesInTurn(e))'
    OBVIOUS
<1>1. MineIsARequest(e) /\ WritingIsSound(e) /\ WritesInTurn(e) /\ doing'[e] = doing[e]
    BY DEF RequestsAreSound
<1>2. Writing(e)' = Writing(e) /\ Mine(e)' = Mine(e)
    BY <1>1 DEF Writing, Mine
<1>3. WritingIsSound(e)'
    BY <1>1, <1>2 DEF WritingIsSound
<1>4. WritesInTurn(e)' /\ MineIsARequest(e)'
    BY <1>1, <1>2 DEF WritesInTurn, MineIsARequest, FieldToWrite
<1> QED BY <1>3, <1>4

\* A step of an accept that goes on with its request keeps what does not depend on its place.
LEMMA GoesOnWriting ==
    ASSUME RequestsAreSound, NEW d \in Doer, request' = request, cut' = cut,
           \A e \in Doer \ {d} : doing'[e] = doing[e],
           Writing(d), Writing(d)', Mine(d)' = Mine(d)
    PROVE  (OneWriter /\ UndoIsClaimed /\ UndoIsSound /\ OnlyThePageUndoes /\ ListsAreSound /\ CanBeUndone)'
<1>1. \A e \in Doer : Writing(e)' = Writing(e) /\ (e # d => Mine(e)' = Mine(e))
    BY DEF Writing, Mine
<1>2. OneWriter'
    BY <1>1 DEF RequestsAreSound, OneWriter, Doer
<1>3. UndoIsClaimed' /\ UndoIsSound'
  <2>1. CASE d = "page"
      BY <2>1 DEF UndoIsClaimed, UndoIsSound, Undoing, Writing
  <2>2. CASE d = "check"
    <3>1. doing'["page"] = doing["page"] /\ UndoIsClaimed /\ UndoIsSound
        BY <2>2 DEF RequestsAreSound, Doer
    <3>2. UndoIsClaimed'
        BY <1>1, <2>2, <3>1 DEF UndoIsClaimed, Mine, Doer
    <3>3. UndoIsSound'
        BY <3>1 DEF UndoIsSound, Undoing, Mine
    <3> QED BY <3>2, <3>3
  <2> QED BY <2>1, <2>2 DEF Doer
<1>4. OnlyThePageUndoes'
    BY DEF RequestsAreSound, OnlyThePageUndoes, Writing, Doer
<1>5. ListsAreSound'
    BY DEF RequestsAreSound, ListsAreSound
<1>6. \A e \in Doer, r \in Request : Accepting(e, r)' = Accepting(e, r)
    BY <1>1 DEF Accepting, Writing, Mine
<1>7. CanBeUndone'
    BY <1>6 DEF RequestsAreSound, CanBeUndone
<1> QED BY <1>2, <1>3, <1>4, <1>5, <1>7

\* While the page neither begins nor ends an undo, and no decision of an undone request
\* comes into force, every one of them is accounted for.
LEMMA PutBackKept ==
    ASSUME RequestsAreSound, cut \subseteq cut', back \subseteq back',
           NEW f \in Field, override'[f] = override[f],
           request' = request,
           Undoing => doing'["page"] = doing["page"],
           override'[f] # Nobody, override'[f].by \in Request
    PROVE  \/ request'[override'[f].by].status # "undone"
           \/ override'[f].by \in cut' \cup back'
           \/ /\ Undoing' /\ Mine("page")' = override'[f].by
              /\ \E i \in 1 .. Len(doing'["page"].applied) : f = WritesOf[Mine("page")'][i]
<1>1. CASE ~Undoing
    BY <1>1 DEF RequestsAreSound, PutBackInTurn
<1>2. CASE Undoing
    BY <1>2 DEF RequestsAreSound, PutBackInTurn, Undoing, Mine
<1> QED BY <1>1, <1>2

\* Before a decision is written, what stands there is read.
LEMMA ReadBeforeKeeps ==
    ASSUME RequestsAreSound, NEW d \in Doer, ReadBefore(d)
    PROVE  RequestsAreSound'
<1>1. /\ doing[d].at = "read"
      /\ doing' = [doing EXCEPT ![d] = [doing[d] EXCEPT !.at = "write", !.before = override[FieldToWrite(d)]]]
      /\ request' = request /\ override' = override /\ edits' = edits /\ cut' = cut /\ back' = back
    BY DEF ReadBefore, Does
<1>2. doing \in [Doer -> Doing] /\ override \in [Field -> Standing]
    BY DEF RequestsAreSound, RequestTypes
<1>3. MineIsARequest(d) /\ WritingIsSound(d) /\ WritesInTurn(d)
    BY DEF RequestsAreSound
<1>4. /\ Mine(d) \in Request /\ Writing(d)
      /\ Len(doing[d].applied) \in Nat /\ Len(doing[d].applied) < Len(WritesOf[Mine(d)])
    BY <1>1, <1>2, <1>3 DEF MineIsARequest, WritesInTurn, Writing, Doing
<1>5. FieldToWrite(d) \in Field
    BY <1>4, WritesAreFields DEF FieldToWrite
<1>6. /\ doing'[d] = [doing[d] EXCEPT !.at = "write", !.before = override[FieldToWrite(d)]]
      /\ \A e \in Doer \ {d} : doing'[e] = doing[e]
    BY <1>1, <1>2
<1>7. /\ doing'[d].at = "write" /\ doing'[d].before = override[FieldToWrite(d)]
      /\ doing'[d].applied = doing[d].applied /\ doing'[d].request = doing[d].request
    BY <1>2, <1>6 DEF Doing
<1>8. RequestTypes'
  <2>1. override[FieldToWrite(d)] \in Standing /\ doing[d] \in Doing
      BY <1>2, <1>5
  <2>3. doing'[d] \in Doing
      BY <1>6, <2>1 DEF Doing
  <2>2. doing' \in [Doer -> Doing]
      BY <1>1, <1>2, <1>6, <2>3
  <2> QED BY <1>1, <2>2 DEF RequestsAreSound, RequestTypes
<1>9. Writing(d)' /\ Mine(d)' = Mine(d) /\ FieldToWrite(d)' = FieldToWrite(d)
    BY <1>7 DEF Writing, Mine, FieldToWrite
<1>10. (MineIsARequest(d) /\ WritingIsSound(d) /\ WritesInTurn(d))'
  <2>1. MineIsARequest(d)'
      BY <1>4, <1>9 DEF MineIsARequest
  <2>2. WritingIsSound(d)'
      BY <1>1, <1>3, <1>4, <1>7, <1>9 DEF WritingIsSound
  <2>3. SoundIn(request', override[FieldToWrite(d)], FieldToWrite(d))
      BY <1>1, <1>5 DEF RequestsAreSound, InForceIsSound
  <2>4. WritesInTurn(d)'
      BY <1>4, <1>7, <1>9, <2>3 DEF WritesInTurn
  <2> QED BY <2>1, <2>2, <2>4
<1>11. \A e \in Doer : (MineIsARequest(e) /\ WritingIsSound(e) /\ WritesInTurn(e))'
    BY <1>1, <1>6, <1>10, OtherKeeps
<1>12. (OneWriter /\ UndoIsClaimed /\ UndoIsSound /\ OnlyThePageUndoes /\ ListsAreSound /\ CanBeUndone)'
    BY <1>1, <1>4, <1>6, <1>9, GoesOnWriting
<1>13. InForceIsSound'
    BY <1>1 DEF RequestsAreSound, InForceIsSound
<1>14. PutBackInTurn'
  <2>1. Undoing => doing'["page"] = doing["page"]
      BY <1>1, <1>6 DEF Undoing, Doer
  <2> QED BY <1>1, <2>1, PutBackKept DEF PutBackInTurn
<1> QED BY <1>8, <1>11, <1>12, <1>13, <1>14 DEF RequestsAreSound

\* A decision is written on one of the request's fields, and what stood there joins its list.
LEMMA WriteDecisionKeeps ==
    ASSUME RequestsAreSound, NEW d \in Doer, WriteDecision(d)
    PROVE  RequestsAreSound'
<1> DEFINE list == Append(doing[d].applied, doing[d].before)
           more == Len(list) < Len(WritesOf[Mine(d)])
           decision == [value |-> Mine(d), by |-> Mine(d)]
<1>1. /\ doing[d].at = "write"
      /\ override' = [override EXCEPT ![FieldToWrite(d)] = decision]
      /\ doing' = [doing EXCEPT ![d] = [doing[d] EXCEPT !.at = IF more THEN "read" ELSE "record",
                                                       !.before = Nobody, !.applied = list]]
      /\ request' = request /\ edits' = edits /\ cut' = cut /\ back' = back
    BY DEF WriteDecision, Does
<1>2. doing \in [Doer -> Doing] /\ override \in [Field -> Standing]
    BY DEF RequestsAreSound, RequestTypes
<1>3. MineIsARequest(d) /\ WritingIsSound(d) /\ WritesInTurn(d)
    BY DEF RequestsAreSound
<1>4. /\ doing[d].applied \in Seq(Standing) /\ doing[d].before \in Standing
      /\ Len(doing[d].applied) \in Nat /\ Len(doing[d].applied) < Len(WritesOf[Mine(d)])
      /\ Mine(d) \in Request /\ Writing(d)
    BY <1>1, <1>2, <1>3 DEF MineIsARequest, WritesInTurn, Writing, Doing
<1>5. /\ list \in Seq(Standing) /\ Len(list) = Len(doing[d].applied) + 1
      /\ \A i \in 1 .. Len(doing[d].applied) : list[i] = doing[d].applied[i]
      /\ list[Len(doing[d].applied) + 1] = doing[d].before
    BY <1>4
<1>6. /\ Len(doing[d].applied) + 1 \in 1 .. Len(WritesOf[Mine(d)])
      /\ FieldToWrite(d) \in Field /\ FieldToWrite(d) \in FieldsOf(Mine(d))
    BY <1>4, WritesAreFields DEF FieldToWrite
<1>7. /\ doing'[d] = [doing[d] EXCEPT !.at = IF more THEN "read" ELSE "record", !.before = Nobody, !.applied = list]
      /\ \A e \in Doer \ {d} : doing'[e] = doing[e]
    BY <1>1, <1>2
<1>8. /\ doing'[d].at = IF more THEN "read" ELSE "record"
      /\ doing'[d].before = Nobody /\ doing'[d].applied = list /\ doing'[d].request = doing[d].request
    BY <1>2, <1>7 DEF Doing
<1>9. /\ override'[FieldToWrite(d)] = decision
      /\ \A f \in Field : f # FieldToWrite(d) => override'[f] = override[f]
    BY <1>1, <1>2, <1>6
<1>10. decision \in Standing
    BY <1>4 DEF Standing
<1>11. RequestTypes'
  <2>1. doing[d] \in Doing /\ Nobody \in Standing
      BY <1>2 DEF Standing
  <2>2. doing'[d] \in Doing
      BY <1>5, <1>7, <2>1 DEF Doing
  <2>3. doing' \in [Doer -> Doing]
      BY <1>1, <1>2, <1>7, <2>2
  <2>4. override' \in [Field -> Standing]
      BY <1>1, <1>2, <1>10
  <2> QED BY <1>1, <2>3, <2>4 DEF RequestsAreSound, RequestTypes
<1>12. Writing(d)' /\ Mine(d)' = Mine(d)
    BY <1>8 DEF Writing, Mine
<1>13. ListIn(request', list, Mine(d))
  <2> SUFFICES ASSUME NEW i \in 1 .. Len(list) PROVE SoundIn(request', list[i], WritesOf[Mine(d)][i])
      BY <1>4, <1>5 DEF ListIn
  <2>1. CASE i = Len(doing[d].applied) + 1
      BY <1>1, <1>3, <1>5, <2>1 DEF WritesInTurn, FieldToWrite
  <2>2. CASE i # Len(doing[d].applied) + 1
    <3>1. i \in 1 .. Len(doing[d].applied)
        BY <1>4, <1>5, <2>2
    <3> QED BY <1>1, <1>3, <1>4, <1>5, <3>1 DEF WritingIsSound, ListIn
  <2> QED BY <2>1, <2>2
<1>14. (MineIsARequest(d) /\ WritingIsSound(d) /\ WritesInTurn(d))'
  <2>1. MineIsARequest(d)'
      BY <1>4, <1>12 DEF MineIsARequest
  <2>2. WritingIsSound(d)'
      BY <1>1, <1>3, <1>4, <1>8, <1>12, <1>13 DEF WritingIsSound
  <2>3. Len(list) \in Nat /\ Len(WritesOf[Mine(d)]) \in Nat /\ Len(list) <= Len(WritesOf[Mine(d)])
      BY <1>4, <1>5, WritesAreFields
  <2>4. WritesInTurn(d)'
      BY <1>8, <1>12, <2>3 DEF WritesInTurn
  <2> QED BY <2>1, <2>2, <2>4
<1>15. \A e \in Doer : (MineIsARequest(e) /\ WritingIsSound(e) /\ WritesInTurn(e))'
    BY <1>1, <1>7, <1>14, OtherKeeps
<1>16. (OneWriter /\ UndoIsClaimed /\ UndoIsSound /\ OnlyThePageUndoes /\ ListsAreSound /\ CanBeUndone)'
    BY <1>1, <1>4, <1>7, <1>12, GoesOnWriting
<1>17. InForceIsSound'
  <2>1. SoundIn(request', decision, FieldToWrite(d))
      BY <1>1, <1>3, <1>4, <1>6 DEF SoundIn, WritingIsSound
  <2>2. \A f \in Field : f # FieldToWrite(d) => SoundIn(request', override'[f], f)
      BY <1>1, <1>9 DEF RequestsAreSound, InForceIsSound
  <2> QED BY <1>9, <2>1, <2>2 DEF InForceIsSound
<1>18. PutBackInTurn'
  <2>1. Undoing => doing'["page"] = doing["page"]
      BY <1>1, <1>7 DEF Undoing, Doer
  <2>2. request'[Mine(d)].status # "undone" \/ Mine(d) \in cut'
      BY <1>1, <1>3, <1>4 DEF WritingIsSound
  <2> SUFFICES ASSUME NEW f \in Field, override'[f] # Nobody, override'[f].by \in Request
               PROVE  \/ request'[override'[f].by].status # "undone"
                      \/ override'[f].by \in cut' \cup back'
                      \/ /\ Undoing' /\ Mine("page")' = override'[f].by
                         /\ \E i \in 1 .. Len(doing'["page"].applied) : f = WritesOf[Mine("page")'][i]
      BY DEF PutBackInTurn, Mine
  <2>3. CASE f = FieldToWrite(d)
      BY <1>9, <2>2, <2>3
  <2>4. CASE f # FieldToWrite(d)
      BY <1>1, <1>9, <2>1, <2>4, PutBackKept
  <2> QED BY <2>3, <2>4
<1> QED BY <1>11, <1>15, <1>16, <1>17, <1>18 DEF RequestsAreSound

\* The whole list is recorded, unless the request was undone meanwhile.
LEMMA RecordAppliedKeeps ==
    ASSUME RequestsAreSound, NEW d \in Doer, RecordApplied(d)
    PROVE  RequestsAreSound'
<1> DEFINE r == Mine(d)
<1>1. /\ doing[d].at = "record"
      /\ request' = [request EXCEPT ![r].applied = IF request[r].status = "accepted" THEN doing[d].applied ELSE @]
      /\ doing' = [doing EXCEPT ![d] = NotAtWork]
      /\ override' = override /\ edits' = edits /\ cut' = cut /\ back' = back
    BY DEF RecordApplied, Does
<1>2. /\ request \in [Request -> RequestRow] /\ doing \in [Doer -> Doing]
      /\ override \in [Field -> Standing]
    BY DEF RequestsAreSound, RequestTypes
<1>3. MineIsARequest(d) /\ WritingIsSound(d) /\ WritesInTurn(d)
    BY DEF RequestsAreSound
<1>4. /\ r \in Request /\ Writing(d) /\ request[r] \in RequestRow
      /\ doing[d].applied \in Seq(Standing) /\ Len(doing[d].applied) = Len(WritesOf[r])
      /\ ListIn(request, doing[d].applied, r) /\ Applied(request[r].status)
    BY <1>1, <1>2, <1>3 DEF MineIsARequest, WritingIsSound, WritesInTurn, Writing, Doing
<1>5. /\ doing'[d] = NotAtWork /\ \A e \in Doer \ {d} : doing'[e] = doing[e]
      /\ ~Writing(d)' /\ doing'[d].at = "idle"
    BY <1>1, <1>2 DEF NotAtWork, Writing
<1>6. /\ \A q \in Request \ {r} : request'[q] = request[q]
      /\ \A q \in Request : request'[q].status = request[q].status
      /\ request'[r].applied = IF request[r].status = "accepted" THEN doing[d].applied ELSE request[r].applied
      /\ request'[r] \in RequestRow
    BY <1>1, <1>2, <1>4 DEF RequestRow
<1>7. \A q \in Request : Applied(request[q].status) => Applied(request'[q].status)
    BY <1>6
<1>8. RequestTypes'
  <2>1. NotAtWork \in Doing
      BY DEF NotAtWork, Doing, Standing
  <2>2. request' \in [Request -> RequestRow]
      BY <1>1, <1>2, <1>6
  <2>3. doing' \in [Doer -> Doing]
      BY <1>1, <1>2, <2>1
  <2> QED BY <1>1, <2>2, <2>3 DEF RequestsAreSound, RequestTypes
<1>9. ASSUME NEW e \in Doer PROVE (MineIsARequest(e) /\ WritingIsSound(e) /\ WritesInTurn(e))'
  <2>1. CASE e = d
      BY <1>5, <2>1 DEF MineIsARequest, WritingIsSound, WritesInTurn, Writing
  <2>2. CASE e # d
    <3>1. MineIsARequest(e) /\ WritingIsSound(e) /\ WritesInTurn(e) /\ doing'[e] = doing[e]
        BY <1>5, <2>2 DEF RequestsAreSound
    <3>2. Writing(e)' = Writing(e) /\ Mine(e)' = Mine(e)
        BY <3>1 DEF Writing, Mine
    <3>3. Writing(e) => Mine(e) # r
        BY <1>4, <2>2 DEF RequestsAreSound, OneWriter, Doer
    <3>4. Writing(e) => Mine(e) \in Request /\ request'[Mine(e)] = request[Mine(e)]
        BY <1>6, <3>1, <3>3 DEF MineIsARequest, Writing
    <3>5. Writing(e) => ListIn(request', doing[e].applied, Mine(e))
        BY <1>7, <3>1, ListStays DEF WritingIsSound
    <3>6. WritingIsSound(e)'
        BY <1>1, <3>1, <3>2, <3>4, <3>5 DEF WritingIsSound
    <3>7. doing[e].at = "write" => SoundIn(request', doing[e].before, FieldToWrite(e))
        BY <1>7, <3>1, SoundStays DEF WritesInTurn
    <3>8. WritesInTurn(e)'
        BY <3>1, <3>2, <3>7 DEF WritesInTurn, FieldToWrite
    <3> QED BY <3>1, <3>2, <3>6, <3>8 DEF MineIsARequest
  <2> QED BY <2>1, <2>2
<1>10. OneWriter' /\ OnlyThePageUndoes'
    BY <1>5 DEF RequestsAreSound, OneWriter, OnlyThePageUndoes, Doer
<1>11. UndoIsClaimed' /\ UndoIsSound'
  <2>1. CASE d = "page"
      BY <1>5, <2>1 DEF UndoIsClaimed, UndoIsSound, Undoing
  <2>2. CASE d = "check"
    <3>1. doing'["page"] = doing["page"] /\ UndoIsClaimed /\ UndoIsSound /\ MineIsARequest("page")
        BY <1>5, <2>2 DEF RequestsAreSound, Doer
    <3>2. Mine("page")' = Mine("page") /\ Undoing' = Undoing
        BY <3>1 DEF Mine, Undoing
    <3>3. UndoIsClaimed'
      <4> SUFFICES ASSUME doing["page"].at = "claim" PROVE UndoIsClaimed'
          BY <3>1 DEF UndoIsClaimed
      <4>1. ListIn(request', doing["page"].applied, Mine("page"))
          BY <1>7, <3>1, ListStays DEF UndoIsClaimed
      <4>2. request'[Mine("page")].status = "accepted"
          BY <1>6, <3>1 DEF UndoIsClaimed, MineIsARequest
      <4> QED BY <1>5, <2>2, <3>1, <3>2, <4>1, <4>2 DEF UndoIsClaimed
    <3>4. UndoIsSound'
      <4> SUFFICES ASSUME Undoing PROVE UndoIsSound'
          BY <3>2 DEF UndoIsSound
      <4>1. ListIn(request', doing["page"].applied, Mine("page"))
          BY <1>7, <3>1, ListStays DEF UndoIsSound
      <4>2. request'[Mine("page")].status = "undone"
          BY <1>6, <3>1 DEF UndoIsSound, MineIsARequest, Undoing
      <4> QED BY <3>1, <3>2, <4>1, <4>2 DEF UndoIsSound
    <3> QED BY <3>3, <3>4
  <2> QED BY <2>1, <2>2 DEF Doer
<1>12. ListsAreSound'
  <2> SUFFICES ASSUME NEW q \in Request
               PROVE  /\ ListIn(request', request'[q].applied, q)
                      /\ Len(request'[q].applied) \in {0, Len(WritesOf[q])}
                      /\ request'[q].status \notin {"accepted", "undone"} => request'[q].applied = <<>>
      BY DEF ListsAreSound
  <2>1. /\ ListIn(request, request[q].applied, q)
        /\ Len(request[q].applied) \in {0, Len(WritesOf[q])}
        /\ request[q].status \notin {"accepted", "undone"} => request[q].applied = <<>>
      BY DEF RequestsAreSound, ListsAreSound
  <2>2. ListIn(request', request[q].applied, q)
      BY <1>7, <2>1, ListStays
  <2>3. ListIn(request', doing[d].applied, r)
      BY <1>4, <1>7, ListStays
  <2> QED BY <1>4, <1>6, <2>1, <2>2, <2>3 DEF Applied
<1>13. InForceIsSound'
    BY <1>1, <1>7, SoundStays DEF RequestsAreSound, InForceIsSound
<1>14. CanBeUndone'
  <2>1. \A e \in Doer, q \in Request \ {r} : Accepting(e, q)' = Accepting(e, q)
      BY <1>4, <1>5 DEF Accepting, Mine, Writing
  <2> QED BY <1>1, <1>4, <1>6, <2>1 DEF RequestsAreSound, CanBeUndone
<1>15. PutBackInTurn'
  <2>1. Undoing => doing'["page"] = doing["page"]
      BY <1>1, <1>5 DEF Undoing, Doer
  <2>2. CASE Undoing
      BY <1>1, <1>6, <2>1, <2>2 DEF RequestsAreSound, PutBackInTurn, Undoing, Mine
  <2>3. CASE ~Undoing
      BY <1>1, <1>6, <2>3 DEF RequestsAreSound, PutBackInTurn
  <2> QED BY <2>2, <2>3
<1> QED BY <1>8, <1>9, <1>10, <1>11, <1>12, <1>13, <1>14, <1>15 DEF RequestsAreSound

\* One that stops part way leaves a request that is not whole.
LEMMA CutShortKeeps ==
    ASSUME RequestsAreSound, NEW d \in Doer, CutShort(d)
    PROVE  RequestsAreSound'
<1>1. /\ doing[d].at # "idle" /\ doing' = [doing EXCEPT ![d] = NotAtWork]
      /\ cut' = IF doing[d].at = "claim" THEN cut ELSE cut \cup {Mine(d)}
      /\ request' = request /\ override' = override /\ edits' = edits /\ back' = back
    BY DEF CutShort, Does
<1>2. doing \in [Doer -> Doing] /\ Mine(d) \in Request /\ cut \subseteq cut'
    BY <1>1 DEF RequestsAreSound, RequestTypes, MineIsARequest
<1>3. /\ doing'[d] = NotAtWork /\ doing'[d].at = "idle" /\ ~Writing(d)'
      /\ \A e \in Doer \ {d} : doing'[e] = doing[e]
    BY <1>1, <1>2 DEF NotAtWork, Writing
<1>4. RequestTypes'
  <2>1. NotAtWork \in Doing
      BY DEF NotAtWork, Doing, Standing
  <2>2. doing' \in [Doer -> Doing]
      BY <1>1, <1>2, <2>1
  <2> QED BY <1>1, <1>2, <2>2 DEF RequestsAreSound, RequestTypes
<1>5. \A e \in Doer : (MineIsARequest(e) /\ WritingIsSound(e) /\ WritesInTurn(e))'
  <2>1. (MineIsARequest(d) /\ WritingIsSound(d) /\ WritesInTurn(d))'
      BY <1>3 DEF MineIsARequest, WritingIsSound, WritesInTurn, Writing
  <2> QED BY <1>1, <1>2, <1>3, <2>1, OtherKeeps
<1>6. OneWriter' /\ OnlyThePageUndoes'
    BY <1>3 DEF RequestsAreSound, OneWriter, OnlyThePageUndoes, Doer
<1>7. UndoIsClaimed' /\ UndoIsSound'
  <2>1. CASE d = "page"
      BY <1>3, <2>1 DEF UndoIsClaimed, UndoIsSound, Undoing
  <2>2. CASE d = "check"
    <3>1. doing'["page"] = doing["page"] /\ UndoIsClaimed /\ UndoIsSound
        BY <1>3, <2>2 DEF RequestsAreSound, Doer
    <3>2. UndoIsClaimed'
        BY <1>1, <1>3, <2>2, <3>1 DEF UndoIsClaimed, Mine
    <3>3. UndoIsSound'
        BY <1>1, <3>1 DEF UndoIsSound, Undoing, Mine
    <3> QED BY <3>2, <3>3
  <2> QED BY <2>1, <2>2 DEF Doer
<1>8. ListsAreSound' /\ InForceIsSound'
    BY <1>1 DEF RequestsAreSound, ListsAreSound, InForceIsSound
<1>9. CanBeUndone'
  <2>1. \A e \in Doer, q \in Request : Accepting(e, q) => Accepting(e, q)' \/ q \in cut'
      BY <1>1, <1>3 DEF Accepting, Mine
  <2> QED BY <1>1, <1>2, <2>1 DEF RequestsAreSound, CanBeUndone
<1>10. PutBackInTurn'
  <2>1. CASE d = "page" /\ Undoing
    <3>1. Mine(d) \in cut'
        BY <1>1, <2>1 DEF Undoing
    <3> QED BY <1>1, <1>2, <2>1, <3>1 DEF RequestsAreSound, PutBackInTurn
  <2>2. CASE ~(d = "page" /\ Undoing)
    <3>1. Undoing => doing'["page"] = doing["page"]
        BY <1>3, <2>2 DEF Doer
    <3> QED BY <1>1, <1>2, <3>1, PutBackKept DEF PutBackInTurn
  <2> QED BY <2>1, <2>2
<1> QED BY <1>4, <1>5, <1>6, <1>7, <1>8, <1>9, <1>10 DEF RequestsAreSound

-----------------------------------------------------------------------------
\* An undo begins with the list as it is, which is empty while the request is being applied.
LEMMA BeginUndoKeeps ==
    ASSUME RequestsAreSound, NEW r \in Request, BeginUndo(r)
    PROVE  RequestsAreSound'
<1>1. /\ doing["page"].at = "idle" /\ request[r].status = "accepted"
      /\ doing' = [doing EXCEPT !["page"] = [NotAtWork EXCEPT !.at = "claim", !.request = r,
                                                            !.applied = request[r].applied]]
      /\ request' = request /\ override' = override /\ edits' = edits /\ cut' = cut /\ back' = back
    BY DEF BeginUndo, Does
<1>2. doing \in [Doer -> Doing] /\ request[r] \in RequestRow /\ "page" \in Doer /\ "check" \in Doer
    BY DEF RequestsAreSound, RequestTypes, Doer
<1>3. /\ doing'["page"] = [at |-> "claim", request |-> r, before |-> Nobody, applied |-> request[r].applied]
      /\ \A e \in Doer \ {"page"} : doing'[e] = doing[e]
      /\ ~Writing("page") /\ ~Writing("page")' /\ ~Undoing /\ ~Undoing'
    BY <1>1, <1>2 DEF NotAtWork, Writing, Undoing
<1>4. RequestTypes'
  <2>1. doing'["page"] \in Doing
      BY <1>2, <1>3 DEF Doing, Standing, RequestRow
  <2>2. doing' \in [Doer -> Doing]
      BY <1>1, <1>2, <1>3, <2>1
  <2> QED BY <1>1, <2>2 DEF RequestsAreSound, RequestTypes
<1>5. \A e \in Doer : (MineIsARequest(e) /\ WritingIsSound(e) /\ WritesInTurn(e))'
  <2>1. (MineIsARequest("page") /\ WritingIsSound("page") /\ WritesInTurn("page"))'
      BY <1>3 DEF MineIsARequest, WritingIsSound, WritesInTurn, Writing, Mine
  <2> QED BY <1>1, <1>2, <1>3, <2>1, OtherKeeps
<1>6. OneWriter' /\ OnlyThePageUndoes' /\ UndoIsSound'
    BY <1>2, <1>3 DEF RequestsAreSound, OneWriter, OnlyThePageUndoes, UndoIsSound
<1>7. UndoIsClaimed'
  <2>1. /\ ListIn(request, request[r].applied, r)
        /\ Len(request[r].applied) \in {0, Len(WritesOf[r])}
      BY DEF RequestsAreSound, ListsAreSound
  <2>2. Writing("check") /\ Mine("check") = r => request[r].applied = <<>>
      BY <1>2 DEF RequestsAreSound, WritingIsSound
  <2>3. Writing("check")' = Writing("check") /\ Mine("check")' = Mine("check") /\ Mine("page")' = r
      BY <1>2, <1>3 DEF Writing, Mine
  <2> QED BY <1>1, <1>3, <2>1, <2>2, <2>3 DEF UndoIsClaimed
<1>8. ListsAreSound' /\ InForceIsSound'
    BY <1>1 DEF RequestsAreSound, ListsAreSound, InForceIsSound
<1>9. CanBeUndone'
  <2>1. \A e \in Doer, q \in Request : Accepting(e, q)' = Accepting(e, q)
      BY <1>2, <1>3 DEF Accepting, Writing
  <2> QED BY <1>1, <2>1 DEF RequestsAreSound, CanBeUndone
<1>10. PutBackInTurn'
    BY <1>1, <1>3, PutBackKept DEF PutBackInTurn
<1> QED BY <1>4, <1>5, <1>6, <1>7, <1>8, <1>9, <1>10 DEF RequestsAreSound

\* Once the undo is claimed, a whole list names every field the request's decisions stand on.
LEMMA ClaimUndoKeeps ==
    ASSUME RequestsAreSound, ClaimUndo
    PROVE  RequestsAreSound'
<1> DEFINE r == Mine("page")
           whole == Len(doing["page"].applied) = Len(WritesOf[r])
<1>1. /\ doing["page"].at = "claim" /\ request[r].status = "accepted"
      /\ request' = [request EXCEPT ![r].status = "undone"]
      /\ cut' = IF whole THEN cut ELSE cut \cup {r}
      /\ doing' = [doing EXCEPT !["page"] = IF whole THEN [doing["page"] EXCEPT !.at = "now"] ELSE NotAtWork]
      /\ override' = override /\ edits' = edits /\ back' = back
    BY DEF ClaimUndo, Does
<1>2. /\ request \in [Request -> RequestRow] /\ doing \in [Doer -> Doing]
      /\ override \in [Field -> Standing] /\ "page" \in Doer /\ "check" \in Doer
    BY DEF RequestsAreSound, RequestTypes, Doer
<1>3. /\ r \in Request /\ cut \subseteq cut'
      /\ ListIn(request, doing["page"].applied, r)
      /\ Len(doing["page"].applied) \in {0, Len(WritesOf[r])}
      /\ Writing("check") /\ Mine("check") = r => doing["page"].applied = <<>>
    BY <1>1, <1>2 DEF RequestsAreSound, MineIsARequest, UndoIsClaimed
<1>4. /\ \A q \in Request \ {r} : request'[q] = request[q]
      /\ request'[r].status = "undone" /\ request'[r].applied = request[r].applied
      /\ request'[r] \in RequestRow
    BY <1>1, <1>2, <1>3 DEF RequestRow, Status
<1>5. \A q \in Request : Applied(request[q].status) => Applied(request'[q].status)
    BY <1>4 DEF Applied
<1>6. /\ doing'["page"] = IF whole THEN [doing["page"] EXCEPT !.at = "now"] ELSE NotAtWork
      /\ doing'["check"] = doing["check"]
    BY <1>1, <1>2
<1>7. /\ whole => /\ doing'["page"].at = "now" /\ doing'["page"].request = r
                  /\ doing'["page"].applied = doing["page"].applied
      /\ ~whole => doing'["page"].at = "idle"
      /\ ~Writing("page")' /\ ~Writing("page") /\ ~Undoing
      /\ Writing("check")' = Writing("check") /\ Mine("check")' = Mine("check")
  <2>1. doing["page"] \in Doing
      BY <1>2
  <2> QED BY <1>1, <1>6, <2>1 DEF Doing, NotAtWork, Writing, Mine, Undoing
<1>8. RequestTypes'
  <2>1. NotAtWork \in Doing /\ doing["page"] \in Doing
      BY <1>2 DEF NotAtWork, Doing, Standing
  <2>2. doing'["page"] \in Doing
      BY <1>6, <2>1 DEF Doing
  <2>3. doing' \in [Doer -> Doing]
      BY <1>1, <1>2, <1>6, <2>2
  <2>4. request' \in [Request -> RequestRow]
      BY <1>1, <1>2, <1>4
  <2> QED BY <1>1, <1>3, <2>3, <2>4 DEF RequestsAreSound, RequestTypes
<1>9. (MineIsARequest("page") /\ WritingIsSound("page") /\ WritesInTurn("page"))'
  <2>1. WritingIsSound("page")' /\ WritesInTurn("page")'
      BY <1>7 DEF WritingIsSound, WritesInTurn, Writing
  <2>2. MineIsARequest("page")'
      BY <1>3, <1>7 DEF MineIsARequest, Mine
  <2> QED BY <2>1, <2>2
<1>10. (MineIsARequest("check") /\ WritingIsSound("check") /\ WritesInTurn("check"))'
  <2>1. MineIsARequest("check") /\ WritingIsSound("check") /\ WritesInTurn("check")
      BY <1>2 DEF RequestsAreSound
  <2>2. MineIsARequest("check")'
      BY <1>6, <1>7, <2>1 DEF MineIsARequest
  <2>3. WritingIsSound("check")'
    <3> SUFFICES ASSUME Writing("check") PROVE WritingIsSound("check")'
        BY <1>7 DEF WritingIsSound
    <3>1. ListIn(request', doing["check"].applied, Mine("check"))
        BY <1>5, <2>1, ListStays DEF WritingIsSound
    <3>2. CASE Mine("check") = r
      <4>1. ~whole
          BY <1>3, <3>2, WritesAreFields
      <4> QED BY <1>1, <1>4, <1>6, <1>7, <2>1, <3>1, <3>2, <4>1 DEF WritingIsSound, Applied
    <3>3. CASE Mine("check") # r
      <4>1. Mine("check") \in Request
          BY <2>1 DEF MineIsARequest, Writing
      <4> QED BY <1>3, <1>4, <1>6, <1>7, <2>1, <3>1, <3>3, <4>1 DEF WritingIsSound
    <3> QED BY <3>2, <3>3
  <2>4. doing["check"].at = "write" => SoundIn(request', doing["check"].before, FieldToWrite("check"))
      BY <1>5, <2>1, SoundStays DEF WritesInTurn
  <2>5. WritesInTurn("check")'
      BY <1>6, <1>7, <2>1, <2>4 DEF WritesInTurn, FieldToWrite
  <2> QED BY <2>2, <2>3, <2>5
<1>11. OneWriter' /\ OnlyThePageUndoes' /\ UndoIsClaimed'
    BY <1>6, <1>7 DEF RequestsAreSound, OneWriter, OnlyThePageUndoes, UndoIsClaimed
<1>12. UndoIsSound'
  <2>1. whole => Len(doing["page"].applied) # 0 /\ ListIn(request', doing["page"].applied, r)
      BY <1>3, <1>5, ListStays, WritesAreFields
  <2> QED BY <1>4, <1>7, <2>1 DEF UndoIsSound, Undoing, Mine
<1>13. ListsAreSound'
  <2> SUFFICES ASSUME NEW q \in Request
               PROVE  /\ ListIn(request', request'[q].applied, q)
                      /\ Len(request'[q].applied) \in {0, Len(WritesOf[q])}
                      /\ request'[q].status \notin {"accepted", "undone"} => request'[q].applied = <<>>
      BY DEF ListsAreSound
  <2>1. request'[q].applied = request[q].applied
      BY <1>4
  <2> QED BY <1>4, <1>5, <2>1, ListStays DEF RequestsAreSound, ListsAreSound
<1>14. InForceIsSound'
    BY <1>1, <1>5, SoundStays DEF RequestsAreSound, InForceIsSound
<1>15. CanBeUndone'
  <2>1. \A e \in Doer, q \in Request : Accepting(e, q)' = Accepting(e, q)
      BY <1>6, <1>7 DEF Accepting, Doer, Writing
  <2> QED BY <1>3, <1>4, <2>1 DEF RequestsAreSound, CanBeUndone
<1>16. PutBackInTurn'
  <2> SUFFICES ASSUME NEW f \in Field, override'[f] # Nobody, override'[f].by \in Request
               PROVE  \/ request'[override'[f].by].status # "undone"
                      \/ override'[f].by \in cut' \cup back'
                      \/ /\ Undoing' /\ Mine("page")' = override'[f].by
                         /\ \E i \in 1 .. Len(doing'["page"].applied) : f = WritesOf[Mine("page")'][i]
      BY DEF PutBackInTurn, Mine
  <2>1. CASE override[f].by # r
      BY <1>1, <1>3, <1>4, <1>7, <2>1 DEF RequestsAreSound, PutBackInTurn
  <2>2. CASE override[f].by = r /\ ~whole
      BY <1>1, <2>2
  <2>3. CASE override[f].by = r /\ whole
    <3>1. f \in FieldsOf(r)
        BY <1>1, <2>3 DEF RequestsAreSound, InForceIsSound, SoundIn
    <3> QED BY <1>1, <1>7, <2>3, <3>1 DEF FieldsOf, Undoing, Mine
  <2> QED BY <2>1, <2>2, <2>3
<1> QED BY <1>8, <1>9, <1>10, <1>11, <1>12, <1>13, <1>14, <1>15, <1>16 DEF RequestsAreSound, Doer

\* A step of the undo, to the decision before or to putting this one back, keeps what does not
\* depend on the decisions in force.
LEMMA UndoGoesOn ==
    ASSUME RequestsAreSound, Undoing, request' = request, cut' = cut,
           \A e \in Doer \ {"page"} : doing'[e] = doing[e],
           doing' = [doing EXCEPT !["page"] = doing'["page"]],
           \/ doing'["page"] = NextPut("page")
           \/ doing'["page"] = [doing["page"] EXCEPT !.at = "put"]
    PROVE  /\ doing' \in [Doer -> Doing]
           /\ \A e \in Doer : (MineIsARequest(e) /\ WritingIsSound(e) /\ WritesInTurn(e))'
           /\ (OneWriter /\ UndoIsClaimed /\ UndoIsSound /\ OnlyThePageUndoes /\ ListsAreSound /\ CanBeUndone)'
<1> DEFINE w == doing["page"]
           n == Len(w.applied)
<1>1. /\ doing \in [Doer -> Doing] /\ w \in Doing /\ "page" \in Doer /\ "check" \in Doer
      /\ NotAtWork \in Doing
    BY DEF RequestsAreSound, RequestTypes, Doer, NotAtWork, Doing, Standing
<1>2. /\ w.applied \in Seq(Standing) /\ n \in Nat \ {0} /\ Mine("page") \in Request
      /\ request[Mine("page")].status = "undone" /\ ListIn(request, w.applied, Mine("page"))
    BY <1>1 DEF RequestsAreSound, UndoIsSound, MineIsARequest, Undoing, Doing
<1>3. /\ SubSeq(w.applied, 1, n - 1) \in Seq(Standing)
      /\ Len(SubSeq(w.applied, 1, n - 1)) = n - 1
      /\ \A i \in 1 .. n - 1 : SubSeq(w.applied, 1, n - 1)[i] = w.applied[i]
    BY <1>2
<1>4. ListIn(request, SubSeq(w.applied, 1, n - 1), Mine("page"))
    BY <1>2, <1>3, WritesAreFields DEF ListIn
<1>5. doing'["page"] \in Doing
    BY <1>1, <1>3 DEF NextPut, Doing
<1>6. /\ doing'["page"].at \in {"idle", "now", "put"}
      /\ doing'["page"].at # "idle" =>
            /\ Mine("page")' = Mine("page")
            /\ Len(doing'["page"].applied) # 0
            /\ ListIn(request, doing'["page"].applied, Mine("page"))
  <2>1. CASE n <= 1 /\ doing'["page"] = NextPut("page")
      BY <2>1 DEF NextPut, NotAtWork
  <2>2. CASE n > 1 /\ doing'["page"] = NextPut("page")
    <3>1. doing'["page"] = [w EXCEPT !.at = "now", !.applied = SubSeq(w.applied, 1, n - 1)]
        BY <1>1, <1>2, <2>2 DEF NextPut
    <3>2. /\ doing'["page"].at = "now" /\ doing'["page"].request = w.request
          /\ doing'["page"].applied = SubSeq(w.applied, 1, n - 1)
        BY <1>1, <3>1 DEF Doing
    <3>3. Len(doing'["page"].applied) # 0
        BY <1>2, <1>3, <2>2, <3>2
    <3> QED BY <1>4, <3>2, <3>3 DEF Mine
  <2>3. CASE doing'["page"] = [w EXCEPT !.at = "put"]
      BY <1>1, <1>2, <2>3 DEF Doing, Mine
  <2> QED BY <1>2, <2>1, <2>2, <2>3
<1>7. ~Writing("page") /\ ~Writing("page")' /\ Writing("check")' = Writing("check") /\ Mine("check")' = Mine("check")
    BY <1>1, <1>6 DEF Undoing, Writing, Mine
<1>8. doing' \in [Doer -> Doing]
    BY <1>1, <1>5
<1>9. \A e \in Doer : (MineIsARequest(e) /\ WritingIsSound(e) /\ WritesInTurn(e))'
  <2>1. (MineIsARequest("page") /\ WritingIsSound("page") /\ WritesInTurn("page"))'
      BY <1>2, <1>6, <1>7 DEF MineIsARequest, WritingIsSound, WritesInTurn, Writing
  <2> QED BY <1>1, <2>1, OtherKeeps
<1>10. (OneWriter /\ OnlyThePageUndoes /\ ListsAreSound)'
    BY <1>1, <1>7 DEF RequestsAreSound, OneWriter, OnlyThePageUndoes, ListsAreSound
<1>11. (UndoIsClaimed /\ UndoIsSound)'
    BY <1>2, <1>6 DEF UndoIsClaimed, UndoIsSound, Undoing
<1>12. CanBeUndone'
  <2>1. \A e \in Doer, q \in Request : Accepting(e, q)' = Accepting(e, q)
      BY <1>1, <1>7 DEF Accepting, Writing
  <2> QED BY <2>1 DEF RequestsAreSound, CanBeUndone
<1> QED BY <1>8, <1>9, <1>10, <1>11, <1>12

\* The fields the page has still to look at once it is past one: the ones before.
LEMMA StillToLookAt ==
    ASSUME RequestsAreSound, Undoing, doing'["page"] = NextPut("page"),
           NEW i \in 1 .. Len(doing["page"].applied), i # Len(doing["page"].applied)
    PROVE  Undoing' /\ Mine("page")' = Mine("page") /\ i \in 1 .. Len(doing'["page"].applied)
<1>1. doing["page"] \in Doing
    BY DEF RequestsAreSound, RequestTypes, Doer
<1>2. doing["page"].applied \in Seq(Standing) /\ Len(doing["page"].applied) > 1
    BY <1>1 DEF Doing
<1>3. doing'["page"] = [doing["page"] EXCEPT !.at = "now",
                            !.applied = SubSeq(doing["page"].applied, 1, Len(doing["page"].applied) - 1)]
    BY <1>1, <1>2 DEF NextPut
<1>4. /\ doing'["page"].at = "now" /\ doing'["page"].request = doing["page"].request
      /\ doing'["page"].applied = SubSeq(doing["page"].applied, 1, Len(doing["page"].applied) - 1)
    BY <1>1, <1>3 DEF Doing
<1>5. Len(doing'["page"].applied) = Len(doing["page"].applied) - 1
    BY <1>2, <1>4
<1> QED BY <1>2, <1>4, <1>5 DEF Undoing, Mine

\* A decision the undo passes over is not one of its request's.
LEMMA ReadNowKeeps ==
    ASSUME RequestsAreSound, ReadNow
    PROVE  RequestsAreSound'
<1> DEFINE f0 == FieldToPut("page")
<1>1. /\ doing["page"].at = "now" /\ Undoing
      /\ doing' = [doing EXCEPT !["page"] = IF StillThere(override[f0])
                                           THEN [doing["page"] EXCEPT !.at = "put"] ELSE NextPut("page")]
      /\ request' = request /\ override' = override /\ edits' = edits /\ cut' = cut /\ back' = back
    BY DEF ReadNow, Does, Undoing
<1>2. doing \in [Doer -> Doing] /\ "page" \in Doer /\ doing["page"] \in Doing
    BY DEF RequestsAreSound, RequestTypes, Doer
<1>3. /\ doing'["page"] = IF StillThere(override[f0]) THEN [doing["page"] EXCEPT !.at = "put"] ELSE NextPut("page")
      /\ \A e \in Doer \ {"page"} : doing'[e] = doing[e]
    BY <1>1, <1>2
<1>4. doing' = [doing EXCEPT !["page"] = doing'["page"]]
    BY <1>1, <1>3
<1>5. /\ doing' \in [Doer -> Doing]
      /\ \A e \in Doer : (MineIsARequest(e) /\ WritingIsSound(e) /\ WritesInTurn(e))'
      /\ (OneWriter /\ UndoIsClaimed /\ UndoIsSound /\ OnlyThePageUndoes /\ ListsAreSound /\ CanBeUndone)'
    BY <1>1, <1>3, <1>4, UndoGoesOn
<1>6. RequestTypes' /\ InForceIsSound'
    BY <1>1, <1>5 DEF RequestsAreSound, RequestTypes, InForceIsSound
<1>7. PutBackInTurn'
  <2> SUFFICES ASSUME NEW f \in Field, override[f] # Nobody, override[f].by \in Request,
                      request[override[f].by].status = "undone", override[f].by \notin cut \cup back
               PROVE  /\ Undoing' /\ Mine("page")' = override[f].by
                      /\ \E i \in 1 .. Len(doing'["page"].applied) : f = WritesOf[Mine("page")'][i]
      BY <1>1 DEF PutBackInTurn, Mine
  <2>1. PICK i \in 1 .. Len(doing["page"].applied) : f = WritesOf[Mine("page")][i]
      BY DEF RequestsAreSound, PutBackInTurn
  <2>2. Mine("page") = override[f].by
      BY DEF RequestsAreSound, PutBackInTurn
  <2>3. CASE StillThere(override[f0])
    <3>1. /\ doing'["page"].at = "put" /\ doing'["page"].request = doing["page"].request
          /\ doing'["page"].applied = doing["page"].applied
        BY <1>2, <1>3, <2>3 DEF Doing
    <3> QED BY <2>1, <2>2, <3>1 DEF Undoing, Mine
  <2>4. CASE ~StillThere(override[f0])
    <3>1. override[f].value = override[f].by
        BY DEF RequestsAreSound, InForceIsSound, SoundIn
    <3>2. f # f0
        BY <2>2, <2>4, <3>1 DEF StillThere
    <3>3. i # Len(doing["page"].applied)
        BY <2>1, <3>2 DEF FieldToPut
    <3> QED BY <1>1, <1>3, <2>1, <2>2, <2>4, <3>3, StillToLookAt
  <2> QED BY <2>3, <2>4
<1> QED BY <1>5, <1>6, <1>7 DEF RequestsAreSound

\* What is put back is sound, and noted when it is of a request undone before.
LEMMA PutBackKeeps ==
    ASSUME RequestsAreSound, PutBack
    PROVE  RequestsAreSound'
<1> DEFINE f0 == FieldToPut("page")
           n == Len(doing["page"].applied)
           before == doing["page"].applied[n]
<1>1. /\ doing["page"].at = "put" /\ Undoing
      /\ override' = [override EXCEPT ![f0] = before]
      /\ back' = IF before # Nobody /\ before.by \in Request /\ request[before.by].status = "undone"
                 THEN back \cup {before.by} ELSE back
      /\ doing' = [doing EXCEPT !["page"] = NextPut("page")]
      /\ request' = request /\ edits' = edits /\ cut' = cut
    BY DEF PutBack, Does, Undoing
<1>2. /\ doing \in [Doer -> Doing] /\ "page" \in Doer /\ doing["page"] \in Doing
      /\ override \in [Field -> Standing] /\ back \subseteq Request
    BY DEF RequestsAreSound, RequestTypes, Doer
<1>3. doing'["page"] = NextPut("page") /\ \A e \in Doer \ {"page"} : doing'[e] = doing[e]
    BY <1>1, <1>2
<1>4. doing' = [doing EXCEPT !["page"] = doing'["page"]]
    BY <1>1, <1>3
<1>5. /\ doing' \in [Doer -> Doing]
      /\ \A e \in Doer : (MineIsARequest(e) /\ WritingIsSound(e) /\ WritesInTurn(e))'
      /\ (OneWriter /\ UndoIsClaimed /\ UndoIsSound /\ OnlyThePageUndoes /\ ListsAreSound /\ CanBeUndone)'
    BY <1>1, <1>3, <1>4, UndoGoesOn
<1>6. /\ doing["page"].applied \in Seq(Standing) /\ n \in Nat \ {0} /\ Mine("page") \in Request
      /\ ListIn(request, doing["page"].applied, Mine("page"))
    BY <1>1, <1>2 DEF RequestsAreSound, UndoIsSound, MineIsARequest, Undoing, Doing
<1>7. before \in Standing /\ f0 \in Field /\ SoundIn(request, before, f0)
  <2>1. n \in 1 .. Len(WritesOf[Mine("page")])
      BY <1>6, WritesAreFields DEF ListIn
  <2> QED BY <1>6, <2>1, WritesAreFields DEF ListIn, FieldToPut
<1>8. override'[f0] = before /\ \A f \in Field : f # f0 => override'[f] = override[f]
    BY <1>1, <1>2, <1>7
<1>9. RequestTypes'
  <2>1. override' \in [Field -> Standing]
      BY <1>1, <1>2, <1>7
  <2>2. back' \subseteq Request
      BY <1>1, <1>2
  <2> QED BY <1>1, <1>5, <2>1, <2>2 DEF RequestsAreSound, RequestTypes
<1>10. InForceIsSound'
    BY <1>1, <1>7, <1>8 DEF RequestsAreSound, InForceIsSound
<1>11. PutBackInTurn'
  <2> SUFFICES ASSUME NEW f \in Field, override'[f] # Nobody, override'[f].by \in Request,
                      request[override'[f].by].status = "undone", override'[f].by \notin cut \cup back'
               PROVE  /\ Undoing' /\ Mine("page")' = override'[f].by
                      /\ \E i \in 1 .. Len(doing'["page"].applied) : f = WritesOf[Mine("page")'][i]
      BY <1>1 DEF PutBackInTurn, Mine
  <2>1. f # f0
      BY <1>1, <1>8
  <2>2. override'[f] = override[f] /\ override[f].by \notin cut \cup back
      BY <1>1, <1>8, <2>1
  <2>3. PICK i \in 1 .. Len(doing["page"].applied) : f = WritesOf[Mine("page")][i]
      BY <2>2 DEF RequestsAreSound, PutBackInTurn
  <2>4. Mine("page") = override[f].by
      BY <2>2 DEF RequestsAreSound, PutBackInTurn
  <2>5. i # Len(doing["page"].applied)
      BY <2>1, <2>3 DEF FieldToPut
  <2> QED BY <1>1, <1>3, <2>2, <2>3, <2>4, <2>5, StillToLookAt
<1> QED BY <1>5, <1>9, <1>10, <1>11 DEF RequestsAreSound

-----------------------------------------------------------------------------
\* A request that waits can be refused: nothing of it is written, and nobody is at it.
LEMMA RefuseKeeps ==
    ASSUME RequestsAreSound, NEW e \in Doer, NEW r \in Request, NEW status \in {"rejected", "withdrawn"},
           Refuse(e, r, status)
    PROVE  RequestsAreSound'
<1>1. /\ request[r].status = "waiting" /\ request' = [request EXCEPT ![r].status = status]
      /\ override' = override /\ doing' = doing /\ edits' = edits /\ cut' = cut /\ back' = back
    BY DEF Refuse
<1>2. request \in [Request -> RequestRow]
    BY DEF RequestsAreSound, RequestTypes
<1>3. /\ \A q \in Request \ {r} : request'[q] = request[q]
      /\ request'[r].status = status /\ request'[r].applied = request[r].applied
      /\ request'[r] \in RequestRow
    BY <1>1, <1>2 DEF RequestRow, Status
<1>4. \A q \in Request : Applied(request[q].status) => Applied(request'[q].status)
    BY <1>1, <1>3 DEF Applied
<1>5. \A d \in Doer : Writing(d) => Mine(d) \in Request \ {r}
    BY <1>1 DEF RequestsAreSound, MineIsARequest, WritingIsSound, Writing, Applied
<1>6. doing["page"].at \in {"claim", "now", "put"} => Mine("page") \in Request \ {r}
    BY <1>1 DEF RequestsAreSound, MineIsARequest, UndoIsClaimed, UndoIsSound, Undoing, Doer
<1>7. RequestTypes'
    BY <1>1, <1>2, <1>3 DEF RequestsAreSound, RequestTypes
<1>8. ASSUME NEW d \in Doer PROVE (MineIsARequest(d) /\ WritingIsSound(d) /\ WritesInTurn(d))'
  <2>1. MineIsARequest(d) /\ WritingIsSound(d) /\ WritesInTurn(d)
      BY DEF RequestsAreSound
  <2>2. Writing(d) => ListIn(request', doing[d].applied, Mine(d))
      BY <1>4, <2>1, ListStays DEF WritingIsSound
  <2>3. Writing(d)' = Writing(d) /\ Mine(d)' = Mine(d)
      BY <1>1 DEF Writing, Mine
  <2>4. WritingIsSound(d)'
      BY <1>1, <1>3, <1>5, <2>1, <2>2, <2>3 DEF WritingIsSound
  <2>5. doing[d].at = "write" => SoundIn(request', doing[d].before, FieldToWrite(d))
      BY <1>4, <2>1, SoundStays DEF WritesInTurn
  <2>6. WritesInTurn(d)'
      BY <1>1, <2>1, <2>3, <2>5 DEF WritesInTurn, FieldToWrite
  <2>7. MineIsARequest(d)'
      BY <1>1, <2>1, <2>3 DEF MineIsARequest
  <2> QED BY <2>4, <2>6, <2>7
<1>9. OneWriter' /\ OnlyThePageUndoes'
    BY <1>1 DEF RequestsAreSound, OneWriter, OnlyThePageUndoes, Writing, Mine
<1>10. UndoIsClaimed'
  <2> SUFFICES ASSUME doing["page"].at = "claim" PROVE UndoIsClaimed'
      BY <1>1 DEF UndoIsClaimed
  <2>1. UndoIsClaimed /\ ListIn(request', doing["page"].applied, Mine("page"))
      BY <1>4, ListStays DEF RequestsAreSound, UndoIsClaimed
  <2> QED BY <1>1, <1>3, <1>6, <2>1 DEF UndoIsClaimed, Writing, Mine
<1>11. UndoIsSound'
  <2> SUFFICES ASSUME Undoing PROVE UndoIsSound'
      BY <1>1 DEF UndoIsSound, Undoing
  <2>1. UndoIsSound /\ ListIn(request', doing["page"].applied, Mine("page"))
      BY <1>4, ListStays DEF RequestsAreSound, UndoIsSound
  <2> QED BY <1>1, <1>3, <1>6, <2>1 DEF UndoIsSound, Undoing, Mine
<1>12. ListsAreSound'
  <2> SUFFICES ASSUME NEW q \in Request
               PROVE  /\ ListIn(request', request'[q].applied, q)
                      /\ Len(request'[q].applied) \in {0, Len(WritesOf[q])}
                      /\ request'[q].status \notin {"accepted", "undone"} => request'[q].applied = <<>>
      BY DEF ListsAreSound
  <2>1. request'[q].applied = request[q].applied
      BY <1>3
  <2> QED BY <1>1, <1>3, <1>4, <2>1, ListStays DEF RequestsAreSound, ListsAreSound
<1>13. InForceIsSound'
    BY <1>1, <1>4, SoundStays DEF RequestsAreSound, InForceIsSound
<1>14. CanBeUndone'
    BY <1>1, <1>3 DEF RequestsAreSound, CanBeUndone, Accepting
<1>15. PutBackInTurn'
    BY <1>1, <1>3 DEF RequestsAreSound, PutBackInTurn, Undoing, Mine
<1> QED BY <1>7, <1>8, <1>9, <1>10, <1>11, <1>12, <1>13, <1>14, <1>15 DEF RequestsAreSound

\* An admin's decision is no request's.
LEMMA EditKeeps ==
    ASSUME RequestsAreSound, NEW d \in Doer, NEW f0 \in Field, Edit(d, f0)
    PROVE  RequestsAreSound'
<1>1. PICK decision \in [value : Request \cup {Own}, by : {Own}] \cup {Nobody} :
        override' = [override EXCEPT ![f0] = decision]
    BY DEF Edit
<1>2. /\ request' = request /\ doing' = doing /\ cut' = cut /\ back' = back
      /\ edits' = edits + 1 /\ edits < MaxEdits
    BY DEF Edit
<1>3. override \in [Field -> Standing] /\ edits \in 0 .. MaxEdits /\ decision \in Standing
    BY DEF RequestsAreSound, RequestTypes, Standing
<1>4. /\ override'[f0] = decision /\ (decision # Nobody => decision.by \notin Request)
      /\ \A f \in Field : f # f0 => override'[f] = override[f]
    BY <1>1, <1>3, RequestConstants
<1>5. RequestTypes'
  <2>1. override' \in [Field -> Standing]
      BY <1>1, <1>3
  <2>2. edits' \in 0 .. MaxEdits
      BY <1>2, <1>3, RequestConstants
  <2> QED BY <1>2, <2>1, <2>2 DEF RequestsAreSound, RequestTypes
<1>6. \A e \in Doer : (MineIsARequest(e) /\ WritingIsSound(e) /\ WritesInTurn(e))'
    BY <1>2 DEF RequestsAreSound, MineIsARequest, WritingIsSound, WritesInTurn, Writing, Mine, FieldToWrite
<1>7. (OneWriter /\ UndoIsClaimed /\ UndoIsSound /\ OnlyThePageUndoes)'
    BY <1>2 DEF RequestsAreSound, OneWriter, UndoIsClaimed, UndoIsSound, OnlyThePageUndoes, Undoing, Writing, Mine
<1>8. ListsAreSound' /\ CanBeUndone'
    BY <1>2 DEF RequestsAreSound, ListsAreSound, CanBeUndone, Accepting
<1>9. InForceIsSound'
    BY <1>2, <1>4 DEF RequestsAreSound, InForceIsSound, SoundIn
<1>10. PutBackInTurn'
    BY <1>2, <1>4 DEF RequestsAreSound, PutBackInTurn, Undoing, Mine
<1> QED BY <1>5, <1>6, <1>7, <1>8, <1>9, <1>10 DEF RequestsAreSound

-----------------------------------------------------------------------------
\* The invariant holds at first.
LEMMA RequestsBegin == RequestInit => RequestsAreSound
<1> SUFFICES ASSUME RequestInit PROVE RequestsAreSound
    OBVIOUS
<1>1. /\ \A r \in Request : request[r] = [status |-> "waiting", applied |-> <<>>]
      /\ \A f \in Field : override[f] = Nobody
      /\ \A d \in Doer : doing[d] = NotAtWork /\ doing[d].at = "idle"
      /\ doing["page"].at = "idle" /\ doing["check"].at = "idle"
    BY DEF RequestInit, NotAtWork, Doer
<1>2. RequestTypes
  <2>1. [status |-> "waiting", applied |-> <<>>] \in RequestRow
      BY DEF RequestRow, Status
  <2>2. NotAtWork \in Doing /\ Nobody \in Standing
      BY DEF NotAtWork, Doing, Standing
  <2> QED BY <2>1, <2>2, RequestConstants DEF RequestInit, RequestTypes
<1>3. \A d \in Doer : MineIsARequest(d) /\ WritingIsSound(d) /\ WritesInTurn(d)
    BY <1>1 DEF MineIsARequest, WritingIsSound, WritesInTurn, Writing
<1>4. OneWriter /\ UndoIsClaimed /\ UndoIsSound /\ OnlyThePageUndoes
    BY <1>1 DEF OneWriter, UndoIsClaimed, UndoIsSound, OnlyThePageUndoes, Undoing, Writing
<1>5. ListsAreSound /\ CanBeUndone
    BY <1>1, EmptyList DEF ListsAreSound, CanBeUndone
<1>6. InForceIsSound /\ PutBackInTurn
    BY <1>1 DEF InForceIsSound, PutBackInTurn, SoundIn
<1> QED BY <1>2, <1>3, <1>4, <1>5, <1>6 DEF RequestsAreSound

\* And every step keeps it.
LEMMA RequestsGoOn == RequestsAreSound /\ [RequestNext]_requestVars => RequestsAreSound'
<1> SUFFICES ASSUME RequestsAreSound, [RequestNext]_requestVars PROVE RequestsAreSound'
    OBVIOUS
<1>1. ASSUME NEW d \in Doer, DoerStep(d) PROVE RequestsAreSound'
    BY <1>1, ClaimKeeps, RefuseKeeps, ReadBeforeKeeps, WriteDecisionKeeps, RecordAppliedKeeps, CutShortKeeps,
       EditKeeps
       DEF DoerStep
<1>2. ASSUME NEW r \in Request, BeginUndo(r) PROVE RequestsAreSound'
    BY <1>2, BeginUndoKeeps
<1>3. CASE UNCHANGED requestVars
  <2>1. /\ request' = request /\ override' = override /\ doing' = doing
        /\ edits' = edits /\ cut' = cut /\ back' = back
      BY <1>3 DEF requestVars
  <2>2. RequestTypes' /\ ListsAreSound' /\ InForceIsSound' /\ CanBeUndone'
      BY <2>1 DEF RequestsAreSound, RequestTypes, ListsAreSound, InForceIsSound, CanBeUndone, Accepting
  <2>3. \A d \in Doer : (MineIsARequest(d) /\ WritingIsSound(d) /\ WritesInTurn(d))'
      BY <2>1 DEF RequestsAreSound, MineIsARequest, WritingIsSound, WritesInTurn, Writing, Mine, FieldToWrite
  <2>4. (OneWriter /\ UndoIsClaimed /\ UndoIsSound /\ OnlyThePageUndoes /\ PutBackInTurn)'
      BY <2>1 DEF RequestsAreSound, OneWriter, UndoIsClaimed, UndoIsSound, OnlyThePageUndoes, PutBackInTurn,
                  Undoing, Writing, Mine
  <2> QED BY <2>2, <2>3, <2>4 DEF RequestsAreSound
<1> QED BY <1>1, <1>2, <1>3, ClaimUndoKeeps, ReadNowKeeps, PutBackKeeps DEF RequestNext

\* What admins and readers see of it follows.
LEMMA RequestsSoundIsEnough ==
    RequestsAreSound => RequestTypes /\ AppliedByOne /\ NothingOfTheRefused /\ CanBeUndone /\ UndoneGoesBack
<1> SUFFICES ASSUME RequestsAreSound
             PROVE  RequestTypes /\ AppliedByOne /\ NothingOfTheRefused /\ CanBeUndone /\ UndoneGoesBack
    OBVIOUS
<1>1. RequestTypes /\ CanBeUndone
    BY DEF RequestsAreSound
<1>2. AppliedByOne
  <2> SUFFICES ASSUME NEW d \in Doer, NEW r \in Request, Accepting(d, r)
               PROVE  /\ request[r].status \in {"accepted", "undone"}
                      /\ request[r].applied = <<>>
                      /\ \A e \in Doer \ {d} : ~Accepting(e, r)
      BY DEF AppliedByOne
  <2>1. Writing(d) /\ Mine(d) = r
      BY DEF Accepting, Writing, Mine
  <2>2. request[r].status \in {"accepted", "undone"} /\ request[r].applied = <<>>
      BY <2>1 DEF RequestsAreSound, WritingIsSound, Applied
  <2>3. \A e \in Doer \ {d} : ~Accepting(e, r)
      BY <2>1 DEF RequestsAreSound, OneWriter, Accepting, Writing, Mine, Doer
  <2> QED BY <2>2, <2>3
<1>3. NothingOfTheRefused
    BY DEF RequestsAreSound, InForceIsSound, SoundIn, NothingOfTheRefused, Applied
<1>4. UndoneGoesBack
    BY DEF RequestsAreSound, PutBackInTurn, UndoneGoesBack, Undoing, Mine
<1> QED BY <1>1, <1>2, <1>3, <1>4

\* The state of the requests is sound at every moment.
THEOREM RequestsStaySound == RequestSpec => []RequestsAreSound
<1> QED BY RequestsBegin, RequestsGoOn, PTL DEF RequestSpec

\* The rows, the decisions and what is under way have their types.
THEOREM RequestsHaveTypes == RequestSpec => []RequestTypes
<1> QED BY RequestsStaySound, RequestsSoundIsEnough, PTL

\* Two admins never both apply a request, and a refused one is never applied.
THEOREM RequestsAppliedByOne == RequestSpec => []AppliedByOne
<1> QED BY RequestsStaySound, RequestsSoundIsEnough, PTL

\* No decision of a waiting or refused request is ever in force.
THEOREM RequestsRefusedWriteNothing == RequestSpec => []NothingOfTheRefused
<1> QED BY RequestsStaySound, RequestsSoundIsEnough, PTL

\* An accepted request that was not cut short always has the whole list to undo it from.
THEOREM RequestsCanBeUndone == RequestSpec => []CanBeUndone
<1> QED BY RequestsStaySound, RequestsSoundIsEnough, PTL

\* None of an undone request's decisions stays in force, but for the cases the property names.
THEOREM RequestsUndoneGoBack == RequestSpec => []UndoneGoesBack
<1> QED BY RequestsStaySound, RequestsSoundIsEnough, PTL
=============================================================================
