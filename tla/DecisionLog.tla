---------------------------- MODULE DecisionLog -----------------------------
(***************************************************************************)
(* A workspace's hash-chained decision log (store/compliance_store.py), the *)
(* governed queries that append to it (core/compliance/governed_query.py)   *)
(* and the check a proof pack makes of it (core/compliance/proof_pack.py).  *)
(*                                                                          *)
(* The tiles of a dashboard are drawn at once, each on a thread of its own: *)
(* each is a query here, of one reader of a regulated workspace.  A query   *)
(* appends up to three decisions: that it may run, that its rows may be     *)
(* released, and that they are released unmasked.  An append reads the last *)
(* record, then the highest seq, then inserts: sqlite3 begins a transaction *)
(* at the INSERT, and PostgreSQL reads what is committed, so each is a step *)
(* and other appends fall in between.                                       *)
(*                                                                          *)
(* A record's hash covers its own random id, so it stands for the record    *)
(* and is written here as the record's place: its seq, and its rank among   *)
(* the records of one seq (created_at, then the random id: any order).      *)
(* Nobody edits the log: "record_altered" is out of reach.  `allowed` is    *)
(* what the decision comes to: in shadow mode everything is allowed.        *)
(*                                                                          *)
(* A definition X_Something is X with a plausible bug (README, Mutants).    *)
(***************************************************************************)
EXTENDS Naturals, FiniteSets

CONSTANTS
    Query,        \* queries that run at once, each once
    MaxSignings   \* bound: times the reader's attestation is signed, ends or is revoked

ASSUME DecisionConstants ==
    /\ IsFiniteSet(Query)
    /\ MaxSignings \in Nat

\* previous_hash of the first record: ''.
NoPlace == <<0, 0>>

\* The first record of a seq is ranked in the middle, and another of that seq before or
\* after it: there is one of each query at most.
Seqs == Nat \ {0}
Middle == Cardinality(Query)
Ranks == 1 .. 2 * Cardinality(Query) - 1
Place == Seqs \X Ranks

Decision == {"execution", "release", "unmasked"}
Record == [place : Place, previous : Place \cup {NoPlace}, by : Query, decision : Decision]

VARIABLES
    records,     \* policy_decision_log: the workspace's records
    attestation, \* the reader's valid attestations: none, or covering the masked data or other data only
    query,       \* where each query is
    atOnce,      \* history: a record was inserted while another append was under way
    signings

decisionVars == <<records, attestation, query, atOnce, signings>>

QueryState ==
    [at : {"new", "last", "number", "insert", "run", "attested", "scope", "done"},
     decision : Decision,                              \* the decision it appends
     allowed : BOOLEAN,
     masks : BOOLEAN,                                  \* the policy masks some of its columns
     previous : Place \cup {NoPlace},
     seq : {0} \cup Seqs,
     shown : {"nothing", "plain", "masked", "unmasked"},
     covered : BOOLEAN]                                \* history: an attestation covered the data while it ran

NoQuery == [at |-> "new", decision |-> "execution", allowed |-> FALSE, masks |-> FALSE,
            previous |-> NoPlace, seq |-> 0, shown |-> "nothing", covered |-> FALSE]

DecisionInit ==
    /\ records = {}
    /\ attestation \in {"none", "covers", "others"}
    /\ query = [q \in Query |-> NoQuery]
    /\ atOnce = FALSE
    /\ signings = 0

-----------------------------------------------------------------------------
(***************************************************************************)
(* The order of the records, and the check of the chain                     *)
(***************************************************************************)

\* ORDER BY seq, created_at, id.
Before(r, s) ==
    \/ r.place[1] < s.place[1]
    \/ r.place[1] = s.place[1] /\ r.place[2] < s.place[2]

Earlier(rs, r) == {s \in rs : Before(s, r)}

\* The hash of the last record, or '' when there is none.
LastPlace(rs) ==
    IF rs = {} THEN NoPlace ELSE (CHOOSE r \in rs : \A s \in rs \ {r} : Before(s, r)).place

\* Another record before it claims the same predecessor.
Forks(rs, r) == r.previous # NoPlace /\ \E s \in Earlier(rs, r) : s.previous = r.previous

\* It does not follow the record before it.
Breaks(rs, r) == r.previous # LastPlace(Earlier(rs, r))

Verdict_BreakFirst(rs) ==
    LET wrong == {r \in rs : Forks(rs, r) \/ Breaks(rs, r)}
        first == CHOOSE r \in wrong : \A s \in wrong \ {r} : Before(r, s)
    IN  IF wrong = {} THEN "verified"
        ELSE IF Breaks(rs, first) THEN "chain_broken" ELSE "chain_forked"

\* integrity_section: how the log verifies, told by the first record that is wrong.
Verdict(rs) ==
    LET wrong == {r \in rs : Forks(rs, r) \/ Breaks(rs, r)}
        first == CHOOSE r \in wrong : \A s \in wrong \ {r} : Before(r, s)
    IN  IF wrong = {} THEN "verified"
        ELSE IF Forks(rs, first) THEN "chain_forked" ELSE "chain_broken"

-----------------------------------------------------------------------------
(***************************************************************************)
(* An append: log_policy_decision                                           *)
(***************************************************************************)

Moves(q, fields) == query' = [query EXCEPT ![q] = fields]
Finish(q, shown) ==
    Moves(q, [NoQuery EXCEPT !.at = "done", !.shown = shown,
                             !.covered = (shown = "unmasked" /\ query[q].covered)])
GoOn(q, at) ==
    Moves(q, [query[q] EXCEPT !.at = at, !.previous = NoPlace, !.seq = 0, !.allowed = FALSE])
Appends(q, fields, decision) == Moves(q, [fields EXCEPT !.at = "last", !.decision = decision])

ReadLast(q) ==
    /\ query[q].at = "last"
    /\ Moves(q, [query[q] EXCEPT !.at = "number", !.previous = LastPlace(records)])
    /\ UNCHANGED <<records, attestation, atOnce, signings>>

\* COALESCE(MAX(seq), 0)
HighestSeq(rs) == LastPlace(rs)[1]

ReadSeq(q) ==
    /\ query[q].at = "number"
    /\ Moves(q, [query[q] EXCEPT !.at = "insert", !.seq = HighestSeq(records) + 1])
    /\ UNCHANGED <<records, attestation, atOnce, signings>>

\* What the query does once its decision is written: denied, it stops; allowed, it goes on.
Decided(q) ==
    CASE query[q].decision = "unmasked" -> Finish(q, "unmasked")
      [] query[q].decision # "unmasked" /\ ~query[q].allowed -> Finish(q, "nothing")
      [] query[q].decision = "execution" /\ query[q].allowed -> GoOn(q, "run")
      [] query[q].decision = "release" /\ query[q].allowed ->
            IF query[q].masks THEN GoOn(q, "attested") ELSE Finish(q, "plain")

Appending(q) == query[q].at \in {"number", "insert"}

FreeRanks(seq) ==
    LET taken == {r.place[2] : r \in {s \in records : s.place[1] = seq}}
    IN  IF taken = {} THEN {Middle} ELSE Ranks \ taken

Insert(q) ==
    /\ query[q].at = "insert"
    /\ \E rank \in FreeRanks(query[q].seq) :
        records' = records \cup {[place |-> <<query[q].seq, rank>>, previous |-> query[q].previous,
                               by |-> q, decision |-> query[q].decision]}
    /\ Decided(q)
    /\ atOnce' = (atOnce \/ \E p \in Query \ {q} : Appending(p))
    /\ UNCHANGED <<attestation, signings>>

InsertFails_Released(q) ==
    /\ query[q].at = "insert"
    /\ Finish(q, IF query[q].decision = "unmasked" THEN "unmasked" ELSE "nothing")
    /\ UNCHANGED <<records, attestation, atOnce, signings>>

\* The write fails (the database stays locked): the masking is kept; any other decision that
\* cannot be logged raises, and nothing is answered.
InsertFails(q) ==
    /\ query[q].at = "insert"
    /\ Finish(q, IF query[q].decision = "unmasked" THEN "masked" ELSE "nothing")
    /\ UNCHANGED <<records, attestation, atOnce, signings>>

-----------------------------------------------------------------------------
(***************************************************************************)
(* A governed query: execute_governed_query                                 *)
(***************************************************************************)

Begin(q) ==
    /\ query[q].at = "new"
    /\ \E allowed \in BOOLEAN : \E masks \in {FALSE, allowed} :
        Appends(q, [query[q] EXCEPT !.allowed = allowed, !.masks = masks, !.covered = attestation = "covers"],
               "execution")
    /\ UNCHANGED <<records, attestation, atOnce, signings>>

\* The rows are read, and their release decided; the columns either decision masks are masked.
Run(q) ==
    /\ query[q].at = "run"
    /\ \E allowed \in BOOLEAN : \E masks \in {FALSE, allowed} :
        Appends(q, [query[q] EXCEPT !.allowed = allowed, !.masks = allowed /\ (@ \/ masks)], "release")
    /\ UNCHANGED <<records, attestation, atOnce, signings>>

\* user_attestation_valid
AskAttested(q) ==
    /\ query[q].at = "attested"
    /\ IF attestation = "none" THEN Finish(q, "masked") ELSE Moves(q, [query[q] EXCEPT !.at = "scope"])
    /\ UNCHANGED <<records, attestation, atOnce, signings>>

\* The data classes of the attestations valid now: none (they ended since they were asked
\* for) or others than the masked columns' release nothing.
ReadScope(q) ==
    /\ query[q].at = "scope"
    /\ IF attestation = "covers" THEN Appends(q, query[q], "unmasked") ELSE Finish(q, "masked")
    /\ UNCHANGED <<records, attestation, atOnce, signings>>

\* An attestation is signed, revoked, or past its term.
Sign ==
    /\ signings < MaxSignings
    /\ \E valid \in {"none", "covers", "others"} :
        /\ valid # attestation
        /\ attestation' = valid
        /\ query' = [q \in Query |->
                      [query[q] EXCEPT
                        !.covered = @ \/ (valid = "covers" /\ query[q].at \notin {"new", "done"})]]
    /\ signings' = signings + 1
    /\ UNCHANGED <<records, atOnce>>

QueryStep(q) ==
    \/ Begin(q)
    \/ ReadLast(q)
    \/ ReadSeq(q)
    \/ Insert(q)
    \/ InsertFails(q)
    \/ Run(q)
    \/ AskAttested(q)
    \/ ReadScope(q)

DecisionNext ==
    \/ \E q \in Query : QueryStep(q)
    \/ Sign

DecisionSpec == DecisionInit /\ [][DecisionNext]_decisionVars

-----------------------------------------------------------------------------
DecisionTypes ==
    /\ records \subseteq Record
    /\ attestation \in {"none", "covers", "others"}
    /\ query \in [Query -> QueryState]
    /\ atOnce \in BOOLEAN
    /\ signings \in 0 .. MaxSignings

\* core/compliance/governed_query.py:215 "Every unmasked release is written to the
\* hash-chained decision log": rows are shown unmasked only with their record in the log,
\* to a reader whose attestation covered the data at some moment of the query.
UnmaskedIsLogged ==
    \A q \in Query :
        query[q].shown = "unmasked" =>
            /\ query[q].covered
            /\ \E r \in records : r.by = q /\ r.decision = "unmasked"

\* store/compliance_store.py:848 "seq is assigned inside this transaction, so it is the true
\* insertion order": as long as no two appends were under way at once, the log verifies.
ForksNeedTwoAtOnce == ~atOnce => Verdict(records) = "verified"

ClaimToBeFirst == {r \in records : r.previous = NoPlace}

\* core/compliance/proof_pack.py:379 a fork is reported separately from a break: a log nobody
\* edited is never reported as broken, whichever appends ran at once, unless two records
\* were both written as its first (those the check reports as a break).
ForkIsCalledAFork == Verdict(records) = "chain_broken" => Cardinality(ClaimToBeFirst) > 1

\* The reason the chain is there: of a log that verifies, taking out any record but the last
\* shows.
GapShows ==
    Verdict(records) = "verified" =>
        \A r \in records : r.place # LastPlace(records) => Verdict(records \ {r}) # "verified"

\* core/compliance/proof_pack.py:24 "Whether the hash-chained decision log verifies": what the
\* pack says of the log is so.  It verifies as long as appends did not run at once, it is never
\* called broken for a fork, and a gap shows.
VerdictIsSound == ForksNeedTwoAtOnce /\ ForkIsCalledAFork /\ GapShows
=============================================================================
