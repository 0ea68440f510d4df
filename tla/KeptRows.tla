------------------------------ MODULE KeptRows ------------------------------
(***************************************************************************)
(* The rows a dashboard keeps for its owner: core/dashboard_refresh.py over *)
(* store/dashboard_store.py, and the writes that end them in                *)
(* store/user_store.py and store/compliance_store.py.                       *)
(*                                                                          *)
(* One owner, one dashboard, several sources.  Refreshers are threads that  *)
(* run run_due_dashboard_refreshes every minute; pages are the owner's own  *)
(* views.  Both run a source under the owner's access and keep what came    *)
(* back; a refresh that fails is counted, tried later, and in the end told  *)
(* to the owner.  Meanwhile administrators change that access.  Every       *)
(* `with get_db()` block is one step; the many reads of one governed query  *)
(* are one.  A thread may stop for good between two of its steps.           *)
(*                                                                          *)
(* Rows are not modelled, only what they were released under.  The views of *)
(* others, and filtered views, keep nothing and are left out.               *)
(*                                                                          *)
(* A definition X_Something is X with a plausible bug.  Nothing uses it:    *)
(* put in the place of X, it makes a property fail (README, Mutants).       *)
(***************************************************************************)
EXTENDS Naturals, FiniteSets

CONSTANTS
    Sources,      \* bound: the dashboard's sources are 1 .. Sources, by id
    Refresher,    \* threads that run run_due_dashboard_refreshes() every minute
    Page,         \* the owner's page views
    Admin,        \* requests that save the compliance profile
    Minute,       \* the least a cache lasts, in ticks of the clock (60 s in the source)
    Ttls,         \* the cache lives the policy may decide on
    FirstRetry,   \* how long after a first failure the next attempt is (5 minutes)
    Cadence,      \* the dashboard's own cadence: an hour, a day or a week
    TellAfter,    \* failures in a row the owner is told of (2)
    LastTime,     \* bound: the clock stops here
    MaxChanges,   \* bound: changes to access, policy or meaning
    MaxFailures,  \* bound: queries that fail
    MaxStops,     \* bound: threads that stop half way
    None

ASSUME KeptConstants ==
    /\ Sources \in Nat
    /\ Refresher \cap Page = {}
    /\ Minute \in Nat
    /\ Ttls \subseteq Nat
    /\ FirstRetry \in Nat
    /\ Cadence \in Nat
    /\ TellAfter \in Nat \ {0}
    /\ LastTime \in Nat \ {0}
    /\ MaxChanges \in Nat /\ MaxFailures \in Nat /\ MaxStops \in Nat

Source == 1 .. Sources
Thread == Refresher \cup Page

\* A time of the cache's clock; 0 is NULL.
Time == Nat

\* What rows were released under: the person's role, groups and tables; the
\* workspace's row rules, masking, purposes and attestations; the policy version;
\* and the ends of the attestations and grants then in force.
Release == [person : Nat, rules : Nat, policy : Nat, ends : SUBSET Time]

\* A row of dashboard_source_cache.  told is owner_notified_at: the claim of the owner's
\* notice, named by the thread that made it (in the source by the second it was made).
\* asked and raced are history: when the refresh asked how long to keep its rows, and
\* whether access changed between its reads and its write.
Kept == [under : Release \cup {None}, policy : Nat, contract : Nat, refreshed : Time, expires : Time,
         failures : Nat, next : Time, told : Refresher \cup {None}, asked : Time, raced : BOOLEAN]

ASSUME NoneIsNew == None \notin Kept /\ None \notin Release /\ None \notin Refresher

VARIABLES
    clock,
    person,     \* the owner's role, groups, tables and standing: how often they changed
    active,     \* portal_user.is_active of the owner
    rules,      \* the workspace's rules and attestations: how often they changed
    ends,       \* when the owner's attestations and grants that are not revoked end
    policy,     \* compliance_profile.active_policy_version
    made,       \* the newest policy version created
    contract,   \* semantic_compiler_state.active_version
    saving,     \* saves of the profile that have read it and not written it
    kept,       \* dashboard_source_cache: each source's row, None when there is none
    job,        \* where each thread is
    notices,    \* history: notices of the standing run of failures that reached the owner's page
    cut,        \* history: a thread stopped with the claim of the notice and told nobody
    wentBack,   \* history: a save of the profile put back an older policy version
    changes, failed, stops

accessVars == <<person, active, rules, ends>>
profileVars == <<policy, made, saving>>
toldVars == <<notices, cut>>
boundVars == <<changes, failed, stops>>
vars == <<clock, accessVars, profileVars, contract, kept, job, toldVars, wentBack, boundVars>>

NoJob == [at |-> "idle", todo |-> {}, source |-> 0, person |-> 0, policy |-> 0, contract |-> 0,
          under |-> None, asked |-> 0, ttl |-> 0]

Place == {"idle", "next", "labels", "cache", "context", "query", "keep", "save", "served",
          "failed", "inactive", "claim", "notice", "release"}
JobState ==
    [at : Place, todo : SUBSET Source, source : Source \cup {0}, person : Nat, policy : Nat, contract : Nat,
     under : Release \cup {None}, asked : Time, ttl : Nat]

Saving == [seen : Nat, to : Nat]

Init ==
    /\ clock = 1
    /\ person = 0
    /\ active = TRUE
    /\ rules = 0
    /\ ends = {}
    /\ policy = 0
    /\ made = 0
    /\ contract = 0
    /\ saving = [a \in Admin |-> None]
    /\ kept = [s \in Source |-> None]
    /\ job = [t \in Thread |-> NoJob]
    /\ notices = 0
    /\ cut = FALSE
    /\ wentBack = FALSE
    /\ changes = 0
    /\ failed = 0
    /\ stops = 0

-----------------------------------------------------------------------------
(* What is due, what may be served, and how long rows are kept. *)

\* list_due_dashboard_sources.
IsDue(s) ==
    \/ kept[s] = None
    \/ /\ kept[s].next <= clock
       /\ \/ kept[s].expires <= clock
          \/ kept[s].refreshed = 0
          \/ clock - kept[s].refreshed >= Cadence
Due == {s \in Source : IsDue(s)}

\* get_source_cache, and the labels execute_dashboard_source compares.
Servable(row, version, meaning) ==
    /\ row # None
    /\ row.under # None
    /\ row.expires > clock
    /\ row.policy = version
    /\ row.contract = meaning

\* The attestations and grants in force.
InForce == {e \in ends : e > clock}

Shortest(ttl, left) == IF ttl <= left THEN ttl ELSE left

\* A cache is kept for the minute, and a grant's last seconds with it.
KeptFor_NoMinute(ttl) ==
    IF InForce = {} THEN ttl
    ELSE LET first == CHOOSE e \in InForce : \A other \in InForce : e <= other
         IN  Shortest(ttl, first - clock)

\* Access that has ended is not left out, and the minute is not looked at.
KeptFor_Ended(ttl) ==
    IF ends = {} THEN ttl
    ELSE LET first == CHOOSE e \in ends : \A other \in ends : e <= other
         IN  Shortest(ttl, first - clock)

\* _kept_for: the cache life of the source, but no longer than access that ends by itself;
\* 0 when that ends within the minute a cache lasts at least.
KeptFor(ttl) ==
    IF InForce = {} THEN ttl
    ELSE LET first == CHOOSE e \in InForce : \A other \in InForce : e <= other
         IN  IF first - clock >= Minute THEN Shortest(ttl, first - clock) ELSE 0

\* How long after its n-th failure in a row a source is tried again.
Wait(n) ==
    LET doubled == FirstRetry * 2 ^ (IF n <= 20 THEN n - 1 ELSE 20)
    IN  IF doubled \in 0 .. Cadence THEN doubled ELSE Cadence

\* Some source of the dashboard is failing.
Failing(rows) == \E s \in Source : rows[s] # None /\ rows[s].failures > 0

\* The claim of the owner's notice that the row of a source holds.
Teller(s) == IF kept[s] = None THEN None ELSE kept[s].told

\* The claim r made for its source stands: nothing cleared it since.
Stands(r) == Teller(job[r].source) = r

Become(t, j) == job' = [job EXCEPT ![t] = j]

\* The thread is done with its source: a refresher goes on to the next one of its pass.
Over(j) == IF j.todo # {} THEN [NoJob EXCEPT !.at = "next", !.todo = j.todo] ELSE NoJob

-----------------------------------------------------------------------------
(* A pass of the scheduler, and the owner's page. *)

\* run_due_dashboard_refreshes: what is due is read once for the whole pass.
StartPass(r) ==
    /\ job[r].at = "idle"
    /\ Due # {}
    /\ Become(r, [job[r] EXCEPT !.at = "next", !.todo = Due])
    /\ UNCHANGED <<clock, accessVars, profileVars, contract, kept, toldVars, wentBack, boundVars>>

\* refresh_dashboard_source: the owner is read, and an inactive one ends it.
TakeSource(r) ==
    /\ job[r].at = "next"
    /\ \E s \in job[r].todo :
          /\ \A other \in job[r].todo : s <= other
          /\ Become(r, [job[r] EXCEPT !.at = IF active THEN "labels" ELSE "inactive",
                                      !.todo = job[r].todo \ {s}, !.source = s, !.person = person])
    /\ UNCHANGED <<clock, accessVars, profileVars, contract, kept, toldVars, wentBack, boundVars>>

\* The owner, signed in, opens the dashboard.
View(p, s) ==
    /\ job[p].at = "idle"
    /\ active
    /\ Become(p, [job[p] EXCEPT !.at = "labels", !.source = s, !.person = person])
    /\ UNCHANGED <<clock, accessVars, profileVars, contract, kept, toldVars, wentBack, boundVars>>

\* execute_dashboard_source reads the versions the rows will be kept under first.
ReadLabels(t) ==
    /\ job[t].at = "labels"
    /\ Become(t, [job[t] EXCEPT !.at = IF t \in Page THEN "cache" ELSE "context",
                                !.policy = policy, !.contract = contract])
    /\ UNCHANGED <<clock, accessVars, profileVars, contract, kept, toldVars, wentBack, boundVars>>

\* A page is given the rows that are kept, if they may be served.
LookUp(p) ==
    /\ job[p].at = "cache"
    /\ \/ /\ Servable(kept[job[p].source], job[p].policy, job[p].contract)
          /\ Become(p, [job[p] EXCEPT !.at = "served", !.under = kept[job[p].source].under])
       \/ /\ ~Servable(kept[job[p].source], job[p].policy, job[p].contract)
          /\ Become(p, [job[p] EXCEPT !.at = "context"])
    /\ UNCHANGED <<clock, accessVars, profileVars, contract, kept, toldVars, wentBack, boundVars>>

\* The page shows them.
Serve(p) ==
    /\ job[p].at = "served"
    /\ Become(p, Over(job[p]))
    /\ UNCHANGED <<clock, accessVars, profileVars, contract, kept, toldVars, wentBack, boundVars>>

\* resolve_context and the governed query's reads: the person as they were read at the
\* start, everything else as it is now.
ResolveContext(t) ==
    /\ job[t].at = "context"
    /\ Become(t, [job[t] EXCEPT !.at = "query",
                                !.under = [person |-> job[t].person, rules |-> rules,
                                           policy |-> policy, ends |-> InForce]])
    /\ UNCHANGED <<clock, accessVars, profileVars, contract, kept, toldVars, wentBack, boundVars>>

\* The warehouse answers.
QueryWorks(t) ==
    /\ job[t].at = "query"
    /\ Become(t, [job[t] EXCEPT !.at = "keep"])
    /\ UNCHANGED <<clock, accessVars, profileVars, contract, kept, toldVars, wentBack, boundVars>>

\* The warehouse refuses: a page says so, a refresher records it.
QueryFails(t) ==
    /\ job[t].at = "query"
    /\ failed < MaxFailures
    /\ failed' = failed + 1
    /\ \/ /\ t \in Page
          /\ Become(t, Over(job[t]))
       \/ /\ t \in Refresher
          /\ Become(t, [job[t] EXCEPT !.at = "failed"])
    /\ UNCHANGED <<clock, accessVars, profileVars, contract, kept, toldVars, wentBack, changes, stops>>

\* How long the rows may be kept is asked once they are there.
AskHowLong(t) ==
    /\ job[t].at = "keep"
    /\ \E ttl \in Ttls :
          \/ /\ KeptFor(ttl) = 0
             /\ Become(t, Over(job[t]))
          \/ /\ KeptFor(ttl) # 0
             /\ Become(t, [job[t] EXCEPT !.at = "save", !.ttl = KeptFor(ttl), !.asked = clock])
    /\ UNCHANGED <<clock, accessVars, profileVars, contract, kept, toldVars, wentBack, boundVars>>

\* The row is labelled with the policy in force when it is written.
Refreshed_LabelNow(t) ==
    [under |-> job[t].under, policy |-> policy, contract |-> contract,
     refreshed |-> clock, expires |-> clock + (IF job[t].ttl < Minute THEN Minute ELSE job[t].ttl),
     failures |-> 0, next |-> 0,
     told |-> IF kept[job[t].source] = None THEN None ELSE kept[job[t].source].told,
     asked |-> job[t].asked,
     raced |-> job[t].under.person # person \/ job[t].under.rules # rules]

\* The row a refresh writes; a claim of the owner's notice stays on it.
Refreshed(t) ==
    [under |-> job[t].under, policy |-> job[t].policy, contract |-> job[t].contract,
     refreshed |-> clock, expires |-> clock + (IF job[t].ttl < Minute THEN Minute ELSE job[t].ttl),
     failures |-> 0, next |-> 0,
     told |-> IF kept[job[t].source] = None THEN None ELSE kept[job[t].source].told,
     asked |-> job[t].asked,
     raced |-> job[t].under.person # person \/ job[t].under.rules # rules]

Unclaimed(rows) == [s \in Source |-> IF rows[s] = None THEN None ELSE [rows[s] EXCEPT !.told = None]]

\* save_source_cache: the rows are kept, and once no source of the dashboard is failing
\* the next run of failures is news again.
Written(t) == [kept EXCEPT ![job[t].source] = Refreshed(t)]

SaveRows(t) ==
    /\ job[t].at = "save"
    /\ \/ /\ Failing(Written(t))
          /\ kept' = Written(t)
          /\ UNCHANGED toldVars
       \/ /\ ~Failing(Written(t))
          /\ kept' = Unclaimed(Written(t))
          /\ notices' = 0
          /\ cut' = FALSE
    /\ Become(t, Over(job[t]))
    /\ UNCHANGED <<clock, accessVars, profileVars, contract, wentBack, boundVars>>

-----------------------------------------------------------------------------
(* A refresh that failed. *)

\* The row of a source that was never refreshed: expired, and with no rows.
FirstFailure == [under |-> None, policy |-> 0, contract |-> 0, refreshed |-> 0, expires |-> clock,
                 failures |-> 1, next |-> clock + Wait(1), told |-> None, asked |-> 0, raced |-> FALSE]

Failed(row) == IF row = None THEN FirstFailure
               ELSE [row EXCEPT !.failures = row.failures + 1, !.next = clock + Wait(row.failures + 1)]

\* mark_source_cache_error: the owner is due a notice from the second failure in a row.
OwnerDue(row) == row.failures >= TellAfter /\ row.told = None

MarkError(r) ==
    /\ job[r].at \in {"failed", "inactive"}
    /\ kept' = [kept EXCEPT ![job[r].source] = Failed(kept[job[r].source])]
    /\ Become(r, IF job[r].at = "failed" /\ OwnerDue(Failed(kept[job[r].source]))
                 THEN [job[r] EXCEPT !.at = "claim"] ELSE Over(job[r]))
    /\ UNCHANGED <<clock, accessVars, profileVars, contract, toldVars, wentBack, boundVars>>

\* Only the source's own row is looked at.
MayClaim_OwnRow(s) == kept[s] # None /\ Teller(s) = None

\* claim_owner_notice: one conditional write, for the whole dashboard.
MayClaim(s) == kept[s] # None /\ \A other \in Source : Teller(other) = None

Claim(r) ==
    /\ job[r].at = "claim"
    /\ \/ /\ MayClaim(job[r].source)
          /\ kept' = [kept EXCEPT ![job[r].source].told = r]
          /\ Become(r, [job[r] EXCEPT !.at = "notice"])
       \/ /\ ~MayClaim(job[r].source)
          /\ Become(r, Over(job[r]))
          /\ UNCHANGED kept
    /\ UNCHANGED <<clock, accessVars, profileVars, contract, toldVars, wentBack, boundVars>>

\* add_notice keeps the notice on the owner's Notifications page.  A notice whose claim was
\* cleared meanwhile is of a run of failures that is over, and is not counted.
AddNotice(r) ==
    /\ job[r].at = "notice"
    /\ notices' = IF Stands(r) THEN notices + 1 ELSE notices
    /\ Become(r, Over(job[r]))
    /\ UNCHANGED <<clock, accessVars, profileVars, contract, kept, cut, wentBack, boundVars>>

\* The failed notice is logged and its claim kept.
NoticeFails_KeepsClaim(r) ==
    /\ job[r].at = "notice"
    /\ failed < MaxFailures
    /\ failed' = failed + 1
    /\ Become(r, Over(job[r]))
    /\ UNCHANGED <<clock, accessVars, profileVars, contract, kept, toldVars, wentBack, changes, stops>>

\* add_notice raises.
NoticeFails(r) ==
    /\ job[r].at = "notice"
    /\ failed < MaxFailures
    /\ failed' = failed + 1
    /\ Become(r, [job[r] EXCEPT !.at = "release"])
    /\ UNCHANGED <<clock, accessVars, profileVars, contract, kept, toldVars, wentBack, changes, stops>>

\* release_owner_notice: of the claim it made, if that stands.
ReleaseNotice(r) ==
    /\ job[r].at = "release"
    /\ kept' = IF Stands(r) THEN [kept EXCEPT ![job[r].source].told = None] ELSE kept
    /\ Become(r, Over(job[r]))
    /\ UNCHANGED <<clock, accessVars, profileVars, contract, toldVars, wentBack, boundVars>>

\* The process stops: its thread starts over.
Stop(t) ==
    /\ job[t].at # "idle"
    /\ stops < MaxStops
    /\ stops' = stops + 1
    /\ Become(t, NoJob)
    /\ cut' = (cut \/ (job[t].at \in {"notice", "release"} /\ Stands(t)))
    /\ UNCHANGED <<clock, accessVars, profileVars, contract, kept, notices, wentBack, changes, failed>>

-----------------------------------------------------------------------------
(* What ends kept rows. *)

\* Rows that have an owner's notice are left for the notice's sake.
ForgetKeptRows_LeavesFailing ==
    /\ kept' = [s \in Source |-> IF kept[s] # None /\ kept[s].failures > 0 THEN kept[s] ELSE None]
    /\ UNCHANGED toldVars

\* forget_kept_rows, on the connection of the write that changes access.
ForgetKeptRows ==
    /\ kept' = [s \in Source |-> None]
    /\ notices' = 0
    /\ cut' = FALSE

OneChange == changes < MaxChanges /\ changes' = changes + 1

\* update_user, set_user_groups, set_group_tables, ...: a new role, group, table or standing.
ChangePerson(standing) ==
    /\ OneChange
    /\ person' = person + 1
    /\ active' = standing
    /\ ForgetKeptRows
    /\ UNCHANGED <<clock, rules, ends, profileVars, contract, job, wentBack, failed, stops>>

\* A row rule, a classification, a masking rule or a purpose is saved or deleted.
ChangeRules ==
    /\ OneChange
    /\ rules' = rules + 1
    /\ ForgetKeptRows
    /\ UNCHANGED <<clock, person, active, ends, profileVars, contract, job, wentBack, failed, stops>>

\* grant_user_attestation, create_break_glass_grant: access that ends by itself.
Grant(end) ==
    /\ OneChange
    /\ rules' = rules + 1
    /\ ends' = ends \cup {end}
    /\ ForgetKeptRows
    /\ UNCHANGED <<clock, person, active, profileVars, contract, job, wentBack, failed, stops>>

\* revoke_user_attestation.
Revoke(end) ==
    /\ OneChange
    /\ rules' = rules + 1
    /\ ends' = ends \ {end}
    /\ ForgetKeptRows
    /\ UNCHANGED <<clock, person, active, profileVars, contract, job, wentBack, failed, stops>>

\* publish_semantic_contract_version: a new meaning, or an older one restored.
Publish(version) ==
    /\ OneChange
    /\ contract' = version
    /\ UNCHANGED <<clock, accessVars, profileVars, kept, job, toldVars, wentBack, failed, stops>>

\* save_compliance_profile reads the profile; it writes the whole of it back later, with
\* a policy version made and activated just before, or with some other setting changed.
ReadProfile(a) ==
    /\ OneChange
    /\ saving[a] = None
    /\ \/ /\ made' = made + 1
          /\ saving' = [saving EXCEPT ![a] = [seen |-> policy, to |-> made + 1]]
       \/ /\ saving' = [saving EXCEPT ![a] = [seen |-> policy, to |-> policy]]
          /\ UNCHANGED made
    /\ UNCHANGED <<clock, accessVars, policy, contract, kept, job, toldVars, wentBack, failed, stops>>

\* Rows are forgotten when what is written differs from what was read.
WriteProfile(a) ==
    /\ saving[a] # None
    /\ policy' = saving[a].to
    /\ wentBack' = (wentBack \/ saving[a].to < policy)
    /\ saving' = [saving EXCEPT ![a] = None]
    /\ \/ /\ saving[a].to # saving[a].seen
          /\ ForgetKeptRows
       \/ /\ saving[a].to = saving[a].seen
          /\ UNCHANGED <<kept, toldVars>>
    /\ UNCHANGED <<clock, accessVars, made, contract, job, boundVars>>

Tick ==
    /\ clock < LastTime
    /\ clock' = clock + 1
    /\ UNCHANGED <<accessVars, profileVars, contract, kept, job, toldVars, wentBack, boundVars>>

Refresh(r) ==
    \/ StartPass(r) \/ TakeSource(r) \/ MarkError(r) \/ Claim(r)
    \/ AddNotice(r) \/ NoticeFails(r) \/ ReleaseNotice(r)

Execute(t) ==
    \/ ReadLabels(t) \/ ResolveContext(t) \/ QueryWorks(t) \/ QueryFails(t)
    \/ AskHowLong(t) \/ SaveRows(t) \/ Stop(t)

ShowPage(p) == LookUp(p) \/ Serve(p) \/ \E s \in Source : View(p, s)

Administer ==
    \/ \E standing \in BOOLEAN : ChangePerson(standing)
    \/ ChangeRules
    \/ \E end \in (clock + 1) .. (LastTime + 1) : Grant(end)
    \/ \E end \in ends : Revoke(end)
    \/ \E version \in 0 .. (contract + 1) : version # contract /\ Publish(version)
    \/ \E a \in Admin : ReadProfile(a) \/ WriteProfile(a)

Next ==
    \/ \E r \in Refresher : Refresh(r)
    \/ \E t \in Thread : Execute(t)
    \/ \E p \in Page : ShowPage(p)
    \/ Administer
    \/ Tick

Spec == Init /\ [][Next]_vars

-----------------------------------------------------------------------------
(* Properties. *)

RowState == Kept \cup {None}

\* Every variable stays within its type; a wait, a life and an expiry are never negative.
TypeOK ==
    /\ clock \in 1 .. LastTime
    /\ person \in Nat /\ active \in BOOLEAN /\ rules \in Nat /\ ends \subseteq Time
    /\ policy \in Nat /\ made \in Nat /\ contract \in Nat
    /\ saving \in [Admin -> Saving \cup {None}]
    /\ kept \in [Source -> RowState]
    /\ job \in [Thread -> JobState]
    /\ notices \in Nat /\ cut \in BOOLEAN /\ wentBack \in BOOLEAN
    /\ changes \in Nat /\ failed \in Nat /\ stops \in Nat

\* Rows are kept under the owner's access as it is, unless it changed while the refresh
\* that kept them was running (forget_kept_rows: every change ends what is kept).
KeptUnderAccess ==
    \A s \in Source : kept[s] # None =>
        (kept[s].under # None /\ ~kept[s].raced =>
            kept[s].under.person = person /\ kept[s].under.rules = rules)

\* Rows released under access that ends by itself are kept past its end by no more than
\* passed between asking how long and writing them (access_ends_at, _kept_for) -- unless
\* access changed meanwhile, or it had ended when the refresh asked.
EndsWithItsGrant ==
    \A s \in Source : kept[s] # None => (kept[s].under # None /\ ~kept[s].raced =>
        \A e \in kept[s].under.ends :
            kept[s].asked < e => kept[s].expires <= e + (kept[s].refreshed - kept[s].asked))

\* A page that shows kept rows shows none released under an older policy version than the
\* one in force when it opened, unless a save of the profile put an older one back.
ServedNoOlderPolicy ==
    \A p \in Page : (job[p].at = "served" /\ ~wentBack) => job[p].under.policy >= job[p].policy

\* Of a run of failures the owner is told once, however many sources fail (_tell_the_owner).
ToldOnce == notices <= 1

\* The thread that claimed a notice still has it in hand.
InHand(r, s) == job[r].at \in {"notice", "release"} /\ job[r].source = s

\* A claim of the owner's notice is one the owner was told of, is being told of, or would
\* have been but for a thread that stopped (release_owner_notice).
ClaimIsKept ==
    \A s \in Source : Teller(s) # None => notices > 0 \/ cut \/ InHand(Teller(s), s)

\* What a thread read before its query bounds what it writes after it: the label it read
\* is no newer than the policy its rows were released under, and the time it was given
\* runs out with the access they were released under.
Bounded(j) ==
    /\ j.at \notin {"idle", "next"} => j.source \in Source
    /\ (j.at \in {"cache", "context"} /\ ~wentBack) => j.policy <= policy
    /\ j.at \in {"query", "keep", "save"} =>
          /\ j.under # None
          /\ ~wentBack => j.policy <= j.under.policy
          /\ j.under.rules <= rules
          /\ j.under.rules = rules => j.under.ends \subseteq ends
    /\ j.at = "served" =>
          /\ j.under # None
          /\ ~wentBack => j.policy <= j.under.policy
    /\ j.at = "save" =>
          /\ j.asked <= clock
          /\ j.under.rules = rules => \A e \in j.under.ends : j.asked < e =>
                /\ j.asked + Minute <= e
                /\ j.asked + j.ttl <= e

ReadsBoundWrites == \A t \in Thread : Bounded(job[t])

\* No kept row is labelled newer than the policy its rows were released under.
LabelsAreOld ==
    \A s \in Source : kept[s] # None => (kept[s].under # None /\ ~wentBack =>
        kept[s].policy <= kept[s].under.policy)

\* A claim is the only one of its dashboard, and is in hand until the owner is told.
ClaimSound ==
    /\ \A s, other \in Source : Teller(s) # None /\ Teller(other) # None => s = other
    /\ \A s \in Source : Teller(s) # None =>
          IF notices = 0 THEN cut \/ InHand(Teller(s), s) ELSE ~InHand(Teller(s), s)
    /\ notices > 0 => \E s \in Source : Teller(s) # None
    /\ notices <= 1

\* The inductive invariant: what KeptRowsProofs shows every step to keep.
KeptSound ==
    /\ ReadsBoundWrites
    /\ KeptUnderAccess
    /\ EndsWithItsGrant
    /\ LabelsAreOld
    /\ ClaimSound

\* What forget_kept_rows says: after a change, the owner's next view runs under the access
\* as it is now, and is not served what was kept under another.
NextViewUnderAccess ==
    \A s \in Source : Servable(kept[s], policy, contract) =>
        kept[s].under.person = person /\ kept[s].under.rules = rules
=============================================================================
