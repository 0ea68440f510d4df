--------------------------- MODULE KeptRowsProofs ---------------------------
(***************************************************************************)
(* Theorems about KeptRows: what is kept, under which access and for how    *)
(* long, whatever the threads and the administrators do meanwhile; and that *)
(* a run of failures is told once.                                          *)
(***************************************************************************)
EXTENDS KeptRows, WellFoundedInduction, TLAPS

\* A set of numbers that is not empty has a least one.
LEMMA LeastTime ==
  ASSUME NEW T \in SUBSET Nat, T # {}
  PROVE  \E x \in T : \A y \in T : x <= y
<1>. DEFINE R == OpToRel(<, Nat)
<1>1. \A x, y \in Nat : x < y => <<x, y>> \in R
  BY DEF OpToRel
<1>2. IsWellFoundedOn(R, Nat)
  BY NatLessThanWellFounded
<1>. HIDE DEF R
<1>3. PICK x \in T : \A y \in T : ~ (<<y, x>> \in R)
  BY <1>2, WFMin
<1>4. \A y \in T : ~ (y < x)
  BY <1>1, <1>3
<1>. QED
  BY <1>4

\* How long rows are kept ends with every access in force, and is a minute at least then.
LEMMA KeptForEnds ==
  ASSUME clock \in Nat, ends \subseteq Nat, NEW ttl \in Nat
  PROVE  /\ KeptFor(ttl) \in Nat
         /\ KeptFor(ttl) # 0 =>
              \A e \in ends : clock < e => clock + Minute <= e /\ clock + KeptFor(ttl) <= e
<1>1. CASE InForce = {}
  BY <1>1 DEF KeptFor, InForce
<1>2. CASE InForce # {}
  <2>. DEFINE first == CHOOSE e \in InForce : \A other \in InForce : e <= other
  <2>1. InForce \subseteq Nat /\ \A e \in InForce : clock < e
    BY DEF InForce
  <2>2. first \in InForce /\ \A other \in InForce : first <= other
    BY <1>2, <2>1, LeastTime
  <2>3. KeptFor(ttl) = IF first - clock >= Minute THEN Shortest(ttl, first - clock) ELSE 0
    BY <1>2 DEF KeptFor
  <2>4. \A e \in ends : clock < e => first <= e
    BY <2>2 DEF InForce
  <2>5. first \in Nat /\ clock < first
    BY <2>1, <2>2
  <2>. HIDE DEF first
  <2>. QED
    BY <2>3, <2>4, <2>5, KeptConstants DEF Shortest
<1>. QED
  BY <1>1, <1>2

\* A thread that goes on with its pass, or is idle.
LEMMA OverIsFine ==
  ASSUME NEW j \in JobState
  PROVE  /\ Over(j) \in JobState /\ Bounded(Over(j)) /\ Over(j).at \in {"idle", "next"}
         /\ NoJob \in JobState /\ Bounded(NoJob) /\ NoJob.at = "idle"
<1>1. j.todo \in SUBSET Source
  BY DEF JobState
<1>2. NoJob \in JobState /\ NoJob.at = "idle"
  BY DEF NoJob, JobState, Place, Time
<1>3. /\ [NoJob EXCEPT !.at = "next", !.todo = j.todo] \in JobState
      /\ [NoJob EXCEPT !.at = "next", !.todo = j.todo].at = "next"
  BY <1>1 DEF NoJob, JobState, Place, Time
<1>. QED
  BY <1>2, <1>3 DEF Over, Bounded

\* What a step of one thread makes of the others: nothing.
LEMMA Becomes ==
  ASSUME job \in [Thread -> JobState], ReadsBoundWrites, NEW t \in Thread,
         NEW j \in JobState, Bounded(j), Become(t, j),
         UNCHANGED <<clock, rules, ends, policy, wentBack>>
  PROVE  /\ job' \in [Thread -> JobState]
         /\ ReadsBoundWrites'
         /\ job'[t] = j
         /\ \A u \in Thread : u # t => job'[u] = job[u]
<1>1. /\ job' \in [Thread -> JobState]
      /\ job'[t] = j
      /\ \A u \in Thread : u # t => job'[u] = job[u]
  BY DEF Become
<1>2. \A u \in Thread : Bounded(job'[u])
  BY <1>1 DEF ReadsBoundWrites
<1>3. \A u \in Thread : Bounded(job[u])'
  BY <1>2 DEF Bounded
<1>. QED
  BY <1>1, <1>3 DEF ReadsBoundWrites

\* A thread that only goes from one place to another.
LEMMA MoveType ==
  ASSUME NEW j \in JobState, NEW at \in Place
  PROVE  LET f == [j EXCEPT !.at = at] IN
         /\ f \in JobState /\ f.at = at
         /\ f.source = j.source /\ f.policy = j.policy /\ f.under = j.under
         /\ f.asked = j.asked /\ f.ttl = j.ttl /\ f.todo = j.todo
BY DEF JobState

\* The wait before the next attempt is a time, and no longer than the cadence.
LEMMA WaitType == \A n \in Nat : Wait(n) \in Nat
BY KeptConstants DEF Wait

\* The rows a failure, a refresh and the end of a run of failures leave are rows.
LEMMA RowTypes ==
  ASSUME TypeOK, NEW t \in Thread, job[t].source \in Source
  PROVE  /\ job[t].under # None => Refreshed(t) \in Kept
         /\ Failed(kept[job[t].source]) \in Kept
         /\ \A rows \in [Source -> RowState] : Unclaimed(rows) \in [Source -> RowState]
<1>1. job[t] \in JobState /\ kept[job[t].source] \in RowState /\ clock \in Nat
  BY KeptConstants DEF TypeOK
<1>2. job[t].under # None => Refreshed(t) \in Kept
  <2>1. (IF job[t].ttl < Minute THEN Minute ELSE job[t].ttl) \in Nat
    BY <1>1, KeptConstants DEF JobState
  <2>2. (IF kept[job[t].source] = None THEN None ELSE kept[job[t].source].told) \in Refresher \cup {None}
    BY <1>1 DEF RowState, Kept
  <2>. QED
    BY <1>1, <2>1, <2>2 DEF Refreshed, Kept, JobState, Time
<1>3. Failed(kept[job[t].source]) \in Kept
  <2>1. CASE kept[job[t].source] = None
    BY <1>1, <2>1, WaitType DEF Failed, FirstFailure, Kept, Time
  <2>2. CASE kept[job[t].source] # None
    <3>1. kept[job[t].source] \in Kept
      BY <1>1, <2>2 DEF RowState
    <3>2. kept[job[t].source].failures + 1 \in Nat
      BY <3>1 DEF Kept
    <3>3. clock + Wait(kept[job[t].source].failures + 1) \in Nat
      BY <1>1, <3>2, WaitType
    <3>. QED
      BY <2>2, <3>1, <3>2, <3>3 DEF Failed, Kept, Time
  <2>. QED
    BY <2>1, <2>2
<1>4. \A rows \in [Source -> RowState] : Unclaimed(rows) \in [Source -> RowState]
  BY DEF Unclaimed, RowState, Kept
<1>. QED
  BY <1>2, <1>3, <1>4

\* What each step of a thread makes of the threads.
LEMMA StepThreads ==
  ASSUME TypeOK, ReadsBoundWrites, LabelsAreOld, UNCHANGED <<clock, rules, ends, policy, wentBack>>,
         \/ \E r \in Refresher : Refresh(r)
         \/ \E t \in Thread : Execute(t)
         \/ \E p \in Page : ShowPage(p)
  PROVE  job' \in [Thread -> JobState] /\ ReadsBoundWrites'
<1>. DEFINE Goal == job' \in [Thread -> JobState] /\ ReadsBoundWrites'
<1>1. /\ job \in [Thread -> JobState]
      /\ \A t \in Thread : job[t] \in JobState /\ Bounded(job[t])
      /\ person \in Nat /\ rules \in Nat /\ policy \in Nat /\ contract \in Nat /\ clock \in Nat
      /\ ends \in SUBSET Nat
  BY KeptConstants DEF TypeOK, ReadsBoundWrites, Time
<1>2. Refresher \subseteq Thread /\ Page \subseteq Thread
  BY DEF Thread
<1>3. ASSUME NEW t \in Thread, Become(t, Over(job[t])) \/ Become(t, NoJob)
      PROVE  Goal
  BY <1>1, <1>3, OverIsFine, Becomes
<1>4. ASSUME NEW r \in Refresher, StartPass(r)
      PROVE  Goal
  <2>. DEFINE f == [job[r] EXCEPT !.at = "next", !.todo = Due]
  <2>0. job[r] \in JobState /\ Due \in SUBSET Source /\ "next" \in Place
    BY <1>1, <1>2 DEF Due, Place
  <2>1. f \in JobState /\ f.at = "next"
    BY <2>0 DEF JobState
  <2>2. Bounded(f)
    BY <2>1 DEF Bounded
  <2>. QED
    BY <1>1, <1>2, <1>4, <2>1, <2>2, Becomes DEF StartPass
<1>5. ASSUME NEW r \in Refresher, TakeSource(r)
      PROVE  Goal
  <2>1. PICK s \in job[r].todo :
          Become(r, [job[r] EXCEPT !.at = IF active THEN "labels" ELSE "inactive",
                                   !.todo = job[r].todo \ {s}, !.source = s, !.person = person])
    BY <1>5 DEF TakeSource
  <2>. DEFINE f == [job[r] EXCEPT !.at = IF active THEN "labels" ELSE "inactive",
                                  !.todo = job[r].todo \ {s}, !.source = s, !.person = person]
  <2>2. s \in Source /\ job[r].todo \ {s} \in SUBSET Source /\ job[r] \in JobState /\ person \in Nat
    BY <1>1, <1>2 DEF JobState
  <2>3. (IF active THEN "labels" ELSE "inactive") \in Place \cap {"labels", "inactive"}
    BY DEF Place
  <2>4. f \in JobState /\ f.at \in {"labels", "inactive"} /\ f.source = s
    BY <2>2, <2>3 DEF JobState
  <2>5. Bounded(f)
    BY <2>2, <2>4 DEF Bounded
  <2>. QED
    BY <1>1, <1>2, <2>1, <2>4, <2>5, Becomes
<1>6. ASSUME NEW t \in Thread, job[t].at \in {"failed", "inactive", "claim", "notice", "release", "query"},
             NEW at \in {"claim", "notice", "release", "failed"},
             Become(t, [job[t] EXCEPT !.at = at])
      PROVE  Goal
  <2>. DEFINE f == [job[t] EXCEPT !.at = at]
  <2>0. job[t] \in JobState /\ at \in Place
    BY <1>1 DEF Place
  <2>1. f \in JobState /\ f.at = at /\ f.source = job[t].source
    BY <2>0, MoveType
  <2>2. Bounded(f)
    BY <1>1, <1>6, <2>1 DEF Bounded
  <2>. QED
    BY <1>1, <1>6, <2>1, <2>2, Becomes
<1>7. ASSUME NEW r \in Refresher, MarkError(r) \/ Claim(r) \/ AddNotice(r) \/ NoticeFails(r) \/ ReleaseNotice(r)
      PROVE  Goal
  <2>1. \/ Become(r, Over(job[r]))
        \/ /\ job[r].at \in {"failed", "inactive", "claim", "notice", "release", "query"}
           /\ \E at \in {"claim", "notice", "release", "failed"} : Become(r, [job[r] EXCEPT !.at = at])
    BY <1>7 DEF MarkError, Claim, AddNotice, NoticeFails, ReleaseNotice
  <2>. QED
    BY <1>2, <1>3, <1>6, <2>1
<1>8. ASSUME NEW t \in Thread, ReadLabels(t)
      PROVE  Goal
  <2>. DEFINE f == [job[t] EXCEPT !.at = IF t \in Page THEN "cache" ELSE "context",
                                  !.policy = policy, !.contract = contract]
  <2>1. f \in JobState /\ f.at \in {"cache", "context"} /\ f.source = job[t].source /\ f.policy = policy
    BY <1>1 DEF JobState, Place
  <2>2. job[t].source \in Source
    BY <1>1, <1>8 DEF ReadLabels, Bounded
  <2>3. Bounded(f)
    BY <1>1, <2>1, <2>2 DEF Bounded
  <2>. QED
    BY <1>1, <1>8, <2>1, <2>3, Becomes DEF ReadLabels
<1>9. ASSUME NEW t \in Thread, ResolveContext(t)
      PROVE  Goal
  <2>. DEFINE under == [person |-> job[t].person, rules |-> rules, policy |-> policy, ends |-> InForce]
              f == [job[t] EXCEPT !.at = "query", !.under = under]
  <2>1. under \in Release /\ under.rules = rules /\ under.policy = policy /\ under.ends \subseteq ends
    BY <1>1 DEF InForce, Release, JobState, Time
  <2>. HIDE DEF under
  <2>2. /\ f \in JobState /\ f.at = "query" /\ f.source = job[t].source /\ f.policy = job[t].policy
        /\ f.under = under
    BY <1>1, <2>1 DEF JobState, Place
  <2>3. Bounded(f)
    <3>1. job[t].at = "context" /\ job[t].source \in Source /\ (~wentBack => job[t].policy <= policy)
      BY <1>1, <1>9 DEF ResolveContext, Bounded
    <3>. QED
      BY <1>1, <2>1, <2>2, <3>1, NoneIsNew DEF Bounded
  <2>. QED
    BY <1>1, <1>9, <2>2, <2>3, Becomes DEF ResolveContext, under
<1>10. ASSUME NEW t \in Thread, QueryWorks(t)
       PROVE  Goal
  <2>1. /\ job[t].at = "query"
        /\ Become(t, [job[t] EXCEPT !.at = "keep"])
    BY <1>10 DEF QueryWorks
  <2>. DEFINE f == [job[t] EXCEPT !.at = "keep"]
  <2>2. job[t] \in JobState /\ "keep" \in Place
    BY <1>1 DEF Place
  <2>3. /\ f \in JobState /\ f.at = "keep" /\ f.source = job[t].source /\ f.policy = job[t].policy
        /\ f.under = job[t].under
    BY <2>2, MoveType
  <2>4. Bounded(f)
    BY <1>1, <2>1, <2>3 DEF Bounded
  <2>. QED
    BY <1>1, <2>1, <2>3, <2>4, Becomes
<1>11. ASSUME NEW t \in Thread, QueryFails(t)
       PROVE  Goal
  BY <1>3, <1>6, <1>11 DEF QueryFails
<1>12. ASSUME NEW t \in Thread, AskHowLong(t)
       PROVE  Goal
  <2>1. PICK ttl \in Ttls :
          \/ Become(t, Over(job[t]))
          \/ /\ KeptFor(ttl) # 0
             /\ Become(t, [job[t] EXCEPT !.at = "save", !.ttl = KeptFor(ttl), !.asked = clock])
    BY <1>12 DEF AskHowLong
  <2>2. ASSUME KeptFor(ttl) # 0,
               Become(t, [job[t] EXCEPT !.at = "save", !.ttl = KeptFor(ttl), !.asked = clock])
        PROVE  Goal
    <3>1. /\ KeptFor(ttl) \in Nat
          /\ \A e \in ends : clock < e => clock + Minute <= e /\ clock + KeptFor(ttl) <= e
      BY <1>1, <2>2, KeptConstants, KeptForEnds
    <3>. DEFINE f == [job[t] EXCEPT !.at = "save", !.ttl = KeptFor(ttl), !.asked = clock]
    <3>2. /\ f \in JobState /\ f.at = "save" /\ f.source = job[t].source /\ f.policy = job[t].policy
          /\ f.under = job[t].under /\ f.ttl = KeptFor(ttl) /\ f.asked = clock
      BY <1>1, <3>1 DEF JobState, Place, Time
    <3>3. job[t].at = "keep"
      BY <1>12 DEF AskHowLong
    <3>4. Bounded(f)
      BY <1>1, <3>1, <3>2, <3>3 DEF Bounded
    <3>. QED
      BY <1>1, <2>2, <3>2, <3>4, Becomes
  <2>. QED
    BY <1>3, <2>1, <2>2
<1>13. ASSUME NEW t \in Thread, SaveRows(t) \/ Stop(t)
       PROVE  Goal
  BY <1>3, <1>13 DEF SaveRows, Stop
<1>14. ASSUME NEW p \in Page, Serve(p)
       PROVE  Goal
  BY <1>2, <1>3, <1>14 DEF Serve
<1>15. ASSUME NEW p \in Page, NEW s \in Source, View(p, s)
       PROVE  Goal
  <2>. DEFINE f == [job[p] EXCEPT !.at = "labels", !.source = s, !.person = person]
  <2>1. f \in JobState /\ f.at = "labels" /\ f.source = s
    BY <1>1, <1>2 DEF JobState, Place
  <2>2. Bounded(f)
    BY <2>1 DEF Bounded
  <2>. QED
    BY <1>1, <1>2, <1>15, <2>1, <2>2, Becomes DEF View
<1>16. ASSUME NEW p \in Page, LookUp(p)
       PROVE  Goal
  <2>0. p \in Thread /\ job[p] \in JobState /\ job[p].at = "cache" /\ job[p].source \in Source
    BY <1>1, <1>2, <1>16 DEF LookUp, Bounded
  <2>1. CASE Become(p, [job[p] EXCEPT !.at = "context"])
    <3>. DEFINE f == [job[p] EXCEPT !.at = "context"]
    <3>1. f \in JobState /\ f.at = "context" /\ f.source = job[p].source /\ f.policy = job[p].policy
      BY <2>0, MoveType DEF Place
    <3>2. Bounded(f)
      BY <1>1, <2>0, <3>1 DEF Bounded
    <3>. QED
      BY <1>1, <2>0, <2>1, <3>1, <3>2, Becomes
  <2>2. CASE /\ Servable(kept[job[p].source], job[p].policy, job[p].contract)
             /\ Become(p, [job[p] EXCEPT !.at = "served", !.under = kept[job[p].source].under])
    <3>. DEFINE under == kept[job[p].source].under
                f == [job[p] EXCEPT !.at = "served", !.under = under]
    <3>1. /\ kept[job[p].source] # None /\ under # None /\ kept[job[p].source].policy = job[p].policy
          /\ under \in Release
      BY <2>0, <2>2 DEF TypeOK, RowState, Kept, Servable
    <3>2. ~wentBack => job[p].policy <= under.policy
      BY <2>0, <3>1 DEF LabelsAreOld
    <3>. HIDE DEF under
    <3>3. /\ f \in JobState /\ f.at = "served" /\ f.source = job[p].source /\ f.policy = job[p].policy
          /\ f.under = under
      BY <2>0, <3>1 DEF JobState, Place
    <3>4. Bounded(f)
      BY <2>0, <3>1, <3>2, <3>3 DEF Bounded
    <3>. QED
      BY <1>1, <2>0, <2>2, <3>3, <3>4, Becomes DEF under
  <2>. QED
    BY <1>16, <2>1, <2>2 DEF LookUp
<1>. QED
  BY <1>4, <1>5, <1>7, <1>8, <1>9, <1>10, <1>11, <1>12, <1>13, <1>14, <1>15, <1>16 DEF Refresh, Execute, ShowPage

\* An administrator's step, or the clock's, moves no thread, and what every thread read
\* bounds what it writes as before.
LEMMA StepOthers ==
  ASSUME TypeOK, ReadsBoundWrites, Administer \/ Tick
  PROVE  job' \in [Thread -> JobState] /\ ReadsBoundWrites'
<1>1. /\ job \in [Thread -> JobState] /\ rules \in Nat /\ policy \in Nat /\ clock \in Nat
      /\ saving \in [Admin -> Saving \cup {None}]
  BY KeptConstants DEF TypeOK
<1>2. job' = job
  BY DEF Administer, ChangePerson, ChangeRules, Grant, Revoke, Publish, ReadProfile, WriteProfile, Tick
<1>3. \/ /\ UNCHANGED <<policy, wentBack, clock>>
         /\ rules' = rules + 1
      \/ /\ UNCHANGED <<rules, ends, clock>>
         /\ ~wentBack' => ~wentBack /\ policy' \in Nat /\ policy' >= policy
      \/ /\ UNCHANGED <<policy, wentBack, rules, ends>>
         /\ clock' = clock + 1
  <2>1. CASE Tick
    BY <2>1 DEF Tick, accessVars, profileVars
  <2>2. CASE \E a \in Admin : WriteProfile(a)
    <3>1. PICK a \in Admin : WriteProfile(a)
      BY <2>2
    <3>2. saving[a].to \in Nat
      BY <1>1, <3>1 DEF WriteProfile, Saving
    <3>3. policy' = saving[a].to /\ UNCHANGED <<rules, ends, clock>>
      BY <3>1 DEF WriteProfile, accessVars
    <3>4. ~wentBack' => ~wentBack /\ ~(saving[a].to < policy)
      BY <3>1 DEF WriteProfile
    <3>. QED
      BY <1>1, <3>2, <3>3, <3>4
  <2>3. CASE \E a \in Admin : ReadProfile(a)
    BY <1>1, <2>3 DEF ReadProfile, accessVars
  <2>4. CASE \/ \E standing \in BOOLEAN : ChangePerson(standing)
             \/ \E version \in 0 .. (contract + 1) : version # contract /\ Publish(version)
    BY <1>1, <2>4 DEF ChangePerson, Publish, accessVars, profileVars
  <2>5. CASE \/ ChangeRules
             \/ \E end \in (clock + 1) .. (LastTime + 1) : Grant(end)
             \/ \E end \in ends : Revoke(end)
    BY <2>5 DEF ChangeRules, Grant, Revoke, profileVars
  <2>. QED
    BY <2>1, <2>2, <2>3, <2>4, <2>5 DEF Administer
<1>4. ASSUME NEW t \in Thread
      PROVE  Bounded(job[t])'
  <2>1. PICK j \in JobState : j = job[t]
    BY <1>1
  <2>2. Bounded(j) /\ (j.under # None => j.under.rules \in Nat) /\ j.policy \in Nat /\ j.asked \in Nat
    BY <2>1 DEF ReadsBoundWrites, JobState, Release, Time
  <2>3. Bounded(j)'
    BY <1>1, <1>3, <2>2 DEF Bounded
  <2>. QED
    BY <1>2, <2>1, <2>3
<1>. QED
  BY <1>1, <1>2, <1>4 DEF ReadsBoundWrites

\* What the invariants say of one kept row.
RowSound(row) ==
    row # None => (row.under # None =>
        /\ ~row.raced =>
              /\ row.under.person = person
              /\ row.under.rules = rules
              /\ \A e \in row.under.ends :
                    row.asked < e => row.expires <= e + (row.refreshed - row.asked)
        /\ ~wentBack => row.policy <= row.under.policy)

\* They say it of every one.
LEMMA RowsSound ==
  KeptUnderAccess /\ EndsWithItsGrant /\ LabelsAreOld <=> \A s \in Source : RowSound(kept[s])
BY DEF KeptUnderAccess, EndsWithItsGrant, LabelsAreOld, RowSound

\* A refresh's row is sound, a failure leaves a sound row sound, and so does a claim.
LEMMA RowsStaySound ==
  ASSUME TypeOK, ReadsBoundWrites
  PROVE  /\ \A t \in Thread : job[t].at = "save" => RowSound(Refreshed(t))
         /\ \A row \in RowState : RowSound(row) => RowSound(Failed(row))
         /\ \A row \in Kept, r \in Refresher \cup {None} :
              RowSound(row) => RowSound([row EXCEPT !.told = r])
<1>1. ASSUME NEW t \in Thread, job[t].at = "save"
      PROVE  RowSound(Refreshed(t))
  <2>1. PICK j \in JobState : j = job[t]
    BY DEF TypeOK
  <2>2. Bounded(j) /\ j.at = "save" /\ j.under \in Release
    BY <1>1, <2>1 DEF ReadsBoundWrites, Bounded, JobState
  <2>3. j.asked \in Nat /\ j.ttl \in Nat /\ clock \in Nat /\ Minute \in Nat /\ j.under.ends \subseteq Nat
    BY <2>2, KeptConstants DEF JobState, Release, Time, TypeOK
  <2>4. ~wentBack => j.policy <= j.under.policy
    BY <2>2 DEF Bounded
  <2>5. ASSUME j.under.rules = rules, NEW e \in j.under.ends, j.asked < e
        PROVE  clock + (IF j.ttl < Minute THEN Minute ELSE j.ttl) <= e + (clock - j.asked)
    <3>1. j.asked + Minute <= e /\ j.asked + j.ttl <= e
      BY <2>2, <2>5 DEF Bounded
    <3>. QED
      BY <2>3, <3>1
  <2>6. /\ Refreshed(t).under = j.under /\ Refreshed(t).policy = j.policy
        /\ Refreshed(t).raced = (j.under.person # person \/ j.under.rules # rules)
        /\ Refreshed(t).expires = clock + (IF j.ttl < Minute THEN Minute ELSE j.ttl)
        /\ Refreshed(t).refreshed = clock /\ Refreshed(t).asked = j.asked
    BY <2>1 DEF Refreshed
  <2>. QED
    BY <2>4, <2>5, <2>6 DEF RowSound
<1>2. ASSUME NEW row \in RowState, RowSound(row)
      PROVE  RowSound(Failed(row))
  <2>1. CASE row = None
    BY <2>1 DEF RowSound, Failed, FirstFailure
  <2>2. CASE row # None
    <3>1. row \in Kept
      BY <2>2 DEF RowState
    <3>2. PICK f : f = Failed(row)
      OBVIOUS
    <3>3. /\ f.under = row.under /\ f.policy = row.policy /\ f.raced = row.raced
          /\ f.expires = row.expires /\ f.refreshed = row.refreshed /\ f.asked = row.asked
      BY <2>2, <3>1, <3>2 DEF Failed, Kept
    <3>. QED
      BY <1>2, <2>2, <3>2, <3>3 DEF RowSound
  <2>. QED
    BY <2>1, <2>2
<1>3. ASSUME NEW row \in Kept, NEW r \in Refresher \cup {None}, RowSound(row)
      PROVE  RowSound([row EXCEPT !.told = r])
  <2>1. PICK f : f = [row EXCEPT !.told = r]
    OBVIOUS
  <2>2. /\ f.under = row.under /\ f.policy = row.policy /\ f.raced = row.raced
        /\ f.expires = row.expires /\ f.refreshed = row.refreshed /\ f.asked = row.asked
    BY <2>1 DEF Kept
  <2>. QED
    BY <1>3, <2>1, <2>2, NoneIsNew DEF RowSound
<1>. QED
  BY <1>1, <1>2, <1>3

\* The rows that are forgotten, cleared or written are rows, and stay sound.
LEMMA StepRows ==
  ASSUME TypeOK, ReadsBoundWrites, \A s \in Source : RowSound(kept[s]), [Next]_vars
  PROVE  kept' \in [Source -> RowState] /\ \A s \in Source : RowSound(kept[s])'
<1>. DEFINE Goal == kept' \in [Source -> RowState] /\ \A s \in Source : RowSound(kept[s])'
<1>1. /\ kept \in [Source -> RowState]
      /\ \A t \in Thread : job[t] \in JobState /\ Bounded(job[t])
      /\ Refresher \subseteq Thread
  BY DEF TypeOK, ReadsBoundWrites, Thread
<1>2. ASSUME UNCHANGED <<person, rules>>, ~wentBack' => ~wentBack, kept' = kept
      PROVE  Goal
  BY <1>1, <1>2 DEF RowSound
<1>3. ASSUME UNCHANGED <<person, rules, wentBack>>, NEW s \in Source, NEW row \in Kept, RowSound(row),
             kept' = [kept EXCEPT ![s] = row]
      PROVE  Goal
  <2>1. kept' \in [Source -> RowState] /\ \A other \in Source : RowSound(kept'[other])
    BY <1>1, <1>3 DEF RowState
  <2>. QED
    BY <1>3, <2>1 DEF RowSound
<1>4. ASSUME ForgetKeptRows
      PROVE  Goal
  <2>1. kept' = [s \in Source |-> None]
    BY <1>4 DEF ForgetKeptRows
  <2>. QED
    BY <2>1 DEF RowSound, RowState
<1>5. ASSUME NEW t \in Thread, SaveRows(t)
      PROVE  Goal
  <2>1. /\ job[t].at = "save" /\ job[t].source \in Source /\ job[t].under # None
        /\ UNCHANGED <<person, rules, wentBack>>
    BY <1>1, <1>5 DEF SaveRows, Bounded, accessVars
  <2>2. Refreshed(t) \in Kept /\ RowSound(Refreshed(t))
    BY <2>1, RowTypes, RowsStaySound
  <2>3. CASE kept' = Written(t)
    BY <1>3, <2>1, <2>2, <2>3 DEF Written
  <2>4. CASE kept' = Unclaimed(Written(t))
    <3>1. Written(t) \in [Source -> RowState] /\ \A s \in Source : RowSound(Written(t)[s])
      BY <1>1, <2>1, <2>2 DEF Written, RowState
    <3>2. kept' \in [Source -> RowState]
      BY <2>1, <2>4, <3>1, RowTypes
    <3>3. ASSUME NEW s \in Source
          PROVE  RowSound(kept'[s])
      <4>1. kept'[s] = IF Written(t)[s] = None THEN None ELSE [Written(t)[s] EXCEPT !.told = None]
        BY <2>4 DEF Unclaimed
      <4>2. CASE Written(t)[s] = None
        BY <4>1, <4>2 DEF RowSound
      <4>3. CASE Written(t)[s] # None
        BY <3>1, <4>1, <4>3, RowsStaySound DEF RowState
      <4>. QED
        BY <4>2, <4>3
    <3>. QED
      BY <2>1, <3>2, <3>3 DEF RowSound
  <2>. QED
    BY <1>5, <2>3, <2>4 DEF SaveRows
<1>6. ASSUME NEW r \in Refresher, MarkError(r)
      PROVE  Goal
  <2>1. /\ job[r].source \in Source
        /\ kept' = [kept EXCEPT ![job[r].source] = Failed(kept[job[r].source])]
        /\ UNCHANGED <<person, rules, wentBack>>
    BY <1>1, <1>6 DEF MarkError, Bounded, accessVars
  <2>2. Failed(kept[job[r].source]) \in Kept /\ RowSound(Failed(kept[job[r].source]))
    BY <1>1, <2>1, RowTypes, RowsStaySound
  <2>. QED
    BY <1>3, <2>1, <2>2
<1>7. ASSUME NEW r \in Refresher, Claim(r) \/ ReleaseNotice(r)
      PROVE  Goal
  <2>1. /\ job[r].source \in Source
        /\ \/ kept' = kept
           \/ /\ kept[job[r].source] # None
              /\ \E by \in Refresher \cup {None} : kept' = [kept EXCEPT ![job[r].source].told = by]
        /\ UNCHANGED <<person, rules, wentBack>>
    BY <1>1, <1>7, NoneIsNew DEF Claim, ReleaseNotice, MayClaim, Stands, Teller, Bounded, accessVars
  <2>2. ASSUME kept[job[r].source] # None, NEW by \in Refresher \cup {None},
               kept' = [kept EXCEPT ![job[r].source].told = by]
        PROVE  Goal
    <3>1. kept[job[r].source] \in Kept /\ RowSound(kept[job[r].source])
      BY <1>1, <2>1, <2>2 DEF RowState
    <3>2. PICK row : row = [kept[job[r].source] EXCEPT !.told = by]
      OBVIOUS
    <3>3. row \in Kept
      BY <3>1, <3>2 DEF Kept
    <3>4. RowSound(row)
      BY <3>1, <3>2, RowsStaySound
    <3>5. kept' = [kept EXCEPT ![job[r].source] = row]
      BY <2>2, <3>2
    <3>. QED
      BY <1>3, <2>1, <3>3, <3>4, <3>5
  <2>. QED
    BY <1>2, <2>1, <2>2
<1>8. ASSUME Administer
      PROVE  Goal
  <2>1. CASE \E a \in Admin : WriteProfile(a)
    <3>1. PICK a \in Admin : WriteProfile(a)
      BY <2>1
    <3>2. (~wentBack' => ~wentBack) /\ UNCHANGED <<person, rules>>
      BY <3>1 DEF WriteProfile, accessVars
    <3>3. ForgetKeptRows \/ kept' = kept
      BY <3>1 DEF WriteProfile
    <3>. QED
      BY <1>2, <1>4, <3>2, <3>3
  <2>2. CASE \/ \E a \in Admin : ReadProfile(a)
             \/ \E version \in 0 .. (contract + 1) : version # contract /\ Publish(version)
    BY <1>2, <2>2 DEF ReadProfile, Publish, accessVars
  <2>. QED
    BY <1>4, <1>8, <2>1, <2>2 DEF Administer, ChangePerson, ChangeRules, Grant, Revoke
<1>9. ASSUME \/ \E r \in Refresher : StartPass(r) \/ TakeSource(r) \/ AddNotice(r) \/ NoticeFails(r)
             \/ \E t \in Thread : ReadLabels(t) \/ ResolveContext(t) \/ QueryWorks(t) \/ QueryFails(t)
                                   \/ AskHowLong(t) \/ Stop(t)
             \/ \E p \in Page : ShowPage(p)
             \/ Tick
             \/ UNCHANGED vars
      PROVE  Goal
  <2>1. UNCHANGED <<person, rules, wentBack, kept>>
    BY <1>9 DEF StartPass, TakeSource, AddNotice, NoticeFails, ReadLabels, ResolveContext, QueryWorks,
                QueryFails, AskHowLong, Stop, ShowPage, View, LookUp, Serve, Tick, vars, accessVars
  <2>. QED
    BY <1>2, <2>1
<1>. QED
  BY <1>5, <1>6, <1>7, <1>8, <1>9 DEF Next, Refresh, Execute

\* What claims are held, which of them are in hand and how many were told is all that
\* matters of a claim.
LEMMA ClaimStays ==
  ASSUME ClaimSound, UNCHANGED toldVars,
         \A s \in Source : Teller(s)' = Teller(s),
         \A r \in Refresher, s \in Source : InHand(r, s)' = InHand(r, s),
         \A s \in Source : Teller(s) \in Refresher \cup {None}
  PROVE  ClaimSound'
BY DEF ClaimSound, toldVars

\* No claim is held, and nothing was told.
LEMMA NoClaim ==
  ASSUME notices' = 0, \A s \in Source : Teller(s)' = None
  PROVE  ClaimSound'
BY DEF ClaimSound

\* A thread that had no notice in hand and has none after its step.
LEMMA HandsEmpty ==
  ASSUME job \in [Thread -> JobState], NEW t \in Thread, NEW j \in JobState, Become(t, j),
         job[t].at \notin {"notice", "release"}, j.at \notin {"notice", "release"}
  PROVE  \A r \in Refresher, s \in Source : InHand(r, s)' = InHand(r, s)
<1>1. \A r \in Refresher : job'[r] = IF r = t THEN j ELSE job[r]
  BY DEF Become, Thread
<1>. QED
  BY <1>1 DEF InHand

\* A thread that is done has no notice in hand; the others have what they had.
LEMMA HandsOver ==
  ASSUME job \in [Thread -> JobState], NEW t \in Thread, Become(t, Over(job[t])) \/ Become(t, NoJob)
  PROVE  /\ \A s \in Source : ~InHand(t, s)'
         /\ \A r \in Refresher \ {t}, s \in Source : InHand(r, s)' = InHand(r, s)
<1>1. job[t] \in JobState
  OBVIOUS
<1>2. job'[t].at \in {"idle", "next"}
  BY <1>1, OverIsFine DEF Become
<1>3. \A r \in Refresher \ {t} : job'[r] = job[r]
  BY DEF Become, Thread
<1>. QED
  BY <1>2, <1>3 DEF InHand

\* Of every claim, one thread has the notice in hand until it is told, whatever the step.
LEMMA StepClaims ==
  ASSUME TypeOK, ReadsBoundWrites, ClaimSound, [Next]_vars
  PROVE  ClaimSound'
<1>1. /\ kept \in [Source -> RowState] /\ job \in [Thread -> JobState] /\ notices \in Nat
      /\ \A t \in Thread : job[t] \in JobState /\ Bounded(job[t])
      /\ Refresher \subseteq Thread /\ Page \subseteq Thread
      /\ \A s \in Source : Teller(s) \in Refresher \cup {None}
  BY DEF TypeOK, ReadsBoundWrites, Thread, Teller, RowState, Kept
<1>2. ASSUME ForgetKeptRows
      PROVE  ClaimSound'
  BY <1>2, NoClaim DEF ForgetKeptRows, Teller
<1>3. ASSUME UNCHANGED <<kept, toldVars>>,
             \A r \in Refresher, s \in Source : InHand(r, s)' = InHand(r, s)
      PROVE  ClaimSound'
  BY <1>1, <1>3, ClaimStays DEF Teller
<1>4. ASSUME UNCHANGED <<kept, toldVars, job>>
      PROVE  ClaimSound'
  BY <1>3, <1>4 DEF InHand
<1>5. ASSUME UNCHANGED <<kept, toldVars>>, NEW t \in Thread, NEW j,
             job[t].at \notin {"notice", "release"}, j.at \notin {"notice", "release"}, Become(t, j)
      PROVE  ClaimSound'
  <2>1. \A r \in Refresher : job'[r] = IF r = t THEN j ELSE job[r]
    BY <1>1, <1>5 DEF Become
  <2>. QED
    BY <1>3, <1>5, <2>1 DEF InHand
<1>6. ASSUME NEW t \in Thread, SaveRows(t)
      PROVE  ClaimSound'
  <2>1. job[t].at = "save" /\ job[t].source \in Source /\ job[t].under # None /\ Become(t, Over(job[t]))
    BY <1>1, <1>6 DEF SaveRows, Bounded
  <2>2. \A r \in Refresher, s \in Source : InHand(r, s)' = InHand(r, s)
    BY <1>1, <2>1, OverIsFine, HandsEmpty
  <2>3. Refreshed(t) # None /\ Refreshed(t).told = Teller(job[t].source)
    BY <2>1, RowTypes, NoneIsNew DEF Refreshed, Teller
  <2>4. CASE kept' = Written(t) /\ UNCHANGED toldVars
    <3>1. \A s \in Source : Teller(s)' = Teller(s)
      BY <1>1, <2>1, <2>3, <2>4 DEF Written, Teller
    <3>. QED
      BY <1>1, <2>2, <2>4, <3>1, ClaimStays
  <2>5. CASE kept' = Unclaimed(Written(t)) /\ notices' = 0
    <3>1. ASSUME NEW s \in Source
          PROVE  Teller(s)' = None
      <4>1. Written(t)[s] \in RowState
        BY <1>1, <2>1, RowTypes DEF Written, RowState
      <4>2. kept'[s] = IF Written(t)[s] = None THEN None ELSE [Written(t)[s] EXCEPT !.told = None]
        BY <2>5 DEF Unclaimed
      <4>. QED
        BY <4>1, <4>2 DEF Teller, RowState, Kept
    <3>. QED
      BY <2>5, <3>1, NoClaim
  <2>. QED
    BY <1>6, <2>4, <2>5 DEF SaveRows
<1>7. ASSUME NEW r \in Refresher, MarkError(r)
      PROVE  ClaimSound'
  <2>1. /\ job[r].source \in Source /\ job[r].at \in {"failed", "inactive"} /\ UNCHANGED toldVars
        /\ kept' = [kept EXCEPT ![job[r].source] = Failed(kept[job[r].source])]
        /\ \/ Become(r, [job[r] EXCEPT !.at = "claim"])
           \/ Become(r, Over(job[r]))
    BY <1>1, <1>7 DEF MarkError, Bounded
  <2>2. \A q \in Refresher, s \in Source : InHand(q, s)' = InHand(q, s)
    <3>1. job[r] \in JobState /\ "claim" \in Place /\ r \in Thread
      BY <1>1 DEF Place
    <3>2. /\ [job[r] EXCEPT !.at = "claim"] \in JobState
          /\ [job[r] EXCEPT !.at = "claim"].at = "claim"
      BY <3>1, MoveType
    <3>. QED
      BY <1>1, <2>1, <3>1, <3>2, OverIsFine, HandsEmpty
  <2>3. /\ Failed(kept[job[r].source]) # None
        /\ Failed(kept[job[r].source]).told = Teller(job[r].source)
    <3>1. Failed(kept[job[r].source]) # None
      <4>1. r \in Thread
        BY <1>1
      <4>. QED
        BY <2>1, <4>1, RowTypes, NoneIsNew
    <3>2. CASE kept[job[r].source] = None
      <4>1. /\ Failed(kept[job[r].source]) = FirstFailure
            /\ Teller(job[r].source) = None
        BY <3>2 DEF Failed, Teller
      <4>2. FirstFailure.told = None
        BY DEF FirstFailure
      <4>. QED
        BY <3>1, <4>1, <4>2
    <3>3. CASE kept[job[r].source] # None
      <4>1. PICK row \in Kept : row = kept[job[r].source]
        BY <1>1, <2>1, <3>3 DEF RowState
      <4>2. Failed(row).told = row.told
        BY <3>3, <4>1 DEF Failed, Kept
      <4>. QED
        BY <3>1, <3>3, <4>1, <4>2 DEF Teller
    <3>. QED
      BY <3>1, <3>2, <3>3
  <2>4. \A s \in Source : Teller(s)' = Teller(s)
    BY <1>1, <2>1, <2>3 DEF Teller
  <2>. QED
    BY <1>1, <2>1, <2>2, <2>4, ClaimStays
<1>8. ASSUME NEW r \in Refresher, Claim(r)
      PROVE  ClaimSound'
  <2>1. r \in Thread /\ job[r] \in JobState /\ job[r].source \in Source /\ job[r].at = "claim" /\ UNCHANGED toldVars
    BY <1>1, <1>8 DEF Claim, Bounded
  <2>2. CASE kept' = kept /\ Become(r, Over(job[r]))
    BY <1>3, <1>1, <2>1, <2>2, OverIsFine, HandsEmpty
  <2>3. CASE /\ MayClaim(job[r].source)
             /\ kept' = [kept EXCEPT ![job[r].source].told = r]
             /\ Become(r, [job[r] EXCEPT !.at = "notice"])
    <3>1. kept[job[r].source] \in Kept
      BY <1>1, <2>1, <2>3 DEF MayClaim, RowState
    <3>2. PICK row : row = [kept[job[r].source] EXCEPT !.told = r]
      OBVIOUS
    <3>3. row \in Kept /\ row.told = r /\ row # None
      BY <3>1, <3>2, NoneIsNew DEF Kept
    <3>4. kept' = [kept EXCEPT ![job[r].source] = row]
      BY <2>3, <3>2
    <3>5. PICK held \in Source : held = job[r].source
      BY <2>1
    <3>6. Teller(held)' = r /\ \A s \in Source : s # held => Teller(s)' = None
      BY <1>1, <2>3, <3>3, <3>4, <3>5 DEF Teller, MayClaim
    <3>7. notices' = 0
      BY <1>1, <2>1, <2>3 DEF ClaimSound, MayClaim, toldVars
    <3>8. InHand(r, held)'
      <4>1. [job[r] EXCEPT !.at = "notice"].at = "notice" /\ [job[r] EXCEPT !.at = "notice"].source = held
        BY <2>1, <3>5 DEF JobState
      <4>2. job'[r] = [job[r] EXCEPT !.at = "notice"]
        BY <1>1, <2>1, <2>3 DEF Become
      <4>. QED
        BY <4>1, <4>2 DEF InHand
    <3>. QED
      BY <3>6, <3>7, <3>8 DEF ClaimSound
  <2>. QED
    BY <1>8, <2>2, <2>3 DEF Claim
<1>9. ASSUME NEW r \in Refresher, NoticeFails(r)
      PROVE  ClaimSound'
  <2>1. r \in Thread /\ job[r] \in JobState /\ job[r].at = "notice" /\ UNCHANGED <<kept, toldVars>>
        /\ Become(r, [job[r] EXCEPT !.at = "release"])
    BY <1>1, <1>9 DEF NoticeFails
  <2>2. [job[r] EXCEPT !.at = "release"].at = "release" /\ [job[r] EXCEPT !.at = "release"].source = job[r].source
    BY <2>1 DEF JobState
  <2>3. \A q \in Refresher : job'[q] = IF q = r THEN [job[r] EXCEPT !.at = "release"] ELSE job[q]
    BY <1>1, <2>1 DEF Become
  <2>4. \A q \in Refresher, s \in Source : InHand(q, s)' = InHand(q, s)
    BY <2>1, <2>2, <2>3 DEF InHand
  <2>. QED
    BY <1>3, <2>1, <2>4
<1>10. ASSUME NEW r \in Refresher, AddNotice(r)
       PROVE  ClaimSound'
  <2>1. /\ r \in Thread /\ job[r].source \in Source /\ InHand(r, job[r].source) /\ Become(r, Over(job[r]))
        /\ UNCHANGED <<kept, cut>> /\ notices' = IF Stands(r) THEN notices + 1 ELSE notices
    BY <1>1, <1>10 DEF AddNotice, Bounded, InHand
  <2>2. \A s \in Source : Teller(s)' = Teller(s)
    BY <2>1 DEF Teller
  <2>3. /\ \A s \in Source : ~InHand(r, s)'
        /\ \A q \in Refresher \ {r}, s \in Source : InHand(q, s)' = InHand(q, s)
    BY <1>1, <2>1, HandsOver
  <2>4. CASE Stands(r)
    <3>1. Teller(job[r].source) = r /\ r # None
      BY <2>4, NoneIsNew DEF Stands
    <3>2. notices = 0 /\ notices' = 1
      BY <1>1, <2>1, <2>4, <3>1 DEF ClaimSound
    <3>3. \A s \in Source : Teller(s) # None => Teller(s) = r
      BY <2>1, <3>1 DEF ClaimSound
    <3>. QED
      BY <2>1, <2>2, <2>3, <3>1, <3>2, <3>3 DEF ClaimSound
  <2>5. CASE ~Stands(r)
    <3>1. \A s \in Source : Teller(s) = r => ~InHand(r, s)
      BY <2>5 DEF Stands, InHand
    <3>. QED
      BY <1>1, <2>1, <2>2, <2>3, <2>5, <3>1 DEF ClaimSound
  <2>. QED
    BY <2>4, <2>5
<1>11. ASSUME NEW r \in Refresher, ReleaseNotice(r)
       PROVE  ClaimSound'
  <2>1. /\ r \in Thread /\ job[r].source \in Source /\ InHand(r, job[r].source) /\ Become(r, Over(job[r]))
        /\ UNCHANGED toldVars
        /\ kept' = IF Stands(r) THEN [kept EXCEPT ![job[r].source].told = None] ELSE kept
    BY <1>1, <1>11 DEF ReleaseNotice, Bounded, InHand
  <2>2. /\ \A s \in Source : ~InHand(r, s)'
        /\ \A q \in Refresher \ {r}, s \in Source : InHand(q, s)' = InHand(q, s)
    BY <1>1, <2>1, HandsOver
  <2>3. CASE Stands(r)
    <3>1. Teller(job[r].source) = r /\ r # None
      BY <2>3, NoneIsNew DEF Stands
    <3>2. notices' = 0
      BY <1>1, <2>1, <3>1 DEF ClaimSound, toldVars
    <3>3. \A s \in Source : s # job[r].source => Teller(s) = None
      BY <2>1, <3>1 DEF ClaimSound
    <3>4. kept[job[r].source] \in Kept
      BY <1>1, <2>1, <3>1 DEF Teller, RowState
    <3>5. PICK row : row = [kept[job[r].source] EXCEPT !.told = None]
      OBVIOUS
    <3>6. row.told = None
      BY <3>4, <3>5 DEF Kept
    <3>7. kept' = [kept EXCEPT ![job[r].source] = row]
      BY <2>1, <2>3, <3>5
    <3>8. \A s \in Source : Teller(s)' = None
      BY <1>1, <2>1, <3>3, <3>6, <3>7 DEF Teller
    <3>. QED
      BY <3>2, <3>8, NoClaim
  <2>4. CASE ~Stands(r)
    <3>1. \A s \in Source : Teller(s) = r => ~InHand(r, s)
      BY <2>4 DEF Stands, InHand
    <3>2. \A s \in Source : Teller(s)' = Teller(s)
      BY <2>1, <2>4 DEF Teller
    <3>. QED
      BY <1>1, <2>1, <2>2, <3>1, <3>2 DEF ClaimSound, toldVars
  <2>. QED
    BY <2>3, <2>4
<1>12. ASSUME NEW t \in Thread, Stop(t)
       PROVE  ClaimSound'
  <2>1. /\ Become(t, NoJob) /\ UNCHANGED <<kept, notices>>
        /\ cut' = (cut \/ (job[t].at \in {"notice", "release"} /\ Stands(t)))
    BY <1>12 DEF Stop
  <2>2. /\ \A s \in Source : ~InHand(t, s)'
        /\ \A q \in Refresher \ {t}, s \in Source : InHand(q, s)' = InHand(q, s)
    BY <1>1, <2>1, HandsOver
  <2>3. \A s \in Source : Teller(s)' = Teller(s)
    BY <2>1 DEF Teller
  <2>4. \A s \in Source : Teller(s) = t /\ InHand(t, s) => cut'
    BY <2>1 DEF Stands, InHand
  <2>5. cut => cut'
    BY <2>1
  <2>6. \A s \in Source : Teller(s) # None =>
          IF notices = 0 THEN cut' \/ InHand(Teller(s), s)' ELSE ~InHand(Teller(s), s)'
    <3>. SUFFICES ASSUME NEW s \in Source, NEW q \in Refresher, q = Teller(s)
                  PROVE  IF notices = 0 THEN cut' \/ InHand(q, s)' ELSE ~InHand(q, s)'
      BY <1>1, <2>3
    <3>1. IF notices = 0 THEN cut \/ InHand(q, s) ELSE ~InHand(q, s)
      BY NoneIsNew DEF ClaimSound
    <3>. QED
      BY <2>2, <2>4, <2>5, <3>1
  <2>. QED
    BY <2>1, <2>3, <2>6 DEF ClaimSound
<1>13. ASSUME Administer
       PROVE  ClaimSound'
  <2>1. CASE \/ \E a \in Admin : ReadProfile(a) \/ WriteProfile(a)
             \/ \E version \in 0 .. (contract + 1) : version # contract /\ Publish(version)
    BY <1>2, <1>4, <2>1 DEF ReadProfile, WriteProfile, Publish
  <2>. QED
    BY <1>2, <1>13, <2>1 DEF Administer, ChangePerson, ChangeRules, Grant, Revoke
<1>14. ASSUME NEW r \in Refresher, StartPass(r) \/ TakeSource(r)
       PROVE  ClaimSound'
  BY <1>1, <1>5, <1>14 DEF StartPass, TakeSource, JobState
<1>15. ASSUME NEW t \in Thread,
              ReadLabels(t) \/ ResolveContext(t) \/ QueryWorks(t) \/ QueryFails(t) \/ AskHowLong(t)
       PROVE  ClaimSound'
  <2>1. job[t] \in JobState /\ UNCHANGED <<kept, toldVars>> /\ job[t].at \notin {"notice", "release"}
    BY <1>1, <1>15 DEF ReadLabels, ResolveContext, QueryWorks, QueryFails, AskHowLong
  <2>2. Over(job[t]).at \notin {"notice", "release"}
    BY <2>1, OverIsFine
  <2>3. CASE Become(t, Over(job[t]))
    BY <1>5, <2>1, <2>2, <2>3
  <2>4. CASE ReadLabels(t)
    <3>1. [job[t] EXCEPT !.at = IF t \in Page THEN "cache" ELSE "context",
                         !.policy = policy, !.contract = contract].at \notin {"notice", "release"}
      BY <2>1 DEF JobState
    <3>. QED
      BY <1>5, <2>1, <2>4, <3>1 DEF ReadLabels
  <2>5. CASE ResolveContext(t)
    <3>1. [job[t] EXCEPT !.at = "query",
                         !.under = [person |-> job[t].person, rules |-> rules,
                                    policy |-> policy, ends |-> InForce]].at = "query"
      BY <2>1 DEF JobState
    <3>. QED
      BY <1>5, <2>1, <2>5, <3>1 DEF ResolveContext
  <2>6. CASE \E at \in {"keep", "failed"} : Become(t, [job[t] EXCEPT !.at = at])
    <3>1. PICK at \in {"keep", "failed"} : Become(t, [job[t] EXCEPT !.at = at])
      BY <2>6
    <3>2. [job[t] EXCEPT !.at = at].at = at
      BY <2>1 DEF JobState
    <3>. QED
      BY <1>5, <2>1, <3>1, <3>2
  <2>7. CASE \E ttl \in Ttls :
               Become(t, [job[t] EXCEPT !.at = "save", !.ttl = KeptFor(ttl), !.asked = clock])
    <3>1. PICK ttl \in Ttls :
            Become(t, [job[t] EXCEPT !.at = "save", !.ttl = KeptFor(ttl), !.asked = clock])
      BY <2>7
    <3>2. [job[t] EXCEPT !.at = "save", !.ttl = KeptFor(ttl), !.asked = clock].at = "save"
      BY <2>1 DEF JobState
    <3>. QED
      BY <1>5, <2>1, <3>1, <3>2
  <2>. QED
    BY <1>15, <2>3, <2>4, <2>5, <2>6, <2>7 DEF QueryWorks, QueryFails, AskHowLong
<1>16. ASSUME NEW p \in Page, ShowPage(p)
       PROVE  ClaimSound'
  <2>1. /\ p \in Thread /\ job[p] \in JobState /\ UNCHANGED <<kept, toldVars>>
        /\ job[p].at \notin {"notice", "release"}
    BY <1>1, <1>16 DEF ShowPage, LookUp, Serve, View
  <2>2. CASE Become(p, Over(job[p]))
    BY <1>5, <2>1, <2>2, OverIsFine
  <2>3. CASE Become(p, [job[p] EXCEPT !.at = "context"])
    <3>1. [job[p] EXCEPT !.at = "context"].at = "context"
      BY <2>1 DEF JobState
    <3>. QED
      BY <1>5, <2>1, <2>3, <3>1
  <2>4. CASE Become(p, [job[p] EXCEPT !.at = "served", !.under = kept[job[p].source].under])
    <3>1. [job[p] EXCEPT !.at = "served", !.under = kept[job[p].source].under].at = "served"
      BY <2>1 DEF JobState
    <3>. QED
      BY <1>5, <2>1, <2>4, <3>1
  <2>5. CASE \E s \in Source : Become(p, [job[p] EXCEPT !.at = "labels", !.source = s, !.person = person])
    <3>1. PICK s \in Source : Become(p, [job[p] EXCEPT !.at = "labels", !.source = s, !.person = person])
      BY <2>5
    <3>2. [job[p] EXCEPT !.at = "labels", !.source = s, !.person = person].at = "labels"
      BY <2>1 DEF JobState
    <3>. QED
      BY <1>5, <2>1, <3>1, <3>2
  <2>. QED
    BY <1>16, <2>2, <2>3, <2>4, <2>5 DEF ShowPage, LookUp, Serve, View
<1>17. ASSUME Tick \/ UNCHANGED vars
       PROVE  ClaimSound'
  BY <1>4, <1>17 DEF Tick, vars
<1>. QED
  BY <1>6, <1>7, <1>8, <1>9, <1>10, <1>11, <1>12, <1>13, <1>14, <1>15, <1>16, <1>17
     DEF Next, Refresh, Execute

\* The rest of the type invariant.
LEMMA StepRest ==
  ASSUME TypeOK, [Next]_vars
  PROVE  /\ clock' \in 1 .. LastTime
         /\ person' \in Nat /\ active' \in BOOLEAN /\ rules' \in Nat /\ ends' \subseteq Time
         /\ policy' \in Nat /\ made' \in Nat /\ contract' \in Nat
         /\ saving' \in [Admin -> Saving \cup {None}]
         /\ notices' \in Nat /\ cut' \in BOOLEAN /\ wentBack' \in BOOLEAN
         /\ changes' \in Nat /\ failed' \in Nat /\ stops' \in Nat
<1>. DEFINE Goal ==
         /\ clock' \in 1 .. LastTime
         /\ person' \in Nat /\ active' \in BOOLEAN /\ rules' \in Nat /\ ends' \subseteq Time
         /\ policy' \in Nat /\ made' \in Nat /\ contract' \in Nat
         /\ saving' \in [Admin -> Saving \cup {None}]
         /\ notices' \in Nat /\ cut' \in BOOLEAN /\ wentBack' \in BOOLEAN
         /\ changes' \in Nat /\ failed' \in Nat /\ stops' \in Nat
<1>1. ASSUME UNCHANGED <<clock, accessVars, profileVars, contract, wentBack, changes>>,
             UNCHANGED toldVars \/ (notices' \in Nat /\ cut' \in BOOLEAN),
             failed' \in {failed, failed + 1}, stops' \in {stops, stops + 1}
      PROVE  Goal
  <2>1. UNCHANGED <<clock, person, active, rules, ends, policy, made, contract, saving, wentBack, changes>>
    BY <1>1 DEF accessVars, profileVars
  <2>2. notices' \in Nat /\ cut' \in BOOLEAN
    BY <1>1 DEF toldVars, TypeOK
  <2>3. failed' \in Nat /\ stops' \in Nat
    BY <1>1 DEF TypeOK
  <2>. QED
    BY <2>1, <2>2, <2>3 DEF TypeOK
<1>2. ASSUME NEW r \in Refresher, Refresh(r)
      PROVE  Goal
  <2>1. CASE StartPass(r) \/ TakeSource(r) \/ MarkError(r) \/ Claim(r) \/ ReleaseNotice(r)
    BY <1>1, <2>1 DEF StartPass, TakeSource, MarkError, Claim, ReleaseNotice, boundVars
  <2>2. CASE AddNotice(r)
    <3>1. notices' \in Nat /\ cut' = cut /\ cut \in BOOLEAN
      BY <2>2 DEF AddNotice, TypeOK
    <3>. QED
      BY <1>1, <2>2, <3>1 DEF AddNotice, boundVars
  <2>3. CASE NoticeFails(r)
    BY <1>1, <2>3 DEF NoticeFails
  <2>. QED
    BY <1>2, <2>1, <2>2, <2>3 DEF Refresh
<1>3. ASSUME NEW t \in Thread, Execute(t)
      PROVE  Goal
  <2>1. CASE ReadLabels(t) \/ ResolveContext(t) \/ QueryWorks(t) \/ AskHowLong(t)
    BY <1>1, <2>1 DEF ReadLabels, ResolveContext, QueryWorks, AskHowLong, boundVars
  <2>2. CASE QueryFails(t)
    BY <1>1, <2>2 DEF QueryFails
  <2>3. CASE SaveRows(t)
    <3>1. UNCHANGED toldVars \/ (notices' \in Nat /\ cut' \in BOOLEAN)
      <4>1. CASE UNCHANGED toldVars
        BY <4>1
      <4>2. CASE notices' = 0 /\ cut' = FALSE
        BY <4>2
      <4>. QED
        BY <2>3, <4>1, <4>2 DEF SaveRows
    <3>2. /\ UNCHANGED <<clock, accessVars, profileVars, contract, wentBack>>
          /\ changes' = changes /\ failed' = failed /\ stops' = stops
      BY <2>3 DEF SaveRows, boundVars
    <3>. QED
      BY <1>1, <3>1, <3>2
  <2>4. CASE Stop(t)
    <3>1. notices' = notices /\ notices \in Nat
      BY <2>4 DEF Stop, TypeOK
    <3>2. cut' \in BOOLEAN
      BY <2>4 DEF Stop
    <3>. QED
      BY <1>1, <2>4, <3>1, <3>2 DEF Stop
  <2>. QED
    BY <1>3, <2>1, <2>2, <2>3, <2>4 DEF Execute
<1>4. ASSUME NEW p \in Page, ShowPage(p)
      PROVE  Goal
  BY <1>1, <1>4 DEF ShowPage, LookUp, Serve, View, boundVars
<1>5. ASSUME UNCHANGED <<clock, profileVars, contract, wentBack, failed, stops>>, ForgetKeptRows, OneChange,
             person' \in {person, person + 1}, active' \in BOOLEAN, rules' \in {rules, rules + 1},
             ends' \subseteq Time
      PROVE  Goal
  <2>1. notices' = 0 /\ cut' = FALSE /\ changes' = changes + 1
    BY <1>5 DEF ForgetKeptRows, OneChange
  <2>2. UNCHANGED <<clock, policy, made, saving, contract, wentBack, failed, stops>>
    BY <1>5 DEF profileVars
  <2>3. person' \in Nat /\ rules' \in Nat /\ changes' \in Nat
    BY <1>5, <2>1 DEF TypeOK
  <2>. QED
    BY <1>5, <2>1, <2>2, <2>3 DEF TypeOK
<1>6. ASSUME \/ \E standing \in BOOLEAN : ChangePerson(standing)
             \/ ChangeRules
      PROVE  Goal
  BY <1>5, <1>6 DEF ChangePerson, ChangeRules, TypeOK
<1>7. ASSUME \/ \E end \in (clock + 1) .. (LastTime + 1) : Grant(end)
             \/ \E end \in ends : Revoke(end)
      PROVE  Goal
  <2>1. ends' \subseteq Time
    <3>1. clock \in Nat /\ ends \subseteq Time
      BY KeptConstants DEF TypeOK
    <3>2. ASSUME NEW end \in (clock + 1) .. (LastTime + 1), Grant(end)
          PROVE  ends' \subseteq Time
      <4>1. end \in Time /\ ends' = ends \cup {end}
        BY <3>1, <3>2, KeptConstants DEF Grant, Time
      <4>. QED
        BY <3>1, <4>1
    <3>3. ASSUME NEW end \in ends, Revoke(end)
          PROVE  ends' \subseteq Time
      BY <3>1, <3>3 DEF Revoke
    <3>. QED
      BY <1>7, <3>2, <3>3
  <2>2. person' = person /\ active' = active /\ rules' = rules + 1 /\ ForgetKeptRows /\ OneChange
    BY <1>7 DEF Grant, Revoke
  <2>3. UNCHANGED <<clock, profileVars, contract, wentBack, failed, stops>>
    BY <1>7 DEF Grant, Revoke
  <2>4. active \in BOOLEAN
    BY DEF TypeOK
  <2>. QED
    BY <1>5, <2>1, <2>2, <2>3, <2>4
<1>8. ASSUME NEW version \in 0 .. (contract + 1), Publish(version)
      PROVE  Goal
  BY <1>8 DEF Publish, OneChange, TypeOK, accessVars, profileVars, toldVars
<1>9. ASSUME NEW a \in Admin, ReadProfile(a)
      PROVE  Goal
  <2>1. UNCHANGED <<clock, person, active, rules, ends, policy, contract, notices, cut, wentBack, failed, stops>>
    BY <1>9 DEF ReadProfile, accessVars, toldVars
  <2>2. made' \in Nat /\ changes' \in Nat
    BY <1>9 DEF ReadProfile, OneChange, TypeOK
  <2>3. [seen |-> policy, to |-> made + 1] \in Saving /\ [seen |-> policy, to |-> policy] \in Saving
    BY DEF Saving, TypeOK
  <2>4. saving' \in [Admin -> Saving \cup {None}]
    BY <1>9, <2>3 DEF ReadProfile, TypeOK
  <2>. QED
    BY <2>1, <2>2, <2>4 DEF TypeOK
<1>10. ASSUME NEW a \in Admin, WriteProfile(a)
       PROVE  Goal
  <2>1. saving[a].to \in Nat
    BY <1>10 DEF WriteProfile, TypeOK, Saving
  <2>2. saving' \in [Admin -> Saving \cup {None}]
    BY <1>10 DEF WriteProfile, TypeOK
  <2>3. UNCHANGED <<clock, person, active, rules, ends, made, contract, changes, failed, stops>>
    BY <1>10 DEF WriteProfile, accessVars, boundVars
  <2>4. notices' \in Nat /\ cut' \in BOOLEAN
    <3>1. CASE ForgetKeptRows
      BY <3>1 DEF ForgetKeptRows
    <3>2. CASE UNCHANGED toldVars
      BY <3>2 DEF toldVars, TypeOK
    <3>. QED
      BY <1>10, <3>1, <3>2 DEF WriteProfile, toldVars
  <2>5. policy' \in Nat /\ wentBack' \in BOOLEAN
    BY <1>10, <2>1 DEF WriteProfile
  <2>. QED
    BY <2>2, <2>3, <2>4, <2>5 DEF TypeOK
<1>11. ASSUME Tick
       PROVE  Goal
  <2>1. clock' \in 1 .. LastTime
    BY <1>11, KeptConstants DEF Tick, TypeOK
  <2>2. UNCHANGED <<person, active, rules, ends, policy, made, saving, contract, notices, cut, wentBack,
                    changes, failed, stops>>
    BY <1>11 DEF Tick, accessVars, profileVars, toldVars, boundVars
  <2>. QED
    BY <2>1, <2>2 DEF TypeOK
<1>12. ASSUME UNCHANGED vars
       PROVE  Goal
  <2>1. UNCHANGED <<clock, person, active, rules, ends, policy, made, saving, contract, notices, cut, wentBack,
                    changes, failed, stops>>
    BY <1>12 DEF vars, accessVars, profileVars, toldVars, boundVars
  <2>. QED
    BY <2>1 DEF TypeOK
<1>13. CASE Administer
  <2>1. ASSUME \E version \in 0 .. (contract + 1) : version # contract /\ Publish(version)
        PROVE  Goal
    BY <1>8, <2>1
  <2>2. ASSUME \E a \in Admin : ReadProfile(a) \/ WriteProfile(a)
        PROVE  Goal
    BY <1>9, <1>10, <2>2
  <2>3. CASE (\E standing \in BOOLEAN : ChangePerson(standing)) \/ ChangeRules
    BY <1>6, <2>3
  <2>4. CASE \/ \E end \in (clock + 1) .. (LastTime + 1) : Grant(end)
             \/ \E end \in ends : Revoke(end)
    BY <1>7, <2>4
  <2>. HIDE DEF Goal
  <2>. QED
    BY <1>13, <2>1, <2>2, <2>3, <2>4 DEF Administer, Goal
<1>14. CASE \E r \in Refresher : Refresh(r)
  BY <1>2, <1>14
<1>15. CASE \E t \in Thread : Execute(t)
  BY <1>3, <1>15
<1>16. CASE \E p \in Page : ShowPage(p)
  BY <1>4, <1>16
<1>17. CASE Tick
  BY <1>11, <1>17
<1>18. CASE UNCHANGED vars
  BY <1>12, <1>18
<1>. HIDE DEF Goal
<1>. QED
  BY <1>13, <1>14, <1>15, <1>16, <1>17, <1>18 DEF Next, Goal

\* At the start nothing is kept and no thread runs.
LEMMA InitKept == Init => TypeOK /\ KeptSound
<1>. SUFFICES ASSUME Init
              PROVE  TypeOK /\ KeptSound
  OBVIOUS
<1>1. NoJob \in JobState /\ NoJob.at = "idle"
  BY DEF NoJob, JobState, Place, Time
<1>2. TypeOK
  <2>1. saving \in [Admin -> Saving \cup {None}] /\ kept \in [Source -> RowState] /\ job \in [Thread -> JobState]
    BY <1>1 DEF Init, RowState
  <2>2. clock \in 1 .. LastTime /\ ends \subseteq Time
    BY KeptConstants DEF Init
  <2>3. active \in BOOLEAN /\ cut \in BOOLEAN /\ wentBack \in BOOLEAN
    BY DEF Init
  <2>4. /\ person \in Nat /\ rules \in Nat /\ policy \in Nat /\ made \in Nat /\ contract \in Nat
        /\ notices \in Nat /\ changes \in Nat /\ failed \in Nat /\ stops \in Nat
    BY DEF Init
  <2>. QED
    BY <2>1, <2>2, <2>3, <2>4 DEF TypeOK
<1>3. ReadsBoundWrites
  BY <1>1 DEF Init, ReadsBoundWrites, Bounded
<1>. QED
  BY <1>2, <1>3 DEF Init, KeptSound, KeptUnderAccess, EndsWithItsGrant, LabelsAreOld, ClaimSound, Teller

\* Every step keeps the types and the invariant.
LEMMA StepKept == TypeOK /\ KeptSound /\ [Next]_vars => (TypeOK /\ KeptSound)'
<1>. SUFFICES ASSUME TypeOK, KeptSound, [Next]_vars
              PROVE  (TypeOK /\ KeptSound)'
  OBVIOUS
<1>1. ReadsBoundWrites /\ ClaimSound /\ LabelsAreOld /\ \A s \in Source : RowSound(kept[s])
  BY RowsSound DEF KeptSound
<1>2. job' \in [Thread -> JobState] /\ ReadsBoundWrites'
  <2>1. CASE Administer \/ Tick
    BY <1>1, <2>1, StepOthers
  <2>2. CASE UNCHANGED vars
    BY <1>1, <2>2 DEF vars, accessVars, profileVars, ReadsBoundWrites, Bounded, TypeOK
  <2>3. CASE \/ \E r \in Refresher : Refresh(r)
             \/ \E t \in Thread : Execute(t)
             \/ \E p \in Page : ShowPage(p)
    <3>1. UNCHANGED <<clock, rules, ends, policy, wentBack>>
      BY <2>3 DEF Refresh, StartPass, TakeSource, MarkError, Claim, AddNotice, NoticeFails, ReleaseNotice,
                  Execute, ReadLabels, ResolveContext, QueryWorks, QueryFails, AskHowLong, SaveRows, Stop,
                  ShowPage, LookUp, Serve, View, accessVars, profileVars
    <3>. QED
      BY <1>1, <2>3, <3>1, StepThreads
  <2>. QED
    BY <2>1, <2>2, <2>3 DEF Next
<1>3. kept' \in [Source -> RowState] /\ \A s \in Source : RowSound(kept[s])'
  BY <1>1, StepRows
<1>4. ClaimSound'
  BY <1>1, StepClaims
<1>5. (KeptUnderAccess /\ EndsWithItsGrant /\ LabelsAreOld)'
  <2>1. (\A s \in Source : RowSound(kept[s]))'
    BY <1>3
  <2>. QED
    BY <2>1, RowsSound, PTL
<1>6. TypeOK'
  BY <1>2, <1>3, StepRest DEF TypeOK
<1>. QED
  BY <1>2, <1>4, <1>5, <1>6 DEF KeptSound

\* The types and the inductive invariant hold in every state.
THEOREM KeptIsSound == Spec => []KeptSound
BY InitKept, StepKept, PTL DEF Spec

\* Every variable stays within its type.
THEOREM KeptTypes == Spec => []TypeOK
BY InitKept, StepKept, PTL DEF Spec

\* Rows whose refresh no change of access fell into are kept under the access as it is.
THEOREM KeptUnderAccessAsItIs == Spec => []KeptUnderAccess
<1>1. KeptSound => KeptUnderAccess
  BY DEF KeptSound
<1>. QED
  BY <1>1, KeptIsSound, PTL

\* Such rows outlive the access they were released under by no more than the write took.
THEOREM KeptNoLonger == Spec => []EndsWithItsGrant
<1>1. KeptSound => EndsWithItsGrant
  BY DEF KeptSound
<1>. QED
  BY <1>1, KeptIsSound, PTL

\* No page is served rows of an older policy than the one it opened under.
THEOREM NoOlderPolicyIsServed == Spec => []ServedNoOlderPolicy
<1>1. TypeOK /\ KeptSound => ServedNoOlderPolicy
  <2>. SUFFICES ASSUME TypeOK, KeptSound, NEW p \in Page, job[p].at = "served", ~wentBack
                PROVE  job[p].under.policy >= job[p].policy
    BY DEF ServedNoOlderPolicy
  <2>1. job[p] \in JobState /\ Bounded(job[p])
    BY DEF TypeOK, KeptSound, ReadsBoundWrites, Thread
  <2>2. job[p].under \in Release /\ job[p].policy <= job[p].under.policy
    BY <2>1 DEF Bounded, JobState
  <2>. QED
    BY <2>1, <2>2 DEF JobState, Release
<1>. QED
  BY <1>1, KeptIsSound, KeptTypes, PTL

\* A run of failures is told to the owner once.
THEOREM OwnerToldOnce == Spec => []ToldOnce
<1>1. KeptSound => ToldOnce
  BY DEF KeptSound, ClaimSound, ToldOnce
<1>. QED
  BY <1>1, KeptIsSound, PTL

\* A claim nobody was told of is in a thread's hand, or was cut short in it.
THEOREM ClaimsAreKept == Spec => []ClaimIsKept
<1>1. TypeOK /\ KeptSound => ClaimIsKept
  BY DEF KeptSound, ClaimSound, ClaimIsKept, TypeOK
<1>. QED
  BY <1>1, KeptIsSound, KeptTypes, PTL
=============================================================================
