--------------------------- MODULE MCScheduleRuns ---------------------------
(***************************************************************************)
(* Instances of ScheduleRuns for TLC.                                       *)
(***************************************************************************)
EXTENDS ScheduleRuns, TLC

CONSTANTS s1, s2, r1

OneScheduler == {s1}
TwoSchedulers == {s1, s2}
OneRequest == {r1}
NoRequest == {}
NowButton == {"now"}
TestButton == {"test"}
NoButton == {}

\* A daily schedule, or one due every other day.
Daily == {1 .. LastTime}
OddOrEven == {{t \in 1 .. LastTime : t % 2 = 0}, {t \in 1 .. LastTime : t % 2 = 1}}

Threads == Permutations(TwoSchedulers)

\* Bound: nothing is explored of what comes after an email, or a thread that stops, once the clock
\* has come to its end: the last time is there for schedulers that lag, not for another delivery.
QuietAtTheEnd ==
    now = LastTime => /\ crashes = 0
                      /\ \A w \in Worker : worker[w].at # "sending"
                      /\ \A r \in Run, p \in Person : outbox[r][p] = "none"
=============================================================================
