----------------------------- MODULE MCKeptRows -----------------------------
(***************************************************************************)
(* Instances of KeptRows for TLC.                                           *)
(***************************************************************************)
EXTENDS KeptRows, TLC

CONSTANTS f1, f2, p1, a1, a2

OneRefresher == {f1}
TwoRefreshers == {f1, f2}
OnePage == {p1}
OneAdmin == {a1}
TwoAdmins == {a1, a2}
Nobody == {}

\* A life shorter than the minute a cache lasts at least, and one longer.
ShortAndLong == {1, 3}
Short == {1}

Refreshers == Permutations(TwoRefreshers)
=============================================================================
