---------------------------- MODULE MCMailOutbox ----------------------------
(***************************************************************************)
(* Instances of MailOutbox for TLC.                                         *)
(***************************************************************************)
EXTENDS MailOutbox, TLC

CONSTANTS report, c1, c2, s1, s2, r1

\* A scheduled report: a dedupe key, a PDF, and an address that can stop it.
OneReport == {report}

OneCaller == {c1}
TwoCallers == {c1, c2}
OneScheduler == {s1}
TwoSchedulers == {s1, s2}
OneRequest == {r1}
NoThread == {}
NoMessage == {}

AnyDomain == {{}}
SomeDomains == {{}, {report}}

Threads == Permutations(TwoCallers) \cup Permutations(TwoSchedulers)
=============================================================================
